------------------------------- MODULE Tools -------------------------------
(***************************************************************************)
(* The MCP bridge (mcp_bridge.py): a registry of tools that clients list   *)
(* and call and that the embedding program adds to. The built-in           *)
(* mcp_tools_call calls another tool by the name in its arguments, so that *)
(* a call is a chain of names: every level looks its tool up, runs it and, *)
(* when it has returned, adds an event to the history. To list walks a     *)
(* dict, which raises when the dict has grown meanwhile; the level that    *)
(* called a handler that raises answers with an error and adds no event. A *)
(* tool that is registered has no handler, and takes the place of a        *)
(* built-in of its name. Resources and prompts are tables of the same      *)
(* kind; what they hold and how a prompt is rendered is data.              *)
(***************************************************************************)
EXTENDS BridgeThreads, Sequences

CONSTANTS CustomTools,  \* names that only the embedding program registers
          Lookups,      \* built-ins that answer from one look at the state
          Chains,       \* the chains of names that clients call
          ToolBound     \* bound on the calls

CallTool == "mcp_tools_call"
ListTools == "mcp_tools_list"
BuiltIns == {CallTool, ListTools} \cup Lookups

ASSUME CustomAssumption == CustomTools \cap BuiltIns = {}

VARIABLES tools,      \* tools[n]: whether the registered tool n has a handler
          toolCall,   \* toolCall[t]: how far the request of thread t is
          toolEvents, \* the history: <<call, level>> of what was recorded
          called      \* calls so far; they are numbered

toolVars == <<tools, toolCall, toolEvents, called>>

\* init may be called again: the built-ins come back, what was added stays.
InitTools ==
  /\ toolCall = AllIdle
  /\ tools' = [n \in BuiltIns \cup DOMAIN tools |-> n \in BuiltIns \/ tools[n]]
  /\ UNCHANGED <<toolCall, toolEvents, called>>

RegisterTool(t, n) ==
  /\ At(toolCall, t, "idle")
  /\ tools' = Put(tools, n, FALSE)
  /\ UNCHANGED <<toolCall, toolEvents, called>>

\* deepest is the innermost level that has run, or 0.
StartCall(t, chain) ==
  /\ At(toolCall, t, "idle") /\ called < ToolBound
  /\ called' = called + 1
  /\ toolCall' = [toolCall EXCEPT ![t] =
       [at |-> "enter", call |-> called + 1, chain |-> chain, level |-> 1,
        deepest |-> 0, names |-> {}]]
  /\ UNCHANGED <<tools, toolEvents>>

\* Arguments without a name name nothing.
Named(t) == toolCall[t].level <= Len(toolCall[t].chain)
ToolAt(t) == toolCall[t].chain[toolCall[t].level]
Runnable(t) == Named(t) /\ ToolAt(t) \in DOMAIN tools /\ tools[ToolAt(t)]

\* The level has an answer: the level that called it has run.
Above(t) ==
  LET call == toolCall[t] IN
  IF call.level = 1 THEN Idle
  ELSE [call EXCEPT !.at = "record", !.level = call.level - 1, !.names = {},
                    !.deepest = IF call.deepest = 0 THEN call.level - 1 ELSE call.deepest]

GoUp(t) == toolCall' = [toolCall EXCEPT ![t] = Above(t)]

Descend(t) ==
  /\ At(toolCall, t, "enter") /\ Runnable(t) /\ ToolAt(t) = CallTool
  /\ toolCall' = [toolCall EXCEPT ![t].level = @ + 1]
  /\ UNCHANGED <<tools, toolEvents, called>>

\* Not found, or without a handler.
RefuseTool(t) ==
  /\ At(toolCall, t, "enter") /\ ~Runnable(t)
  /\ GoUp(t)
  /\ UNCHANGED <<tools, toolEvents, called>>

\* A handler may raise and have done nothing: for arguments that are null, a
\* table that grows as it is listed, a prompt that cannot be formatted.
HandlerRaises(t) ==
  /\ At(toolCall, t, "enter") /\ Runnable(t) /\ ToolAt(t) \in Lookups \cup {CallTool}
  /\ GoUp(t)
  /\ UNCHANGED <<tools, toolEvents, called>>

Ran(t) ==
  [toolCall[t] EXCEPT !.at = "record", !.deepest = toolCall[t].level, !.names = {}]

RunLookup(t) ==
  /\ At(toolCall, t, "enter") /\ Runnable(t) /\ ToolAt(t) \in Lookups
  /\ toolCall' = [toolCall EXCEPT ![t] = Ran(t)]
  /\ UNCHANGED <<tools, toolEvents, called>>

\* Mutant: the event is added before the lister runs.
StartListRecorded(t) ==
  /\ At(toolCall, t, "enter") /\ Runnable(t) /\ ToolAt(t) = ListTools
  /\ toolCall' = [toolCall EXCEPT ![t].at = "list", ![t].names = DOMAIN tools]
  /\ toolEvents' = Append(toolEvents, <<toolCall[t].call, toolCall[t].level>>)
  /\ UNCHANGED <<tools, called>>

StartList(t) ==
  /\ At(toolCall, t, "enter") /\ Runnable(t) /\ ToolAt(t) = ListTools
  /\ toolCall' = [toolCall EXCEPT ![t].at = "list", ![t].names = DOMAIN tools]
  /\ UNCHANGED <<tools, toolEvents, called>>

EndList(t) ==
  /\ At(toolCall, t, "list") /\ toolCall[t].names = DOMAIN tools
  /\ toolCall' = [toolCall EXCEPT ![t] = Ran(t)]
  /\ UNCHANGED <<tools, toolEvents, called>>

ListRaises(t) ==
  /\ At(toolCall, t, "list") /\ toolCall[t].names # DOMAIN tools
  /\ GoUp(t)
  /\ UNCHANGED <<tools, toolEvents, called>>

RecordCall(t) ==
  /\ At(toolCall, t, "record")
  /\ toolEvents' = Append(toolEvents, <<toolCall[t].call, toolCall[t].level>>)
  /\ GoUp(t)
  /\ UNCHANGED <<tools, called>>

\* The embedding program closes the bridge once it serves no request.
CloseTools ==
  /\ toolCall = AllIdle
  /\ tools' = << >> /\ toolEvents' = << >>
  /\ UNCHANGED <<toolCall, called>>

ToolInit == tools = << >> /\ toolCall = AllIdle /\ toolEvents = << >> /\ called = 0

ToolNext ==
  \/ InitTools \/ CloseTools
  \/ \E t \in Threads :
       \/ \E n \in BuiltIns \cup CustomTools : RegisterTool(t, n)
       \/ \E chain \in Chains : StartCall(t, chain)
       \/ Descend(t) \/ RefuseTool(t) \/ HandlerRaises(t) \/ RunLookup(t)
       \/ StartList(t) \/ EndList(t) \/ ListRaises(t) \/ RecordCall(t)

ToolSpec == ToolInit /\ [][ToolNext]_toolVars

---------------------------------------------------------------------------
ToolTypeOK ==
  /\ DOMAIN tools \subseteq BuiltIns \cup CustomTools
  /\ \A n \in CustomTools \cap DOMAIN tools : ~tools[n]
  /\ toolEvents \in Seq((1 .. called) \X Nat)

\* Where the history tells of call c, and of which level.
RecordedOf(c) == {i \in DOMAIN toolEvents : toolEvents[i][1] = c}
LevelOf(i) == toolEvents[i][2]

\* The levels that have run and that the request has come back from.
LevelsBack(call) == IF call.at = "record" THEN call.level + 1 .. call.deepest ELSE {}

\* The history tells of a call the levels that have run, the innermost first
\* and each once, and nothing of a level that raised or was refused: what a
\* request under way has recorded is what lies between the innermost level
\* that ran and the level it has come back to (mcp_bridge.py, _call_tool).
HistoryFollowsCalls ==
  \A t \in Threads : toolCall[t] # Idle =>
    LET mine == RecordedOf(toolCall[t].call)
    IN  /\ {LevelOf(i) : i \in mine} = LevelsBack(toolCall[t])
        /\ \A i, j \in mine : i < j => LevelOf(i) > LevelOf(j)

==========================================================================
