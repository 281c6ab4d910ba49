--------------------------- MODULE AgentIdentity ---------------------------
(***************************************************************************)
(* The agent identity service (agent_identity.py): agents and the LiteLLM  *)
(* virtual keys they call the gateway with.                                *)
(*                                                                         *)
(* Two stores that know nothing of each other are kept in step by the      *)
(* handlers alone: the agent records in SurrealDB and the keys in LiteLLM. *)
(* The handlers are coroutines, run by several workers; each HTTP call is  *)
(* a point where any other handler may run, and may fail.  Each action     *)
(* below is one HTTP call of one request, with the code up to the next.    *)
(*                                                                         *)
(* A call has one of three outcomes: "ok"; "refused", an error that had no *)
(* effect; "lost", an error of which the effect took place (the answer got *)
(* lost, or came after the 10 s timeout).                                  *)
(*                                                                         *)
(* A request mints at most one key, so a key is named by the request that  *)
(* minted it.  LiteLLM and SurrealDB are external.  SURREAL_URL is set.    *)
(***************************************************************************)
EXTENDS Integers, FiniteSets

CONSTANTS
    Ops,             \* HTTP requests to /agents/*
    Agents,          \* agent ids; each is created by at most one request
    NoAgent,         \* the agent of a request that has not arrived
    Aliases,
    Alias,           \* agent:<name>:<tenant>, the key alias of each agent
    Ephemeral,       \* agents created with an expiry (ephemeral, mcp_tool, ttl_hours)
    RecordComplete,  \* does a stored record satisfy the response model?  _store_agent
                     \* leaves owner_ids out; a table default may add it
    SerialPerAgent,  \* do clients send one request at a time for an agent?  The
                     \* service does not see to it
    MaxFailures      \* bound: HTTP calls that fail

ASSUME IdentityAssumption ==
    /\ IsFiniteSet(Ops)
    /\ NoAgent \notin Agents
    /\ Alias \in [Agents -> Aliases]
    /\ Ephemeral \subseteq Agents
    /\ RecordComplete \in BOOLEAN /\ SerialPerAgent \in BOOLEAN
    /\ MaxFailures \in Nat

VARIABLES
    status,    \* the status in each agent's record, "none" without a record
    keys,      \* the keys LiteLLM accepts
    pc,        \* the call each request makes next
    handler,   \* the endpoint it called
    agent,     \* the agent_id it is about
    targets,   \* keys it has still to delete
    answer,    \* the HTTP answer
    failures   \* number of calls that failed so far

vars == <<status, keys, pc, handler, agent, targets, answer, failures>>

Handlers == {"create", "suspend", "reactivate", "rotate", "revoke"}

Active == {o \in Ops : pc[o] \notin {"idle", "done"}}
ActiveOn(a) == {o \in Active : agent[o] = a}

\* Mutant: the alias of the keys is not compared.
ListedAll(a) == keys

\* Keys LiteLLM lists under the alias of agent a.
Listed(a) == {k \in keys : Alias[agent[k]] = Alias[a]}

\* The key was minted with a duration: only create passes one on.
Expiring(k) == handler[k] = "create" /\ agent[k] \in Ephemeral

Goto(o, label) == pc' = [pc EXCEPT ![o] = label]

Reply(o, code) ==
    /\ Goto(o, "done")
    /\ answer' = [answer EXCEPT ![o] = code]

Continue(o, label) == Goto(o, label) /\ UNCHANGED answer

\* One more call has failed.
Failure ==
    /\ failures < MaxFailures
    /\ failures' = failures + 1

(***************************************************************************)
(* Requests arrive.  create wants a Bearer header; the others read it only *)
(* to ignore it.                                                           *)
(***************************************************************************)
Arrive(o, h, a) ==
    /\ pc[o] = "idle"
    /\ SerialPerAgent => ActiveOn(a) = {}
    /\ handler' = [handler EXCEPT ![o] = h]
    /\ agent' = [agent EXCEPT ![o] = a]
    /\ UNCHANGED <<status, keys, targets, failures>>

Unauthorized(o) ==
    /\ Arrive(o, "create", NoAgent)
    /\ Reply(o, "401")

\* create draws a new agent_id (uuid4); the others may name any.
Start(o, h, a) ==
    /\ Arrive(o, h, a)
    /\ h = "create" => \A q \in Ops : ~(handler[q] = "create" /\ agent[q] = a)
    /\ Continue(o, IF h = "create" THEN "mint" ELSE "fetch")

(***************************************************************************)
(* _get_agent, and the checks on the record it returns.                    *)
(***************************************************************************)
\* Mutant: reactivate refuses active agents only.
AcceptsRevoked(h) ==
    CASE h \in {"suspend", "rotate"} -> {"active"}
      [] h = "reactivate"            -> {"suspended", "revoked"}
      [] h = "revoke"                -> {"active", "suspended"}

\* The statuses a handler accepts.
Accepts(h) ==
    CASE h \in {"suspend", "rotate"} -> {"active"}
      [] h = "reactivate"            -> {"suspended"}
      [] h = "revoke"                -> {"active", "suspended"}

\* Mutant: suspend only marks the record.
AfterFetchMark(h) ==
    CASE h = "suspend" -> "mark"
      [] h = "revoke"  -> "list"
      [] OTHER         -> "mint"

\* Mutant: reactivate leaves the agent without a key.
AfterFetchKeyless(h) == IF h = "rotate" THEN "mint" ELSE IF h = "reactivate" THEN "mark" ELSE "list"

AfterFetch(h) == IF h \in {"suspend", "revoke"} THEN "list" ELSE "mint"

Fetch(o) ==
    /\ pc[o] = "fetch"
    /\ LET found == status[agent[o]]
       IN  \/ found = "none" /\ Reply(o, "404")
           \/ found \notin Accepts(handler[o]) \cup {"none"} /\ Reply(o, "409")
           \/ found \in Accepts(handler[o]) /\ Continue(o, AfterFetch(handler[o]))
    /\ UNCHANGED <<status, keys, handler, agent, targets, failures>>

FetchFails(o) ==
    /\ pc[o] = "fetch"
    /\ Failure
    /\ Reply(o, "500")
    /\ UNCHANGED <<status, keys, handler, agent, targets>>

(***************************************************************************)
(* _create_litellm_key                                                     *)
(***************************************************************************)
AfterMint(h) ==
    CASE h = "create"     -> "store"
      [] h = "reactivate" -> "mark"
      [] h = "rotate"     -> "list"

Mint(o) ==
    /\ pc[o] = "mint"
    /\ keys' = keys \cup {o}
    /\ Continue(o, AfterMint(handler[o]))
    /\ UNCHANGED <<status, handler, agent, targets, failures>>

MintFails(o) ==
    /\ pc[o] = "mint"
    /\ Failure
    /\ keys' \in {keys, keys \cup {o}}
    /\ Reply(o, IF handler[o] = "create" THEN "502" ELSE "500")
    /\ UNCHANGED <<status, handler, agent, targets>>

(***************************************************************************)
(* _store_agent: the end of create.                                        *)
(***************************************************************************)
Store(o) ==
    /\ pc[o] = "store"
    /\ status' = [status EXCEPT ![agent[o]] = "active"]
    /\ Reply(o, "200")
    /\ UNCHANGED <<keys, handler, agent, targets, failures>>

StoreFails(o) ==
    /\ pc[o] = "store"
    /\ Failure
    /\ status' \in {status, [status EXCEPT ![agent[o]] = "active"]}
    /\ Reply(o, "500")
    /\ UNCHANGED <<keys, handler, agent, targets>>

(***************************************************************************)
(* /key/list and the deletions.  suspend and revoke stop at the first key  *)
(* of the alias, in an order LiteLLM chooses; rotate deletes every one but *)
(* its own.  A list answered with another status than 200 is skipped.      *)
(***************************************************************************)
\* Mutant: rotate deletes every key of the alias.
SelectAll(o) ==
    IF handler[o] = "rotate" THEN {Listed(agent[o])}
    ELSE IF Listed(agent[o]) = {} THEN {{}}
    ELSE {{k} : k \in Listed(agent[o])}

\* The set of keys the loop may pick to delete.
Selections(o) ==
    IF handler[o] = "rotate" THEN {Listed(agent[o]) \ {o}}
    ELSE IF Listed(agent[o]) = {} THEN {{}}
    ELSE {{k} : k \in Listed(agent[o])}

\* Mutant: the answer of rotate is built without the new key and fails.
AfterDeletesUnbuilt(o, rest) ==
    IF rest # {} THEN Continue(o, "delete")
    ELSE IF handler[o] # "rotate" THEN Continue(o, "mark")
    ELSE Reply(o, "500")

\* What follows when the keys of rest remain to be deleted.  The answer of
\* rotate is built from the stored record, which lacks owner_ids.
AfterDeletes(o, rest) ==
    IF rest # {} THEN Continue(o, "delete")
    ELSE IF handler[o] # "rotate" THEN Continue(o, "mark")
    ELSE Reply(o, IF RecordComplete THEN "200" ELSE "500")

List(o) ==
    /\ pc[o] = "list"
    /\ \E picked \in Selections(o) :
          /\ targets' = [targets EXCEPT ![o] = picked]
          /\ AfterDeletes(o, picked)
    /\ UNCHANGED <<status, keys, handler, agent, failures>>

ListRefused(o) ==
    /\ pc[o] = "list"
    /\ Failure
    /\ AfterDeletes(o, {})
    /\ UNCHANGED <<status, keys, handler, agent, targets>>

ListFails(o) ==
    /\ pc[o] = "list"
    /\ Failure
    /\ Reply(o, "500")
    /\ UNCHANGED <<status, keys, handler, agent, targets>>

Delete(o, k) ==
    /\ pc[o] = "delete"
    /\ k \in targets[o]
    /\ keys' = keys \ {k}
    /\ targets' = [targets EXCEPT ![o] = @ \ {k}]
    /\ AfterDeletes(o, targets[o] \ {k})
    /\ UNCHANGED <<status, handler, agent, failures>>

\* _delete_litellm_key returns False, and nobody looks at what it returns.
DeleteRefused(o, k) ==
    /\ pc[o] = "delete"
    /\ k \in targets[o]
    /\ Failure
    /\ targets' = [targets EXCEPT ![o] = @ \ {k}]
    /\ AfterDeletes(o, targets[o] \ {k})
    /\ UNCHANGED <<status, keys, handler, agent>>

DeleteFails(o, k) ==
    /\ pc[o] = "delete"
    /\ k \in targets[o]
    /\ Failure
    /\ keys' \in {keys, keys \ {k}}
    /\ Reply(o, "500")
    /\ UNCHANGED <<status, handler, agent, targets>>

(***************************************************************************)
(* _update_agent_status: unconditional, whatever the record holds by now.  *)
(***************************************************************************)
NewStatus(h) ==
    CASE h = "suspend"    -> "suspended"
      [] h = "reactivate" -> "active"
      [] h = "revoke"     -> "revoked"

Mark(o) ==
    /\ pc[o] = "mark"
    /\ status' = [status EXCEPT ![agent[o]] = NewStatus(handler[o])]
    /\ Reply(o, IF handler[o] = "reactivate" /\ ~RecordComplete THEN "500" ELSE "200")
    /\ UNCHANGED <<keys, handler, agent, targets, failures>>

MarkFails(o) ==
    /\ pc[o] = "mark"
    /\ Failure
    /\ status' \in {status, [status EXCEPT ![agent[o]] = NewStatus(handler[o])]}
    /\ Reply(o, "500")
    /\ UNCHANGED <<keys, handler, agent, targets>>

\* SurrealDB answers 200 to a statement that failed; only the HTTP status of
\* _store_agent and _update_agent_status is looked at.
StatementFails(o) ==
    /\ pc[o] \in {"store", "mark"}
    /\ Failure
    /\ Reply(o, IF handler[o] = "reactivate" /\ ~RecordComplete THEN "500" ELSE "200")
    /\ UNCHANGED <<status, keys, handler, agent, targets>>

\* LiteLLM lets a key with a duration expire.
Expire(k) ==
    /\ k \in keys
    /\ Expiring(k)
    /\ keys' = keys \ {k}
    /\ UNCHANGED <<status, pc, handler, agent, targets, answer, failures>>

-----------------------------------------------------------------------------
Init ==
    /\ status = [a \in Agents |-> "none"]
    /\ keys = {}
    /\ pc = [o \in Ops |-> "idle"]
    /\ handler = [o \in Ops |-> "none"]
    /\ agent = [o \in Ops |-> NoAgent]
    /\ targets = [o \in Ops |-> {}]
    /\ answer = [o \in Ops |-> "none"]
    /\ failures = 0

Arrivals(o) ==
    Unauthorized(o) \/ \E a \in Agents, h \in Handlers : Start(o, h, a)

Calls(o) ==
    \/ Fetch(o) \/ FetchFails(o)
    \/ Mint(o) \/ MintFails(o)
    \/ Store(o) \/ StoreFails(o)
    \/ List(o) \/ ListRefused(o) \/ ListFails(o)
    \/ \E k \in Ops : Delete(o, k) \/ DeleteRefused(o, k) \/ DeleteFails(o, k)
    \/ Mark(o) \/ MarkFails(o) \/ StatementFails(o)

Next == \E o \in Ops : Arrivals(o) \/ Calls(o) \/ Expire(o)

Spec == Init /\ [][Next]_vars

(***************************************************************************)
(* The lives of the agents: an agent is leaving from the moment a suspend  *)
(* or revoke of it was accepted until that request ends.                   *)
(***************************************************************************)
KeysOf(a) == {k \in keys : agent[k] = a}

Dismissing == {o \in Active : handler[o] \in {"suspend", "revoke"} /\ pc[o] # "fetch"}
Leaving == {agent[o] : o \in Dismissing}

Held == [a \in Agents |-> KeysOf(a)]
Mortal == {k \in keys : Expiring(k)}

Lifecycle == INSTANCE AgentLifecycle WITH
    Keys <- Ops,
    life <- status,
    held <- Held,
    mortal <- Mortal,
    leaving <- Leaving,
    faultless <- (failures = 0)

(***************************************************************************)
(* Properties                                                              *)
(***************************************************************************)
\* Every variable has its type.
TypeOK ==
    /\ status \in [Agents -> {"none", "active", "suspended", "revoked"}]
    /\ keys \in SUBSET Ops
    /\ pc \in [Ops -> {"idle", "fetch", "mint", "store", "list", "delete", "mark", "done"}]
    /\ handler \in [Ops -> Handlers \cup {"none"}]
    /\ agent \in [Ops -> Agents \cup {NoAgent}]
    /\ targets \in [Ops -> SUBSET Ops]
    /\ answer \in [Ops -> {"none", "200", "401", "404", "409", "500", "502"}]
    /\ failures \in Nat

Quiet(a) == ActiveOn(a) = {}

\* The two stores agree: as long as no call has failed, an agent no request is
\* busy with has exactly one key if it is active (an ephemeral one may have lost
\* it by expiry) and none at all if it is suspended, revoked or was never made.
KeyIffActive ==
    \A a \in Agents :
        Quiet(a) /\ failures = 0 =>
            /\ status[a] # "active" => KeysOf(a) = {}
            /\ Cardinality(KeysOf(a)) <= 1
            /\ status[a] = "active" /\ a \notin Ephemeral => KeysOf(a) # {}

\* references/agent-identity-spec.md:101, "New key returned to sponsor": while no call
\* fails, the key that stays in force was handed to the client in a successful answer
\* to the request that minted it, whatever other requests did since.  It takes a stored
\* record that satisfies the response model (RecordComplete); with the record that
\* _store_agent writes a rotation always answers 500 and its key is lost.
KeyWasDelivered ==
    \A a \in Agents :
        Quiet(a) /\ failures = 0 => \A k \in KeysOf(a) : answer[k] = "200"

\* Rotation has no downtime (agent_identity.py:437), also when calls fail: an
\* agent loses its last key only to suspend, to revoke, or to expiry.
ZeroDowntime ==
    [][\A a \in Agents :
         KeysOf(a) # {} /\ KeysOf(a)' = {} =>
            \/ \A o \in ActiveOn(a) : handler[o] \in {"suspend", "revoke"}
            \/ \A k \in KeysOf(a) : Expiring(k)]_vars

\* agent_identity.py:437, "zero downtime": an active agent that has only been
\* rotated since it was made has a key when no request is busy with it.
RotatedHasAKey ==
    \A a \in Agents :
        /\ Quiet(a) /\ failures = 0 /\ status[a] = "active" /\ a \notin Ephemeral
        /\ \A o \in Ops : agent[o] = a => handler[o] \in {"create", "rotate"}
        => KeysOf(a) # {}

\* Revocation cannot be undone (agent_identity.py:480).
RevokedIsFinal ==
    [][\A a \in Agents : status[a] = "revoked" => status'[a] = "revoked"]_vars

\* The key of an agent is deleted only by requests about that agent, however
\* requests about others interleave with them.
NoForeignDelete ==
    [][\A k \in keys \ keys' :
         Expiring(k) \/ \E o \in ActiveOn(agent[k]) : pc[o] = "delete" /\ k \in targets[o]]_vars

\* Whatever requests about several agents interleave and whichever call fails,
\* each agent lives as references/agent-identity-spec.md:79 draws it: no key for a
\* revoked one, none lost but by leaving, replacement or expiry, and the record
\* changes only after the keys have, unless a call failed.
ImplementsAgentLifecycle == Lifecycle!Spec
=============================================================================
