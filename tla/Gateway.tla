------------------------------ MODULE Gateway ------------------------------
(***************************************************************************)
(* What stands between an agent's request and its model: custom_auth       *)
(* (openfga_authz.py) asks OpenFGA two questions one after the other, then *)
(* the hook of opa_middleware.py has OPA judge an input that it builds     *)
(* from the request. A request without the name of an agent passes both.   *)
(* LiteLLM sends an approved request to the model that it names and, when  *)
(* that one fails, to the fallbacks that config.yaml lists for it, without *)
(* asking either again.                                                    *)
(* Administrators write and delete tuples meanwhile; OpenFGA takes, and    *)
(* answers about, only relations that its schema (openfga/model.fga)       *)
(* defines for the type of the object. Either service may be down, which   *)
(* denies. OpenFGA, OPA and LiteLLM, which calls the hooks in this order,  *)
(* are modelled from how the code uses them.                               *)
(***************************************************************************)
EXTENDS Naturals, FiniteSets, Sequences, Dicts

CONSTANTS RequestIds, GateAgents, GateTenants,
          ModelFacts,    \* the location, provider and region of each model in MODEL_METADATA
          OtherModels,   \* models of config.yaml that are not in that table
          AmericanModels, \* models that config.yaml sends to a cloud in the United States
          Fallbacks,     \* Fallbacks[m]: the models to try when m fails, in their order
          LargeModels,   \* models that take a prompt of any length
          ExceptionModel, ExceptionAgent,
          TupleBound     \* bound on the tuples written and deleted

Models == DOMAIN ModelFacts \cup OtherModels

ASSUME FallbacksAssumption == \A m \in DOMAIN Fallbacks : Fallbacks[m] \in Seq(Models)

VARIABLES configured,  \* whether OPENFGA_STORE_ID is set
          tuples,      \* what OpenFGA has stored
          requests,    \* requests[r]: what r asks for and how far it is
          writes       \* tuples written and deleted so far

gateVars == <<configured, tuples, requests, writes>>

Obj(type, id) == [type |-> type, id |-> id]
Tuple(user, relation, object) == [user |-> user, relation |-> relation, object |-> object]

---------------------------------------------------------------------------
(* OpenFGA: which users a relation of an object type takes directly, and   *)
(* the relation that is computed from another.                             *)

Takes == [agent_identity |-> [belongs_to |-> {"tenant"}, can_call_model |-> {"model"}],
          model |-> [can_use |-> {"user", "agent"}]]

Writable(t) ==
  /\ t.relation \in DOMAIN Takes[t.object.type]
  /\ t.user.type \in Takes[t.object.type][t.relation]

Stored(relation) == IF relation = "can_use_model" THEN "can_call_model" ELSE relation

\* A relation that the schema does not define for the type is an error.
Allows(t) ==
  LET asked == [t EXCEPT !.relation = Stored(@)] IN
  asked.relation \in DOMAIN Takes[t.object.type] /\ asked \in tuples

\* The tuples the code asks about, and what the deployment stores for a grant.
MayUse(a, m) == Tuple(Obj("agent_identity", a), "can_use_model", Obj("model", m))
BelongsTo(a, n) == Tuple(Obj("tenant", n), "belongs_to", Obj("agent_identity", a))
Granted(a, m) == Tuple(Obj("model", m), "can_call_model", Obj("agent_identity", a))

---------------------------------------------------------------------------
(* OPA: the policy (opa/policy.rego) over the input of the hook. *)

Fact(m, field) == IF m \in DOMAIN ModelFacts THEN ModelFacts[m][field] ELSE "unknown"
Cloud(m) == Fact(m, "location") = "cloud"

\* The hook has no context of the agent and passes the defaults: active, far
\* from its budget and rate, without an end.
PolicyInput(meta, m, large) ==
  [name |-> meta.name, type |-> meta.type, status |-> "active", expired |-> FALSE,
   overBudget |-> FALSE, overRate |-> FALSE, model |-> m, large |-> large, pii |-> meta.pii,
   localHealthy |-> TRUE]

CloudException(in) ==
  \/ in.model = ExceptionModel /\ in.name = ExceptionAgent
  \/ Cloud(in.model) /\ ~in.localHealthy

\* Mutant: the rule on Vertex is left out, the provider is not in the list.
DeniesUnlessVertex(in) ==
  \/ in.status # "active" \/ in.overBudget \/ in.overRate
  \/ in.expired /\ in.type \in {"ephemeral", "mcp_tool"}
  \/ Cloud(in.model) /\ in.localHealthy /\ ~CloudException(in)
  \/ in.pii /\ Cloud(in.model) /\ Fact(in.model, "provider") \in {"groq", "openai", "anthropic"}
  \/ in.large /\ in.model \notin LargeModels
  \/ in.type = "ephemeral" /\ Cloud(in.model)

Denies(in) ==
  \/ in.status # "active" \/ in.overBudget \/ in.overRate
  \/ in.expired /\ in.type \in {"ephemeral", "mcp_tool"}
  \/ Cloud(in.model) /\ in.localHealthy /\ ~CloudException(in)
  \/ in.pii /\ Cloud(in.model) /\ Fact(in.model, "provider") \in {"groq", "openai", "anthropic"}
  \/ in.pii /\ Fact(in.model, "provider") = "vertex" /\ Fact(in.model, "region") = "us-central1"
  \/ in.large /\ in.model \notin LargeModels
  \/ in.type = "ephemeral" /\ Cloud(in.model)

---------------------------------------------------------------------------
AtGate(r, place) == r \in DOMAIN requests /\ requests[r].at = place
Goes(r, place) == requests' = [requests EXCEPT ![r].at = place]

\* The hook looks for the metadata of the policy in another place than for the
\* agent's name: a request may carry the one and not the other, or two names.
NoMeta == [name |-> "unknown", type |-> "workflow", pii |-> FALSE]
Metas == [name : GateAgents \cup {"unknown"}, type : {"workflow", "ephemeral"}, pii : BOOLEAN]

Arrive(r, a, n, m, meta, large) ==
  /\ r \notin DOMAIN requests
  /\ requests' = Put(requests, r,
       [at |-> "model", agent |-> a, tenant |-> n, model |-> m, meta |-> meta,
        large |-> large, sent |-> << >>, down |-> FALSE, granted |-> Granted(a, m) \in tuples])
  /\ UNCHANGED <<configured, tuples, writes>>

ArriveWithoutAgent(r, m) ==
  /\ r \notin DOMAIN requests
  /\ requests' = Put(requests, r,
       [at |-> "approved", agent |-> "none", tenant |-> "none", model |-> m,
        meta |-> NoMeta, large |-> FALSE, sent |-> << >>, down |-> FALSE, granted |-> FALSE])
  /\ UNCHANGED <<configured, tuples, writes>>

AfterModel(r) == IF requests[r].tenant = "none" THEN "policy" ELSE "tenant"

CheckModel(r) ==
  /\ AtGate(r, "model")
  /\ IF ~configured \/ Allows(MayUse(requests[r].agent, requests[r].model))
     THEN Goes(r, AfterModel(r)) ELSE Goes(r, "denied")
  /\ UNCHANGED <<configured, tuples, writes>>

CheckTenant(r) ==
  /\ AtGate(r, "tenant")
  /\ IF ~configured \/ Allows(BelongsTo(requests[r].agent, requests[r].tenant))
     THEN Goes(r, "policy") ELSE Goes(r, "denied")
  /\ UNCHANGED <<configured, tuples, writes>>

\* What cannot be asked is denied.
ServiceDown(r) ==
  /\ r \in DOMAIN requests
  /\ requests[r].at = "policy" \/ (configured /\ requests[r].at \in {"model", "tenant"})
  /\ requests' = [requests EXCEPT ![r].at = "denied", ![r].down = TRUE]
  /\ UNCHANGED <<configured, tuples, writes>>

AskPolicy(r) ==
  /\ AtGate(r, "policy")
  /\ IF Denies(PolicyInput(requests[r].meta, requests[r].model, requests[r].large))
     THEN Goes(r, "denied") ELSE Goes(r, "approved")
  /\ UNCHANGED <<configured, tuples, writes>>

\* The models that an approved request for m is sent to until one of them answers.
Route(m) == <<m>> \o (IF m \in DOMAIN Fallbacks THEN Fallbacks[m] ELSE << >>)

Send(r) ==
  /\ AtGate(r, "approved")
  /\ LET route == Route(requests[r].model)
         next == Len(requests[r].sent) + 1
     IN  \E at \in {"served", IF next < Len(route) THEN "approved" ELSE "failed"} :
           requests' = [requests EXCEPT ![r].at = at, ![r].sent = Append(@, route[next])]
  /\ UNCHANGED <<configured, tuples, writes>>

\* grant and revoke of any tuple, and of an agent's models in the shape that
\* custom_auth asks for; what OpenFGA does not take is answered with an error.
Candidates ==
  {MayUse(a, m) : a \in GateAgents, m \in Models}
    \cup {Granted(a, m) : a \in GateAgents, m \in Models}
    \cup {BelongsTo(a, n) : a \in GateAgents, n \in GateTenants}

GrantTuple(t) ==
  /\ configured /\ writes < TupleBound
  /\ Writable(t) /\ t \notin tuples
  /\ tuples' = tuples \cup {t} /\ writes' = writes + 1
  /\ UNCHANGED <<configured, requests>>

\* A request under way no longer holds the grant it came with.
RevokeTuple(t) ==
  /\ configured /\ writes < TupleBound /\ t \in tuples
  /\ tuples' = tuples \ {t} /\ writes' = writes + 1
  /\ requests' = [r \in DOMAIN requests |->
       IF Granted(requests[r].agent, requests[r].model) = t
       THEN [requests[r] EXCEPT !.granted = FALSE] ELSE requests[r]]
  /\ UNCHANGED configured

GateInit ==
  /\ configured \in BOOLEAN
  /\ tuples = {} /\ requests = << >> /\ writes = 0

GateNext ==
  \/ \E r \in RequestIds :
       \/ \E a \in GateAgents, n \in GateTenants \cup {"none"}, m \in Models, large \in BOOLEAN :
            \E meta \in Metas : Arrive(r, a, n, m, meta, large)
       \/ \E m \in Models : ArriveWithoutAgent(r, m)
       \/ CheckModel(r) \/ CheckTenant(r) \/ ServiceDown(r) \/ AskPolicy(r) \/ Send(r)
  \/ \E t \in Candidates : GrantTuple(t) \/ RevokeTuple(t)

GateSpec == GateInit /\ [][GateNext]_gateVars

---------------------------------------------------------------------------
GateTypeOK ==
  /\ configured \in BOOLEAN
  /\ \A t \in tuples : Writable(t)
  /\ DOMAIN requests \subseteq RequestIds
  /\ \A r \in DOMAIN requests :
       requests[r].at \in {"model", "tenant", "policy", "approved", "served", "failed", "denied"}

\* Of the models that the table places in a cloud only the one of the exception
\* is ever sent an agent's request that names it, only under the name of the one
\* agent and without what the hook sees flagged as personal data: the rules of the
\* policy work together with the defaults that the hook fills in. It says nothing
\* of models that are not in the table, nor of those that the router falls back
\* to, nor of the name, which need not be that of the agent that was checked
\* (opa_middleware.py, opa/policy.rego).
CloudNeedsException ==
  \A r \in DOMAIN requests : requests[r].agent # "none" /\ requests[r].sent # << >> =>
    /\ Head(requests[r].sent) = requests[r].model
    /\ Cloud(requests[r].model) =>
         /\ ~requests[r].meta.pii
         /\ requests[r].model = ExceptionModel /\ requests[r].meta.name = ExceptionAgent

\* What legal/dpa.md says: the policy enforces that requests flagged as containing
\* personal data are never routed to a provider in the United States. The table
\* does not know most of the cloud models of config.yaml, and what is approved for
\* a local model may fall back to a cloud.
FlaggedStaysOut ==
  \A r \in DOMAIN requests : requests[r].agent # "none" /\ requests[r].meta.pii =>
    \A i \in DOMAIN requests[r].sent : requests[r].sent[i] \notin AmericanModels

==========================================================================
