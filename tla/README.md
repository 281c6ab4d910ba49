# AGenNext Runner in TLA+

A model of the parts of this repository that keep state and share it: what they
promise, which interleavings, failures and restarts they survive, and which they do
not. The modules are checked with TLC on small instances; their safety
properties, and that the runtime core and the identity service implement their abstract
specifications, are also proved with TLAPS for every instance.

Paths without a directory are relative to the root of the repository.

## 1. Inventory

### The system

Agents call language models through a gateway (LiteLLM) that asks an authorization
hook and a policy hook, bills usage to Lago and traces to Langfuse. Around it, small
Python services keep tenants, agents and their keys in step, and the Runner hands
agent executions to an external Kernel.

```
 clients ──► Runner ──envelope──► Kernel (external)
 clients ──► runtime-core
 clients ──► runtime bridges (agentgpt, autogpt, mcp, ...)
 clients ──► scrapers ──► SurrealDB (chunks)
 sponsors ─► agent identity ──► SurrealDB (records)
                    └─────────► LiteLLM (virtual keys) ◄─── agent bootstrap
 admins ───► Keycloak (groups) ◄── tenant sync ──► Lago, LiteLLM, Langfuse
 agents ───► LiteLLM ──► OpenFGA hook, OPA hook, Lago billing callback
```

| component | state | operations | what is hard | correct when |
|---|---|---|---|---|
| Runner (`runner_api.py`, `runner/core.py`, `runner/adapters/`) | rate-limit buckets in memory; HTTP calls in flight | `run`, `run/stream`, `frameworks/{f}/run` | late, lost and refused Kernel calls; restarts; the window's boundary; the order of gates | limit exact, refusals final, answers true, only vetted requests reach the Kernel |
| runtime-core (`runtime_core/main.py`) | four dicts: sessions, events, cached results, their timestamps | `init`, `invoke`, `stream`, `close`, cleanup, shutdown | pool threads share the dicts without a lock | dicts agree, closed is closed, the log is true, invokes with one key run once |
| agent identity (`agent_identity.py`) | none of its own: records in SurrealDB, keys in LiteLLM | `create`, `suspend`, `reactivate`, `rotate`, `revoke`; `list`, `get`, `activity` read | several HTTP calls per request, any of which fails or interleaves | an agent has a key iff it is active; revocation is final; rotation has no gap; keys of other agents are left alone |
| tenant sync (`kc_lago_sync.py`) | `known_groups` in memory, a mark on each Keycloak group | poll, provision (six calls), deprovision (three calls) | failures and restarts between calls; groups that come and go meanwhile | marks are true, live tenants keep access, it catches up |
| agent bootstrap (`agent_bootstrap.py`) | none | list keys, mint the missing ones; run once by hand | a second writer of the identity service's keys | one key per alias |
| authorization hook (`openfga_authz.py`, `openfga/model.fga`) | tuples in OpenFGA | `custom_auth`, grant, revoke, provision | two questions one after the other over tuples that change; the schema's direction; OpenFGA down | who has the grant is served, nobody else |
| policy hook (`opa_middleware.py`, `opa/policy.rego`) | none | pre-call hook, evaluate | the input is built from defaults: which rules can apply at all, and to which models; what is tried after the approval | a cloud that the hook knows is asked for by the policy's one exception only |
| billing callback (`lago_callback.py`) | none | three posts per completed request | ids by the second, posts refused or lost half-way | every call is billed, once |
| scraping server (`playwright/scraper_server.py`) | jobs in memory, records in SurrealDB | start, status, crawl, store in batches | background tasks, statements refused under a 200, lost answers, restarts | a job ends and tells the truth; crawls are breadth first |
| scraping sidecar (`playwright_scraper/scraper.py`) | jobs in memory, collections in SurrealDB | start, status, search, list, delete a collection | jobs that share a collection somebody deletes; chunks that share an id | a job that is ready can be searched |
| runtime bridges (`integrations/runtime-bridges/python/`) | dicts of agents, executions, forms, teams, crews, schemas, tools | `invoke` and, in some, methods for the embedding program | pool threads on shared dicts without a lock | what a client was told is so and stays so |
| harness, CLI (`runner/harness/`, `agentnext_cli.py`) | none between runs | authorize, run a scenario | precedence of rules | deny wins |
| LangGraph loader and tool guard (`runner/frameworks/langgraph/`) | none; the guard is only a TODO | load a graph | | |
| recommender | a constant table of twelve models | score and sort | | |
| feedback, discovery, classifier, translator | none | pure or read-only | | |
| compose files, scripts, flows, docs | none | deployment | | |

The hazards of this code, each at its line with the properties aimed at it, are listed in
`PROJECT.json` under `hazards`; `map` there gives the lines behind every definition.

### How components interact

Agent identity, agent bootstrap and tenant sync write the same LiteLLM key table and find
keys by alias (`agent:<name>:<tenant>` and the group's name). The gateway calls
`custom_auth`, then the policy hook, and after the answer the billing callback; the hooks read
the metadata and the tuples that administrators write. The Runner, runtime-core, each bridge and each
scraping service share nothing in memory with the rest; they are modelled alone, and `Bridges` and
`Workloads` only put them side by side.

## 2. Plan

| order | module | composes | status |
|---|---|---|---|
| 1 | `Runner` | with the external Kernel and network | written, checked, proved |
| 2 | `RuntimeCore`, abstract `SessionLog` | RuntimeCore implements SessionLog | written, checked, safety and refinement proved |
| 3 | `AgentIdentity`, abstract `AgentLifecycle` | handlers over SurrealDB and LiteLLM; AgentIdentity implements AgentLifecycle | written, checked, safety and refinement proved |
| 4 | `TenantSync` | one process over Keycloak, Lago, LiteLLM, Langfuse; part of `Workloads`, alone for its violation | written, checked, safety proved |
| 5 | `Executions`, `Forms`, `Teams`, `Crews`, `Schemas`, `Tools` over `BridgeThreads` | side by side in `Bridges` | written, checked, proved |
| 6 | `AutoTasks`, `ScrapeJobs`, `SiteIndex`, `Crawl`, `Gateway`, `Billing` | side by side in `Workloads`; `Gateway` and `Billing` also alone, for their violations | written, checked, safety proved |

`Dicts` has the one operator on Python's dicts that all of them use.

What is left: agent bootstrap as a second writer of the key table that `AgentIdentity` keeps, with the condition
under which agents still have one key each.

The modules declare their parameters as constants with named assumptions, and none uses a
`RECURSIVE` operator.

## 3. The modules

### Runner

The service is one asyncio loop, and `run_pipeline` never suspends: its awaits are on
adapter coroutines that return at once. So the whole pipeline, from configuration to the
signed envelope, is one action of a request, with one action per kind of outcome:
`MissingConfig`, `RateLimited`, `Blocked` (by one of the gates in `Gates`, asked in that
order, after a slot of the window was taken), `Forward`. The only suspension is
`kernel_post`; `ReceiveReply` and `PostFails` are its two ends, and `Verdict` what the
client is told. The Kernel executes an envelope at any time, also after the Runner gave up
on it (`KernelExecute`), or refuses it, or never sees it; its answer goes back only to a connection
the Runner still holds (`SendReply`). `Crash` loses the limiter and the
waiting coroutines, never envelopes already sent. A body is abstracted to the facts the gates
ask about. The `UnsupportedFramework` exception is a gate like the others: `run` turns it into the
same kind of answer. `payload_must_be_object` cannot happen: the request model has made it an object.

Assumed: the Kernel answers a JSON object (anything else is the `PostFails` of a JSON error, or
an exception that FastAPI turns into a 500 no property is about).

### RuntimeCore and SessionLog

Endpoints are plain `def` functions, which Starlette runs in a thread pool, so any number of
them (`Threads`) execute at once on four dicts without a lock. One dict operation is atomic
under the interpreter lock; every action is one such operation plus the local code after it.
`pc` names the next operation. An event is named by its request and a cached result by the
invoke that computed it, so that "which invoke's result is replayed" is visible. The scan of
`_cleanup_stale` is two actions: if the dict changes its size meanwhile the interpreter raises
(`ScanFails`, 500), and an entry replaced or removed and added again may or may not be met. A session id is known to
clients only once `init` has answered (`Unannounced`). `Shutdown` clears the three dicts that
`lifespan` clears, and not the timestamps; `Crash` everything, wherever threads are.

`SessionLog` is what clients see: a session is opened with its first entry in one
step, its log only grows while it is open, it is closed once and after its log says so, and a restart loses
all sessions. The refinement mapping calls a session open while both dicts hold
it. So the two-step `init` and `close` become one step and a stutter.

### AgentIdentity

Every handler is a sequence of HTTP calls; one action per call with the code up to the
next. A call succeeds, is refused without effect, or raises with its effect done or not (`...Fails` actions
choose). `status` is the record in SurrealDB, `keys` what LiteLLM accepts; a key is named by the
request that minted it. `suspend` and `revoke` delete the first key of the alias, in the
order of LiteLLM's list (a choice), `rotate` all but its own. Expiry comes only with `create`,
as in the code. `StatementFails` is SurrealDB's habit of answering 200 to a statement that failed.

Constants stand for conditions the code leaves open: `SerialPerAgent` says that clients send one
request at a time for an agent (the code does not enforce it; without it findings 2 and 4 below happen), `RecordComplete`
that a stored record satisfies the response model, as it does where the table was defined with the
default of references/agent-identity-spec.md:208 for `owner_ids`; the service's own `CREATE`
leaves the field out. `SURREAL_URL` is set. LiteLLM accepts a second key under one alias,
which `rotate` depends on. Each agent of the passing run has an alias of its own, as the unique
index of references/agent-identity-spec.md:223 demands. Nothing in the repository creates that index and `create` takes a
name that is in use: of two agents with one name, a suspend of one deletes the key of the other.

`AgentLifecycle` is the life of an agent as references/agent-identity-spec.md:79 draws it, with the keys the gateway
accepts and without requests: an agent enters, leaves by suspension, comes back with a key, leaves for good. It says when a key may be issued
(never to a revoked agent, a second one only to replace the first) and when withdrawn (from an agent that is leaving, beside another key, or by
expiry). A failed call ends the promise that record and keys fit, and no other. The
refinement mapping counts an agent as leaving while a suspend or revoke of it that was accepted is under way; the
status, the keys and those of them that expire are as they are.

### TenantSync

The sidecar is one sequential process; every action is one HTTP call with the code up to the
next, or an end of a pass. `known` is `known_groups` and dies with the process; `provisioned` is the mark in Keycloak
and survives. Administrators act at any time between calls (`CreateGroup`, `DeleteGroup`), calls fail with or without
effect, `CrashSync` restarts the process at any call. What the code logs and ignores (a refused plan, a failed
Langfuse call, a refused deletion) goes on; what raises leaves `provision_tenant`, after which the group
counts as known all the same. Groups are known by id and deprovisioned by name (`Name`): when a group is made anew under the name of a deleted one, the late deprovisioning
of the old one takes away what the new one was given. `ProvisionedIsTrue` and `LiveTenantsKeepAccess` are false then; they are checked and proved
where every name is used once.

### Gateway

A request of a named agent passes `custom_auth`, which asks OpenFGA twice (may the agent use
the model, does it belong to the tenant), then the policy hook; one action per question.
A request without an agent's name passes both unasked. Tuples are written and deleted between the
questions (`GrantTuple`, `RevokeTuple`), OpenFGA takes and answers only what its schema defines,
and a service that is down denies. The policy's input is
built as the hook builds it: the agent's name comes from `data["metadata"]`, everything else from
`litellm_params.metadata` or from defaults, so that the rules on budget, rate, status and expiry, which
opa_middleware.py:4 promises, meet no request, and the name that OPA judges need not be the one that OpenFGA was asked about.
`ModelFacts` is the hook's table; of `OtherModels`, the aliases of `config.yaml` that the table lacks, it knows nothing, so no rule
on clouds meets them. What is approved goes out by `Send`, one model of `Route` after the other: the one that was named, then the
fallbacks that `config.yaml:229-254` lists for it, which nobody judges again. With `OPENFGA_STORE_ID` set nobody is served at all: `openfga_authz.py:158`
asks with agent and model in each other's place, and `openfga/model.fga:73` gives a model no `can_use` on an agent. So what is served comes
from gateways where it is not set.

### Billing

One callback per completed request, three posts each under an id of alias, second and kind. Lago takes an
event, refuses it (the callback does not look), has it already, or the post raises, with the event taken or not,
and the rest is not posted. Any number of callbacks interleave while seconds pass. The ids are the code's and so are their
collisions: the second of two calls of a tenant in one second is not billed (finding 6), which `UnbilledHasACause` counts among the
causes of unbilled usage without calling it right.

### Crawl, ScrapeJobs, SiteIndex

`Crawl` is the walk of both services over a site: the server queues a link once and counts failed pages, the sidecar
queues while the queue is short and counts loaded ones. `QueueAfter` goes through the links of a page one by one, as each
sees the queue that the one before left. A depth of -1 is the whole site; any other negative depth is the first page alone. The site,
the excluded pages and the pages that fail are inputs. A page fails when it is loaded, later, or at a link whose address cannot be
parsed; the links before that one are queued.
`ScrapeJobs` is the server's pipeline: a job crawls, ensures its collection, makes records and stores them
batch by batch; a batch may be refused, refused in part under a 200, stored with its answer lost. `SiteIndex` is the sidecar's:
it sets up a collection with its index, embeds a page's chunks (all or none; those of a page that
failed are counted in `total_chunks` all the same) and stores them one at a time, while other jobs fill the same
collection and anybody deletes it; the table that the next chunk makes anew has no index. The
id of a chunk is a function of the page and the number that need not be injective (`RecordId`), as the code's hash of the
two written one after the other is not; what is stored under an id is replaced. Chunks that an earlier
scrape stored and this one does not have stay. `Sites` gives the pages that the crawl of a job may return. What a page's text is, and where its chunks begin, is data. Restarts forget the jobs of
both services.

### The bridges

`BridgeThreads` has what they share. An endpoint is a plain function, run in a thread of the pool, and the bridge's
dicts have no lock. An action is one operation on shared state with the local code up to the next; a request that looks
once is one action. `at` in a thread's record names the next operation.

- `Executions` (AgentGPT): a step checks the status, reads and writes the counter, records itself, compares the
  counter with the budget; pause, resume, stop and the tasks of an agent.
- `AutoTasks` (AutoGPT): `task_execute` and the loop of `task_run` on one counter; a name created again gets a new object while
  requests go on with the old one.
- `Forms` (AgentField): `form_set`, and the walks of `form_validate` and `form_submit`, which write every field
  back. An odd value makes the walk raise: line 152 asks for a member of `FieldType` that does not exist.
- `Teams` (MetaGPT): a workflow walks the members once per phase; a member added under way ends the walk; a team made
  under an id in use takes it over, while walks go on with the old one.
- `Crews` (CrewAI): a crew is put together one look-up at a time; kicking it off records it only without the framework. A task
  that is not registered is left out; an agent that is not makes the request raise, since the default agent of line 146 lacks the goal it requires.
- `Schemas` (Pydantic): schemas, their histories, and what validation, the JSON Schema and the OpenAPI schema accept. A type is a
  name in any spelling: validation looks it up in lower case and takes everything for one it does not know, the generators copy what is none of
  the six plain names. The generated Python and TypeScript are text and left out.
- `Tools` (MCP): a call is a chain of tools that call each other; listing a registry that grows raises, and so does a look-up whose
  handler fails (`HandlerRaises`).

`POST /invoke` of AgentField and CrewAI drops the request's `type` (`model_dump(exclude={"type"})`), so that these
apps run their default action only; the requests of `Forms` and `Crews` are `invoke`s by the threads of a program that
embeds the bridge.

### Bridges and Workloads

A process serves one program. `Bridges` (the bridges but AutoGPT) and `Workloads` (AutoGPT's, the scrapers', the gateway's and the tenant sync) choose which at the
start and run that one, so that one run checks the invariants of all; TLC reports every action of each as taken.

## 4. What the runs show

| run | expected | question |
|---|---|---|
| `Runner` | pass | are limits exact, refusals final, answers true, and is everything vetted? |
| `RuntimeCoreThreads` | pass | do concurrent threads keep sessions and logs together, and implement SessionLog? |
| `RuntimeCoreOneThread` | pass | is the cache right when requests do not overlap? |
| `RuntimeCoreIdempotency` | violation | ... and when they do, are invokes with one key executed once? |
| `AgentIdentity` | pass | do records and keys agree, requests about other agents interleaving and one call failing, and is AgentLifecycle implemented? |
| `AgentIdentityRevoke` | violation | is revocation final when requests about one agent overlap? |
| `AgentIdentityRotate` | violation | does an agent that was rotated have a key when two rotates of it overlap, with the records the service stores? |
| `TenantSyncRetry` | violation | is a failed provisioning made good? |
| `Bridges` | pass | is what clients of six bridges are told so, however their threads interleave? |
| `Workloads` | pass | do jobs and tasks end and tell the truth, is a job that is ready searchable, are crawls breadth first, are tenants' marks true and kept, does the sync catch up, which requests does the policy let into a cloud that it knows, why is usage not billed? |
| `GatewayFlagged` | violation | does data flagged as personal stay out of the United States? |
| `BillingSameSecond` | violation | is every completed call billed when nothing fails? |

Bounds, and why they are enough:

- `Runner`: three requests, allowances of two and one, a window of two ticks and a clock up
  to two. Two requests fill the larger allowance and the third exceeds it, before, at and
  after the boundary; one crash; every gate alone, two at once, none. Requests are symmetric.
- `RuntimeCoreThreads`: four requests on three threads, two sessions, one key, TTL 0, one tick, one restart: two invokes
  and a close on one session overlap in every order, with an expiry under them. The other session shows that
  handlers do not reach into it.
- `RuntimeCoreOneThread`: four requests, two sessions, two keys, TTL 1, clock to 3, one restart: an entry of age
  TTL, and of TTL + 1, one saved again, and a session opened after the restart that uses a key of the one before.
- `RuntimeCoreIdempotency`: two threads and three requests suffice (one creates the session).
- `AgentIdentity`: five requests over two agents, one of which is ephemeral, one failed call: create, rotate, suspend, reactivate
  and revoke of one agent in a row, or three and two of both interleaved. The violations take three or four requests and no failure: `AgentIdentityRotate` one
  create and two rotates.
- `Bridges`: three threads, so that two race while a third pauses, sets, joins or registers; one object of
  each kind, since requests about different objects touch different entries; budgets of one and two; a field alone, two together, good, bad and
  odd; teams of two over a procedure of two phases and of none; objects in two versions; field definitions of plain types with limits at zero, of one in capitals, of names of JSON Schema and of an
  unknown one, and values on both sides of each limit; chains of one to three tools. Threads are symmetric. About 1 250 000 states.
- `Workloads`: two threads on one task name and two objects (a task created again under its running loop); one server job with two pages of
  two records and batches of two, so that a batch is short, full, or not needed; two sidecar jobs on one collection, one with a page of two chunks and a page of one,
  the other with the second page alone, where the second chunk of the first page shares its id with the chunk of the second page, one deletion, restarts;
  two groups of tenants with names used once, one failed call and one crash; every site of three pages with the link lists of `MCLinkLists` (a cycle, a repeated link, a dead end),
  depths (negative ones of both kinds too) and limits below, at and above the site's size, a queue limit of two, one failing page; one request with two writes of tuples, a local model with two fallbacks, a cloud model of the exception, another
  of the table and one outside it; two completed requests of two tenants within two seconds. About 350 000 states.
- `TenantSyncRetry`: the same groups and one failed call, no crash.
- `GatewayFlagged`: one request and two writes, a local model with two fallbacks, a model outside the table.
- `BillingSameSecond`: two calls of one tenant, two seconds.

Liveness is checked without symmetry (`Workloads` and `TenantSyncRetry` declare none).

Fairness is assumed of three things.

- Weak fairness of `Sync` in TenantSync (`FairSyncSpec`; in `Workloads` of the same step, when the program is the sidecar). The sidecar sleeps 30 s between passes and gives every
  call a timeout of 10 s, so while it runs it always takes its next step. Nothing is asked of administrators, and a failure or a crash
  that is permitted need not happen.
- `AutoFairness`, each thread's `WorkNext`: the operating system runs a thread of the pool again and again until its request is answered,
  and no step of an iteration waits for another thread. Clients need not send anything.
- `JobFairness`, each job's `Pipeline`: the event loop resumes the job after each call, and a call ends because `httpx` gives it a
  timeout. The scripts that run in a page have none; the assumption is that they return.

The other modules state safety only and have no fairness.

The violations are listed as findings in `PROJECT.json`, each with the sentence of the
repository it contradicts:

1. Two overlapping invokes with one idempotency key are both executed (`runtime_core/main.py:264`).
2. A suspend or reactivate that read the record before a revoke writes over it (`agent_identity.py:396`).
3. A tenant whose provisioning failed once is not provisioned until the sidecar restarts (`kc_lago_sync.py:276`).
4. Two overlapping rotates delete each other's new key, and the active agent has none (`agent_identity.py:459`). With the record that `create`
   itself stores both also fail to build their answers (`agent_identity.py:469`), so that even one rotate alone loses its new key to the client.
5. Flagged data leaves for US clouds: the aliases of `config.yaml` that the hook's table lacks are served (`opa_middleware.py:69`), and a request that was
   approved for a local model falls back to a cloud without being judged again (`config.yaml:229`).
6. Of two calls of a tenant in one second Lago drops the events of the second (`lago_callback.py:33`).

These too happen in the models once an assumption of the checks and proofs is dropped; they have no run of their own:

- with two threads a sweep removes the timestamp of a result that the other saved anew meanwhile, and the result never expires
  (`runtime_core/main.py:179`; `ResultsAreStamped` is checked with one thread);
- two agents of one name share the alias of their keys, and to suspend one deletes the key of the other (`agent_identity.py:148`; `OwnAliases`);
- a group that is deleted and made anew under its name between two polls is provisioned and then deprovisioned with the old one
  (`kc_lago_sync.py:281`; `FreshNaming`);
- of two chunks with one id the one stored later replaces the other, so not every chunk is kept (`playwright_scraper/scraper.py:346`;
  `ReadyIsSearchable` asks for a record under the id of each);
- an agent that was granted a model may not use it where OpenFGA is configured (`openfga_authz.py:158`).

Some hazards no property catches, because the code does what they describe and no text of the repository promises otherwise: a Kernel that executes after the
client was told of an error, the limiter's counts lost in a restart, a key left over when a call of `create` or `revoke` failed, a second key after a crash
between the key and the mark, the update of a field undone by a walk, validations lost with a list that two threads make, jobs forgotten in a restart, a
collection deleted under its jobs. The model takes all these steps; where a passing property makes an exception of one, its comment
says so, and the note of the hazard in `PROJECT.json` too.

Every property of a passing run has a mutant: an operator of the module, next to the
definition it stands for, that changes it as a plausible mistake would. `PROJECT.json` lists
them; TLC finds the property violated with each. The type invariants of the Runner, the runtime core and the
identity service are proved and not checked again.

## 5. What is proved

Each theorem holds for all values of the constants that satisfy the assumptions named in its module; bounds (`MaxClock`,
`StepBound` and so on) are any numbers there. Arguments are laid out as one step per action; steps an action
cannot disturb are closed by the variables it leaves unchanged.

**Runner.** All five properties of its run, and its types.

- The rate bound: `LimiterInv` adds to `RateBound` that a bucket holds only requests of its own agent
  that were admitted (`BucketOfAgent`), and that every admitted request the window still reaches is in its bucket
  (`FreshInBucket`). Without the second, pruning could forget a request that a window laid over the
  present still counts. A new request then joins at most `Fresh`, which `HasSlot` says is smaller than the
  allowance; a window that ends earlier does not contain it. `LimitedOnlyWhenFull` follows from the same invariant: what
  the limiter counts is a subset of what was admitted in the last window.
- The flow of requests: `FlowInv` adds that a new request is untouched, that a request without an
  answer has been told nothing, that replies belong to envelopes that were sent and executed as they say.
  From it follow `RefusedNeverExecutes`, `AnswersAreTrue` and `OnlyVettedReachKernel`. The facts
  are needed because the Kernel acts after the Runner has answered: that a refused request is not on the wire must hold
  forever, not only when it is refused.

**RuntimeCore.** Types, `SessionEventsAgree` and `ClosedStaysClosed`, for any number of
threads. `SessionInv` says, for each `pc`, what the request may rely on (`Phases`); that no request but its
creator holds the id of a session `init` is still building (`Private`); that ids are not used twice (`UsedOnce`). Without
the last two a closed session's id could come back through `init`.

The cache, where requests do not overlap (`OneThread`: one thread, the condition of the run `RuntimeCoreOneThread`; with two
finding 1 refutes the first and the sweep described above the second): `Idempotent`, `ResultsAreStamped`, `NoStaleReplay`, for any number of requests, keys, restarts and any TTL.
`CacheInv` adds that at most one request is under way (`Single`), that no time lies in the future (`Times`), that the
keys a sweep has still to remove are the expired ones and that none is left at the lookup (`Swept`), what a request relies on at each step
(`Reached`), that an execution younger than the TTL is in the cache or about to be put there, under a stamp no
older than itself (`Cached`), and that a key is executed again only when its earlier executions are older than that (`Renewed`). The last two
carry the argument: the lookup finds nothing only when every earlier execution has outlived the TTL.

`LogMatchesAnswers`, for any number of threads: `TrueLogInv` says of every entry of a log that its request has come to a step
at which it may be there (`LoggedRightly`), that it stands in the log of its own session and there at one position only (`LogsAreTrue`);
and that a request which has recorded itself is in that log for as long as the session lives (`RecordedAreLogged`). From both
the number of occurrences follows.

**RuntimeCore implements SessionLog.** The initial states map to an initial state, and each step
maps to a step or to none: the second write of `init` opens the session, an append to an open session records, the first
removal of `close` closes, the end of the process restarts, all others stutter. `LogInv` adds to `SessionInv` what the
mapping needs: a `close` about to remove an open session is in its log (`ClosingIsLogged`, so that a session is never closed
unannounced), a session still being created has no log (`CreatedIsUnlogged`, so that the first write of `init` is not
seen), and what is logged was recorded by requests whose endpoint no longer changes (`LoggedHaveArrived`).

**AgentIdentity.** Types and every property of its run, for agents with aliases of their own (`OwnAliases`), which the code does not see to:
without it `NoForeignDelete` is false. `KeyIffActive`,
`ZeroDowntime` and `RevokedIsFinal` also assume `SerialPerAgent`, which the code does not enforce: without it finding 4 refutes the second
and finding 2 the last. `Orderly` says what the
handler at each step knows of its own request, `Knowing` that what it read of the record is still so (this is what overlapping requests break),
`Balanced` that keys and record differ by exactly what the handler of the agent has done and not yet finished.

`KeysAreDelivered` proves `KeyWasDelivered`, the other side of finding 4: where the stored record satisfies the response model (`RecordComplete`) a key in force
was handed to its sponsor, also when requests about one agent overlap, as long as no call fails. So nothing but the missing field loses it.

**AgentIdentity implements AgentLifecycle**, under the same two conditions. The steps: an accepted suspend or revoke makes the agent
leave, a mint issues, a deletion or an expiry withdraws, the write of the record is the change of life, a call that fails is a
failure even where nothing else is seen of it, and everything else stutters. `Serial` (`Orderly`, `Knowing` and `Balanced`
together) suffices: `Knowing` gives the guards that hold whatever fails, `Balanced` those that hold until a call does.
`LeavingAfter` and `HeldAfter` say what one call changes in the picture.

**TenantSync.** Types; and, when no group takes the name of an earlier one (`FreshNaming`; both are false without it), `ProvisionedIsTrue` and
`LiveTenantsKeepAccess`. `MemoryInv` relates what the process remembers to what is there, `StageInv` a half-finished
provisioning to the calls it has made; a listing that failed never becomes a list of groups to remove.

**Bridges.** All nine safety properties and the types, for any number of threads. The strengthenings say what each thread between
two steps may still do to the shared state:

- `ExecInv`: no counter, in the execution or read by a thread, is ahead of the steps recorded and about to be
  (`DoneInv`), and late steps together with the threads that may still record one are fewer than all threads (`LateInv`).
- `FormInv`: the value a walk holds is the one the client set last, or its field is in `raced`; what an undisturbed
  submission has walked is valid.
- `TeamInv`: what a walk has served is what it does not still have before it, phase by phase.
- `CrewInv`: versions only grow, what was found is between the version at the start and now, and a request past an agent has found it.
- `SchemaInv`: who is about to make a list is the only one that can lose results; `GeneratedSchemasAgree` compares the three
  acceptances by type of field, for data that are typed (`DataAreTyped`):
  for every name of a type in one direction, for the six plain names in the other.
- `HistoryInv`: the numbers in a registry's history are of calls that were made, two calls under way have different ones (`OwnNumbers`),
  and a call that is about to record itself knows how deep it went (`Deep`); the history then follows the calls call by call
  (`HistoryFollowsCalls`).
- `BridgesServeAlone`: a behaviour of `Bridges` satisfies the specification of each bridge, so that what is proved of one holds of
  the composition (`BridgesKeepTheirWord`).

**Billing.** `UnbilledHasACause`: `BillInv` adds that a callback has posted in order under one id, and that
ledger entries come from callbacks that posted them. It is an account of the causes, one of which is finding 6, not a promise that usage is billed.

**Workloads.** `JobInv` counts records on their way, for any batch size (`ReportedIsStored`). `WorkInv` weighs a task by its recorded
iterations and the threads inside one (`Worth`), which racing writes of the counter never lower (`CompletedMeansWorked`). `IndexInv` says for each
job which ids it has shown to be in the table and which it still owes (`Shows`), for any assignment of ids to chunks: `ReadyIsSearchable` holds for colliding
ids because it asks for a record under the id of every chunk, not for the chunk, and not of jobs whose collection was deleted since or whose
set-up was refused, nor of chunks that SurrealDB refused. `GateInv` gives `CloudNeedsException`, for any fallbacks, provided the model of
the policy's exception is a Vertex model in us-central1 (`ExceptionIsAmerican`), as the table has it; it says nothing of models outside the table and of
fallbacks (finding 5).
`ProgramsRunAlone` and `ProgramsKeepTheirWord` carry the results over to the composition.

`CrawlInv` gives `CrawlIsBreadthFirst` for every site, program, depth and limit: the queue is sorted by depth and holds two depths at
most (`Sorted`), nothing visited is deeper than what waits (`Behind`), what is queued or visited can be reached at its depth (`InReach`);
and, unless a link was left out because the queue was long, every link of a visited page is visited or queued no deeper than it should be
(`Covered`), so that no page was visited too late (`Exact`). `NearerIsVisited` is the step from the last two to the property.
The reference, `Near`, is a function from one depth to the next. `SetInduction` takes the least element of a set of numbers instead of
induction over a predicate; with it `RecursionExists` shows that such a function exists, `NearIsDefined` and `QueueAfterIsDefined` that
the two of `Crawl` are what their definitions say, and `NearIsBounded` that reachability is complete after as many steps as there are pages.

`ProgramsKeepTypes` is the type invariant of the composition.

Model-checked only: liveness (`EventuallySynced`, `WorkEnds`, `JobsEnd`), since the proof system does not handle fairness. The cache properties
are proved for one thread only, because they are false for two.

## 6. What is not modelled

- Agent bootstrap: a script run once, by hand, before there are agents. Harness and command line: one invocation from
  start to end, decisions by look-up, nothing kept. The LangGraph loader keeps nothing and its tool guard is a
  TODO. The recommender is a sort of a constant table. Feedback and discovery forward or read; classifier and translator are text models. Compose files and
  scripts are input and output.
- Of the bridges: AutoGen and LangGraph keep lists that are only appended to. Agno, OpenAI Agents, Microsoft Agent and VxAPI have a
  `yield` in `invoke`, which makes it a generator that nobody iterates: it executes nothing. LangChain and Semantic Kernel
  do not parse.
- Text extraction, the boundaries of chunks (`chunk_text` is taken to end, which it does for an overlap smaller than the size), embeddings, and the answers of searches.
- Prometheus metrics, logging, CORS, signatures and the content of envelopes; read-only endpoints; the choice of plans, budgets and models.
- Clock adjustments: clocks only advance.
- Changes administrators make to other attributes of a group while the sidecar rewrites them.
- Two agents with one alias and groups that use one name in turn are outside the passing runs and the proofs of the properties they break (section 4).
- Of LiteLLM's router only the fallbacks by model: no retries, cool-downs or fallbacks for a prompt that is too long.
