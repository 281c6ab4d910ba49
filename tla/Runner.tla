------------------------------- MODULE Runner -------------------------------
(***************************************************************************)
(* The Runner service (runner_api.py, runner/core.py, runner/adapters):    *)
(* it admits requests of agents, vets them and hands them to the Kernel.   *)
(*                                                                         *)
(* The service is one asyncio event loop.  run_pipeline contains no        *)
(* await that suspends (the adapters' coroutines never wait), so all of it *)
(* is one step; the only suspension is the HTTP call in kernel_post, and   *)
(* any number of those calls are in flight at a time.  The Kernel and the  *)
(* network between are external: an envelope may be lost, executed late    *)
(* (after the Runner gave up on it) or refused, and its answer may be lost.*)
(*                                                                         *)
(* A request r of Requests is one HTTP request, hence one execution id; a  *)
(* client that retries sends another request.                              *)
(***************************************************************************)
EXTENDS Integers, FiniteSets

CONSTANTS
    Requests,          \* the HTTP requests clients send, one execution id each
    Agents,            \* the "tenant:agent" keys that requests name
    Frameworks,        \* framework names a request may carry
    Tools, NoTool,     \* values of payload["tool"]; NoTool: none is named
    Forms,             \* the request bodies clients send, records of FormType
    NoForm,            \* stands for the body of a request that has not arrived
    Configured,        \* agents that have tenant and agent configuration
    ApprovalRequired,  \* agents whose configuration requires approval
    MaxPerMinute,      \* rate_limits.max_requests_per_minute of each agent
    ToolAllowlist,     \* tool_allowlist of each agent
    Supported,         \* frameworks get_adapter knows
    ProdMode,          \* RUNNER_ENV = "prod"
    Window,            \* length of the rate window (60 s) in clock ticks
    MaxClock,          \* bound: ticks of the clock
    MaxCrashes         \* bound: crashes of the service

FormType ==
    [agent: Agents, framework: Frameworks, tool: Tools \cup {NoTool},
     approved: BOOLEAN, denyPolicy: BOOLEAN, backendDown: BOOLEAN,
     injection: BOOLEAN]

ASSUME ConfigAssumption ==
    /\ NoTool \notin Tools /\ NoForm \notin FormType
    /\ Forms \subseteq FormType
    /\ Configured \subseteq Agents /\ ApprovalRequired \subseteq Agents
    /\ MaxPerMinute \in [Agents -> Nat]
    /\ ToolAllowlist \in [Agents -> SUBSET Tools]
    /\ Supported \subseteq Frameworks
    /\ ProdMode \in BOOLEAN

ASSUME BoundAssumption ==
    /\ IsFiniteSet(Requests)
    /\ Window \in Nat \ {0} /\ MaxClock \in Nat /\ MaxCrashes \in Nat

VARIABLES
    clock,     \* time.time()
    bucket,    \* SimpleRateLimiter.state: per agent, the requests whose times it keeps
    at,        \* the time the limiter let a request pass
    phase,     \* where a request is: new, posted to the Kernel, answered, lost in a crash
    form,      \* the body a request arrived with
    answer,    \* what its client was told
    wire,      \* envelopes on their way to the Kernel
    reply,     \* the Kernel's HTTP answers on their way back
    executed,  \* envelopes the Kernel has executed
    admitted,  \* history: requests the limiter let pass since the process started
    crashes    \* number of crashes so far

vars == <<clock, bucket, at, phase, form, answer, wire, reply, executed, admitted, crashes>>
kernelVars == <<wire, reply, executed>>

(***************************************************************************)
(* The gates behind the limiter, in the order run_pipeline asks them.  A   *)
(* refusal by one of them has already used a slot of the rate window.      *)
(***************************************************************************)
Gates == <<"PENDING_APPROVAL", "policy_denied", "policy_backend_unavailable",
           "prompt_injection_detected", "tool_not_allowed", "unsupported_framework">>

\* Mutant: the guardrail's verdict on the prompt is not looked at.
StopsButInjection(gate, f) ==
    \/ gate = "PENDING_APPROVAL" /\ f.agent \in ApprovalRequired /\ ~f.approved
    \/ gate = "policy_denied" /\ f.denyPolicy
    \/ gate = "policy_backend_unavailable" /\ f.backendDown /\ ProdMode
    \/ /\ gate = "tool_not_allowed"
       /\ f.tool # NoTool
       /\ ToolAllowlist[f.agent] # {}
       /\ f.tool \notin ToolAllowlist[f.agent]
    \/ gate = "unsupported_framework" /\ f.framework \notin Supported

\* A gate that stops form f.
Stops(gate, f) ==
    \/ gate = "PENDING_APPROVAL" /\ f.agent \in ApprovalRequired /\ ~f.approved
    \/ gate = "policy_denied" /\ f.denyPolicy
    \/ gate = "policy_backend_unavailable" /\ f.backendDown /\ ProdMode
    \/ gate = "prompt_injection_detected" /\ f.injection
    \/ /\ gate = "tool_not_allowed"
       /\ f.tool # NoTool
       /\ ToolAllowlist[f.agent] # {}
       /\ f.tool \notin ToolAllowlist[f.agent]
    \/ gate = "unsupported_framework" /\ f.framework \notin Supported

StoppingGates(f) == {i \in DOMAIN Gates : Stops(Gates[i], f)}

\* The reason the client is told: that of the first gate that stops f.
Refusal(f) == Gates[CHOOSE i \in StoppingGates(f) : \A j \in StoppingGates(f) : i <= j]

\* Mutant: the limiter does not prune its bucket.
Unpruned(a) == bucket[a]

\* The part of an agent's bucket that the limiter still counts.
Fresh(a) == {r \in bucket[a] : clock - at[r] < Window}

\* Mutant: off by one.
HasSlotOrIsFull(a) == Cardinality(Fresh(a)) <= MaxPerMinute[a]

HasSlot(a) == Cardinality(Fresh(a)) < MaxPerMinute[a]

\* limiter.allow that says yes: the pruned bucket with the new time is kept.
TakeSlot(r, a) ==
    /\ HasSlot(a)
    /\ bucket' = [bucket EXCEPT ![a] = Fresh(a) \cup {r}]
    /\ at' = [at EXCEPT ![r] = clock]
    /\ admitted' = admitted \cup {r}

Answer(r, reason) ==
    /\ phase' = [phase EXCEPT ![r] = "answered"]
    /\ answer' = [answer EXCEPT ![r] = reason]

Arrive(r, f) ==
    /\ phase[r] = "new"
    /\ form' = [form EXCEPT ![r] = f]
    /\ UNCHANGED <<clock, crashes>>

(***************************************************************************)
(* Ingress: what POST /api/v1/run does before its first suspension.        *)
(***************************************************************************)
MissingConfig(r, f) ==
    /\ Arrive(r, f)
    /\ f.agent \notin Configured
    /\ Answer(r, "missing_platform_config")
    /\ UNCHANGED <<bucket, at, admitted, kernelVars>>

RateLimited(r, f) ==
    /\ Arrive(r, f)
    /\ f.agent \in Configured
    /\ ~HasSlot(f.agent)
    /\ bucket' = [bucket EXCEPT ![f.agent] = Fresh(f.agent)]
    /\ Answer(r, "rate_limit_exceeded")
    /\ UNCHANGED <<at, admitted, kernelVars>>

\* Mutant: the caller does not stop at a refusal of the pipeline.
BlockedButPosted(r, f) ==
    /\ Arrive(r, f)
    /\ f.agent \in Configured
    /\ TakeSlot(r, f.agent)
    /\ StoppingGates(f) # {}
    /\ Answer(r, Refusal(f))
    /\ wire' = wire \cup {r}
    /\ UNCHANGED <<reply, executed>>

Blocked(r, f) ==
    /\ Arrive(r, f)
    /\ f.agent \in Configured
    /\ TakeSlot(r, f.agent)
    /\ StoppingGates(f) # {}
    /\ Answer(r, Refusal(f))
    /\ UNCHANGED kernelVars

\* The signed envelope goes out; the coroutine waits for the Kernel.
Forward(r, f) ==
    /\ Arrive(r, f)
    /\ f.agent \in Configured
    /\ TakeSlot(r, f.agent)
    /\ StoppingGates(f) = {}
    /\ phase' = [phase EXCEPT ![r] = "posted"]
    /\ wire' = wire \cup {r}
    /\ UNCHANGED <<answer, reply, executed>>

(***************************************************************************)
(* Egress: kernel_post returns and the rest of run is executed.            *)
(***************************************************************************)
\* Mutant: the HTTP status of the answer is not looked at.
VerdictOfBody(k) ==
    CASE k = "status_error" -> "error"
      [] k = "sensitive"    -> "sensitive_output_detected"
      [] OTHER              -> "completed"

\* What the client is told of each kind of Kernel answer: HTTP errors and
\* {"status": "error"} are errors, checked before the output guardrail.
Verdict(k) ==
    CASE k \in {"http_error", "status_error"} -> "error"
      [] k = "sensitive"                      -> "sensitive_output_detected"
      [] OTHER                                -> "completed"

ReceiveReply(r) ==
    /\ phase[r] = "posted"
    /\ reply[r] # "none"
    /\ Answer(r, Verdict(reply[r]))
    /\ UNCHANGED <<clock, bucket, at, form, kernelVars, admitted, crashes>>

\* Any exception of the HTTP call: refused or reset connection, 30 s timeout.
\* An HTTP answer on its way is lost with the connection.
PostFails(r) ==
    /\ phase[r] = "posted"
    /\ Answer(r, "error")
    /\ reply' = [reply EXCEPT ![r] = "none"]
    /\ UNCHANGED <<clock, bucket, at, form, wire, executed, admitted, crashes>>

(***************************************************************************)
(* The Kernel, the network, time, and crashes of the service.              *)
(***************************************************************************)
KernelReplies == {"output", "sensitive", "status_error", "http_error"}

\* The HTTP answer k goes back, if the Runner still waits for it.
SendReply(r, k) ==
    reply' = [reply EXCEPT ![r] = IF phase[r] = "posted" THEN k ELSE @]

KernelExecute(r, k) ==
    /\ r \in wire
    /\ wire' = wire \ {r}
    /\ executed' = executed \cup {r}
    /\ SendReply(r, k)
    /\ UNCHANGED <<clock, bucket, at, phase, form, answer, admitted, crashes>>

KernelRefuse(r) ==
    /\ r \in wire
    /\ wire' = wire \ {r}
    /\ SendReply(r, "http_error")
    /\ UNCHANGED <<clock, bucket, at, phase, form, answer, executed, admitted, crashes>>

LoseEnvelope(r) ==
    /\ r \in wire
    /\ wire' = wire \ {r}
    /\ UNCHANGED <<clock, bucket, at, phase, form, answer, reply, executed, admitted, crashes>>

Tick ==
    /\ clock < MaxClock
    /\ clock' = clock + 1
    /\ UNCHANGED <<bucket, at, phase, form, answer, kernelVars, admitted, crashes>>

\* The process dies and starts again: the limiter and the waiting coroutines
\* are gone, envelopes already sent are not.
Crash ==
    /\ crashes < MaxCrashes
    /\ crashes' = crashes + 1
    /\ bucket' = [a \in Agents |-> {}]
    /\ admitted' = {}
    /\ phase' = [r \in Requests |-> IF phase[r] = "posted" THEN "lost" ELSE phase[r]]
    /\ reply' = [r \in Requests |-> IF phase[r] = "posted" THEN "none" ELSE reply[r]]
    /\ UNCHANGED <<clock, at, form, answer, wire, executed>>

-----------------------------------------------------------------------------
Init ==
    /\ clock = 0
    /\ bucket = [a \in Agents |-> {}]
    /\ at = [r \in Requests |-> 0]
    /\ phase = [r \in Requests |-> "new"]
    /\ form = [r \in Requests |-> NoForm]
    /\ answer = [r \in Requests |-> "none"]
    /\ wire = {} /\ executed = {}
    /\ reply = [r \in Requests |-> "none"]
    /\ admitted = {}
    /\ crashes = 0

Ingress(r) ==
    \E f \in Forms : MissingConfig(r, f) \/ RateLimited(r, f) \/ Blocked(r, f) \/ Forward(r, f)

Egress(r) == ReceiveReply(r) \/ PostFails(r)

Kernel(r) == (\E k \in KernelReplies : KernelExecute(r, k)) \/ KernelRefuse(r) \/ LoseEnvelope(r)

Next == (\E r \in Requests : Ingress(r) \/ Egress(r) \/ Kernel(r)) \/ Tick \/ Crash

Spec == Init /\ [][Next]_vars

(***************************************************************************)
(* Properties                                                              *)
(***************************************************************************)
PipelineReasons == {"missing_platform_config", "rate_limit_exceeded"}
                       \cup {Gates[i] : i \in DOMAIN Gates}

AnswerType == {"none", "error", "sensitive_output_detected", "completed"} \cup PipelineReasons

\* Every variable has its type.
TypeOK ==
    /\ clock \in Nat /\ crashes \in Nat
    /\ bucket \in [Agents -> SUBSET Requests]
    /\ at \in [Requests -> Nat]
    /\ phase \in [Requests -> {"new", "posted", "answered", "lost"}]
    /\ form \in [Requests -> FormType \cup {NoForm}]
    /\ answer \in [Requests -> AnswerType]
    /\ wire \in SUBSET Requests /\ executed \in SUBSET Requests /\ admitted \in SUBSET Requests
    /\ reply \in [Requests -> KernelReplies \cup {"none"}]

\* The requests of agent a the limiter let pass in the window that starts at s.
AdmittedIn(a, s) == {r \in admitted : form[r].agent = a /\ s <= at[r] /\ at[r] < s + Window}

\* The sliding-window promise of SimpleRateLimiter: however a window of 60 s is
\* laid, no agent passes more than max_requests_per_minute requests in it
\* (within one life of the process: the limiter forgets on a restart).
RateBound ==
    \A a \in Agents : \A s \in 0..clock : Cardinality(AdmittedIn(a, s)) <= MaxPerMinute[a]

\* The other direction: a client is told "rate_limit_exceeded" only at a moment
\* when its agent really used up its whole allowance in the last 60 s.
LimitedOnlyWhenFull ==
    [][\A r \in Requests :
         answer'[r] = "rate_limit_exceeded" /\ answer[r] = "none" =>
            LET a == form'[r].agent
            IN  Cardinality({q \in admitted : form[q].agent = a /\ clock - at[q] < Window})
                    >= MaxPerMinute[a]]_vars

\* A refusal is final: what the pipeline refused (told "blocked" for any reason
\* but the content of the output) is neither on its way to the Kernel nor
\* executed, then or ever after, restarts included.
RefusedNeverExecutes ==
    \A r \in Requests : answer[r] \in PipelineReasons => r \notin wire \cup executed

\* Answers tell the truth about the Kernel: "completed", and a withheld output,
\* are told only of an envelope the Kernel has executed with that outcome.  Of
\* "error" nothing follows: the Kernel may have executed, or may do so later.
AnswersAreTrue ==
    \A r \in Requests :
        /\ answer[r] = "completed" => r \in executed /\ reply[r] = "output"
        /\ answer[r] = "sensitive_output_detected" => r \in executed /\ reply[r] = "sensitive"

\* The Runner is the enforcement boundary: whatever reaches the Kernel belongs
\* to a configured agent, is approved where approval is required, is not denied,
\* carries no injected prompt, names no tool outside a non-empty allowlist.
OnlyVettedReachKernel ==
    \A r \in wire \cup executed :
        LET f == form[r]
        IN  /\ f.agent \in Configured
            /\ f.agent \in ApprovalRequired => f.approved
            /\ ~f.denyPolicy /\ ~f.injection
            /\ f.tool \in ToolAllowlist[f.agent] \cup {NoTool} \/ ToolAllowlist[f.agent] = {}
            /\ f.framework \in Supported
            /\ ProdMode => ~f.backendDown
=============================================================================
