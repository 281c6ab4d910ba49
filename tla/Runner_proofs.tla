---------------------------- MODULE Runner_proofs ----------------------------
(***************************************************************************)
(* What holds of the Runner for any number of requests and agents, any     *)
(* configuration, window and number of crashes.                            *)
(***************************************************************************)
EXTENDS Runner, FiniteSetTheorems, TLAPS

(***************************************************************************)
(* The gates                                                               *)
(***************************************************************************)
LEMMA RefusalIsAGate ==
    ASSUME NEW f, StoppingGates(f) # {}
    PROVE  /\ Refusal(f) \in PipelineReasons
           /\ Refusal(f) # "rate_limit_exceeded"
<1> DEFINE S == StoppingGates(f)
<1>1. S \subseteq 1..6
    BY DEF StoppingGates, Gates
<1>2. \E i \in S : \A j \in S : i <= j
    <2>1. CASE 1 \in S  BY <1>1, <2>1
    <2>2. CASE 1 \notin S /\ 2 \in S  BY <1>1, <2>2
    <2>3. CASE 1 \notin S /\ 2 \notin S /\ 3 \in S  BY <1>1, <2>3
    <2>4. CASE 1 \notin S /\ 2 \notin S /\ 3 \notin S /\ 4 \in S  BY <1>1, <2>4
    <2>5. CASE S \subseteq {5, 6} /\ 5 \in S  BY <2>5
    <2>6. CASE S \subseteq {6}  BY <2>6
    <2> QED BY <1>1, <2>1, <2>2, <2>3, <2>4, <2>5, <2>6
<1> DEFINE first == CHOOSE i \in S : \A j \in S : i <= j
<1>3. first \in S  BY <1>2
<1>4. first \in DOMAIN Gates  BY <1>3 DEF StoppingGates
<1>5. Refusal(f) = Gates[first]  BY DEF Refusal
<1>6. Gates[first] \in PipelineReasons  BY <1>4 DEF PipelineReasons
<1>7. Gates[first] # "rate_limit_exceeded"  BY <1>1, <1>3 DEF Gates
<1> QED BY <1>5, <1>6, <1>7

LEMMA ReasonsAreAnswers == PipelineReasons \subseteq AnswerType
BY DEF AnswerType

LEMMA VerdictType ==
    ASSUME NEW k
    PROVE  Verdict(k) \in {"error", "sensitive_output_detected", "completed"}
BY DEF Verdict

(***************************************************************************)
(* Types                                                                   *)
(***************************************************************************)
LEMMA TypeInit == Init => TypeOK
BY DEF Init, TypeOK, AnswerType

LEMMA TypeStep == TypeOK /\ [Next]_vars => TypeOK'
<1> SUFFICES ASSUME TypeOK, [Next]_vars PROVE TypeOK'
    OBVIOUS
<1>1. CASE UNCHANGED vars
    BY <1>1 DEF TypeOK, vars
<1>2. ASSUME NEW r \in Requests, NEW f \in Forms, MissingConfig(r, f)
      PROVE  TypeOK'
    <2>1. f \in FormType /\ "missing_platform_config" \in AnswerType
        BY ConfigAssumption DEF AnswerType, PipelineReasons
    <2> QED BY <1>2, <2>1 DEF MissingConfig, Arrive, Answer, kernelVars, TypeOK
<1>3. ASSUME NEW r \in Requests, NEW f \in Forms, RateLimited(r, f)
      PROVE  TypeOK'
    <2>1. f \in FormType /\ "rate_limit_exceeded" \in AnswerType
        BY ConfigAssumption DEF AnswerType, PipelineReasons
    <2>2. Fresh(f.agent) \subseteq Requests
        BY <2>1 DEF Fresh, TypeOK, FormType
    <2> QED BY <1>3, <2>1, <2>2 DEF RateLimited, Arrive, Answer, kernelVars, TypeOK
<1>4. ASSUME NEW r \in Requests, NEW f \in Forms, TakeSlot(r, f.agent)
      PROVE  /\ bucket' \in [Agents -> SUBSET Requests]
             /\ at' \in [Requests -> Nat]
             /\ admitted' \in SUBSET Requests
    <2>1. f \in FormType  BY ConfigAssumption
    <2>2. Fresh(f.agent) \cup {r} \subseteq Requests
        BY <2>1 DEF Fresh, TypeOK, FormType
    <2> QED BY <1>4, <2>1, <2>2 DEF TakeSlot, TypeOK
<1>5. ASSUME NEW r \in Requests, NEW f \in Forms, Blocked(r, f)
      PROVE  TypeOK'
    <2>1. f \in FormType  BY ConfigAssumption
    <2>2. Refusal(f) \in AnswerType
        BY <1>5, RefusalIsAGate, ReasonsAreAnswers DEF Blocked
    <2>3. TakeSlot(r, f.agent)  BY <1>5 DEF Blocked
    <2> QED BY <1>4, <1>5, <2>1, <2>2, <2>3 DEF Blocked, Arrive, Answer, kernelVars, TypeOK
<1>6. ASSUME NEW r \in Requests, NEW f \in Forms, Forward(r, f)
      PROVE  TypeOK'
    <2>1. f \in FormType  BY ConfigAssumption
    <2>2. TakeSlot(r, f.agent)  BY <1>6 DEF Forward
    <2> QED BY <1>4, <1>6, <2>1, <2>2 DEF Forward, Arrive, TypeOK
<1>7. ASSUME NEW r \in Requests, ReceiveReply(r)
      PROVE  TypeOK'
    <2>1. Verdict(reply[r]) \in AnswerType
        BY VerdictType DEF AnswerType
    <2> QED BY <1>7, <2>1 DEF ReceiveReply, Answer, kernelVars, TypeOK
<1>8. ASSUME NEW r \in Requests, PostFails(r)
      PROVE  TypeOK'
    BY <1>8 DEF PostFails, Answer, kernelVars, TypeOK, AnswerType
<1>9. ASSUME NEW r \in Requests, Kernel(r)
      PROVE  TypeOK'
    BY <1>9 DEF Kernel, KernelExecute, KernelRefuse, SendReply, LoseEnvelope, KernelReplies, TypeOK
<1>10. CASE Tick
    BY <1>10 DEF Tick, kernelVars, TypeOK
<1>11. CASE Crash
    BY <1>11 DEF Crash, kernelVars, TypeOK
<1> QED BY <1>1, <1>2, <1>3, <1>5, <1>6, <1>7, <1>8, <1>9, <1>10, <1>11
        DEF Next, Ingress, Egress

\* Every variable of the Runner keeps its type.
THEOREM TypeCorrect == Spec => []TypeOK
BY TypeInit, TypeStep, PTL DEF Spec

(***************************************************************************)
(* The rate limiter.  Its bucket holds exactly what counts: every request  *)
(* it let pass less than a window ago is still in the bucket of its agent. *)
(***************************************************************************)
BucketOfAgent ==
    \A a \in Agents : \A r \in bucket[a] : r \in admitted /\ form[r].agent = a

FreshInBucket ==
    \A r \in admitted :
        /\ phase[r] # "new" /\ form[r] \in FormType
        /\ at[r] <= clock
        /\ clock - at[r] < Window => r \in bucket[form[r].agent]

LimiterInv == TypeOK /\ BucketOfAgent /\ FreshInBucket /\ RateBound

LEMMA AdmittedFinite ==
    ASSUME TypeOK
    PROVE  \A S \in SUBSET admitted : IsFiniteSet(S) /\ Cardinality(S) \in Nat
<1> SUFFICES ASSUME NEW S \in SUBSET admitted
             PROVE  IsFiniteSet(S) /\ Cardinality(S) \in Nat
    OBVIOUS
<1>1. S \subseteq Requests  BY DEF TypeOK
<1> QED BY <1>1, BoundAssumption, FS_Subset, FS_CardinalityType

\* What the limiter counts is what it let pass in the last window.
LEMMA FreshIsRecent ==
    ASSUME TypeOK, BucketOfAgent, FreshInBucket, NEW a \in Agents
    PROVE  Fresh(a) = {q \in admitted : form[q].agent = a /\ clock - at[q] < Window}
BY DEF Fresh, BucketOfAgent, FreshInBucket

\* Steps that leave the limiter, the clock and the bodies of admitted requests alone.
LEMMA LimiterUntouched ==
    ASSUME LimiterInv, TypeOK',
           bucket' = bucket, at' = at, admitted' = admitted, clock' = clock,
           \A r \in admitted : form'[r] = form[r] /\ phase'[r] # "new"
    PROVE  LimiterInv'
<1>1. BucketOfAgent'  BY DEF LimiterInv, BucketOfAgent
<1>2. FreshInBucket'  BY DEF LimiterInv, FreshInBucket
<1>3. ASSUME NEW a \in Agents, NEW s \in 0..clock
      PROVE  AdmittedIn(a, s)' = AdmittedIn(a, s)
    BY DEF AdmittedIn
<1>4. RateBound'  BY <1>3 DEF LimiterInv, RateBound
<1> QED BY <1>1, <1>2, <1>4 DEF LimiterInv

\* A slot is taken: the one step in which a window can fill up.
LEMMA SlotTaken ==
    ASSUME LimiterInv, TypeOK',
           NEW r \in Requests, NEW f \in Forms,
           Arrive(r, f), TakeSlot(r, f.agent),
           phase'[r] # "new", \A q \in Requests \ {r} : phase'[q] = phase[q]
    PROVE  LimiterInv'
<1> USE DEF LimiterInv
<1>1. f \in FormType /\ f.agent \in Agents
    BY ConfigAssumption DEF FormType
<1>2. r \notin admitted
    BY DEF Arrive, FreshInBucket
<1>3. /\ form'[r] = f /\ at'[r] = clock /\ clock' = clock
      /\ \A q \in admitted : form'[q] = form[q] /\ at'[q] = at[q] /\ phase'[q] # "new"
      /\ admitted' = admitted \cup {r}
      /\ bucket' = [bucket EXCEPT ![f.agent] = Fresh(f.agent) \cup {r}]
    <2>1. \A q \in admitted : q # r /\ q \in Requests
        BY <1>2 DEF TypeOK
    <2> QED BY <2>1, <1>2 DEF Arrive, TakeSlot, TypeOK, FreshInBucket
<1>4. Fresh(f.agent) \subseteq bucket[f.agent]
    BY DEF Fresh
<1>5. BucketOfAgent'
    BY <1>1, <1>2, <1>3, <1>4 DEF BucketOfAgent, TypeOK
<1>6. FreshInBucket'
    <2> SUFFICES ASSUME NEW q \in admitted'
                 PROVE  (/\ phase[q] # "new" /\ form[q] \in FormType
                         /\ at[q] <= clock
                         /\ clock - at[q] < Window => q \in bucket[form[q].agent])'
        BY DEF FreshInBucket
    <2>1. CASE q = r
        BY <2>1, <1>1, <1>3, BoundAssumption DEF TypeOK
    <2>2. CASE q \in admitted
        <3>1. /\ form[q] \in FormType /\ form[q].agent \in Agents /\ at[q] <= clock
              /\ clock - at[q] < Window => q \in bucket[form[q].agent]
            BY <2>2 DEF FreshInBucket, FormType
        <3>2. clock - at[q] < Window => q \in bucket'[form[q].agent]
            BY <3>1, <1>1, <1>3 DEF Fresh, TypeOK
        <3> QED BY <2>2, <3>1, <3>2, <1>3
    <2> QED BY <2>1, <2>2, <1>3
<1>7. RateBound'
    <2> SUFFICES ASSUME NEW a \in Agents, NEW s \in 0..clock
                 PROVE  Cardinality(AdmittedIn(a, s)') <= MaxPerMinute[a]
        BY <1>3 DEF RateBound
    <2>1. Cardinality(AdmittedIn(a, s)) <= MaxPerMinute[a]
        BY DEF RateBound
    <2>2. MaxPerMinute[a] \in Nat
        BY ConfigAssumption
    <2>3. CASE r \notin AdmittedIn(a, s)'
        <3>1. AdmittedIn(a, s)' = AdmittedIn(a, s)
            BY <2>3, <1>2, <1>3 DEF AdmittedIn
        <3> QED BY <2>1, <3>1
    <2>4. CASE r \in AdmittedIn(a, s)'
        <3>1. a = f.agent /\ clock < s + Window
            BY <2>4, <1>3 DEF AdmittedIn
        <3>2. AdmittedIn(a, s)' \subseteq Fresh(a) \cup {r}
            <4> SUFFICES ASSUME NEW q \in AdmittedIn(a, s)', q # r
                         PROVE  q \in Fresh(a)
                OBVIOUS
            <4>1. q \in admitted /\ form[q].agent = a /\ s <= at[q]
                BY <1>2, <1>3 DEF AdmittedIn
            <4>2. at[q] \in Nat /\ clock \in Nat /\ Window \in Nat
                BY <4>1, BoundAssumption DEF TypeOK
            <4>3. clock - at[q] < Window
                BY <3>1, <4>1, <4>2
            <4> QED BY <4>1, <4>3, FreshIsRecent
        <3>3. Fresh(a) \in SUBSET admitted
            BY FreshIsRecent
        <3>4. IsFiniteSet(Fresh(a)) /\ Cardinality(Fresh(a)) \in Nat
            BY <3>3, AdmittedFinite
        <3>5. r \notin Fresh(a)
            BY <3>3, <1>2
        <3>6. /\ IsFiniteSet(Fresh(a) \cup {r})
              /\ Cardinality(Fresh(a) \cup {r}) = Cardinality(Fresh(a)) + 1
            BY <3>4, <3>5, FS_AddElement
        <3>7. Cardinality(AdmittedIn(a, s)') <= Cardinality(Fresh(a) \cup {r})
            BY <3>2, <3>6, FS_Subset
        <3>8. Cardinality(AdmittedIn(a, s)') \in Nat
            BY <3>2, <3>6, FS_Subset, FS_CardinalityType
        <3>9. Cardinality(Fresh(a)) < MaxPerMinute[a]
            BY <3>1 DEF TakeSlot, HasSlot
        <3> QED BY <3>4, <3>6, <3>7, <3>8, <3>9, <2>2
    <2> QED BY <2>3, <2>4
<1> QED BY <1>5, <1>6, <1>7

LEMMA LimiterInit == Init => LimiterInv
<1> SUFFICES ASSUME Init PROVE LimiterInv
    OBVIOUS
<1>1. TypeOK  BY TypeInit
<1>2. BucketOfAgent /\ FreshInBucket
    BY DEF Init, BucketOfAgent, FreshInBucket
<1>3. ASSUME NEW a \in Agents, NEW s \in 0..clock
      PROVE  Cardinality(AdmittedIn(a, s)) <= MaxPerMinute[a]
    <2>1. AdmittedIn(a, s) = {}  BY DEF Init, AdmittedIn
    <2>2. Cardinality(AdmittedIn(a, s)) = 0  BY <2>1, FS_EmptySet
    <2> QED BY <2>2, ConfigAssumption
<1>4. RateBound  BY <1>3 DEF RateBound
<1> QED BY <1>1, <1>2, <1>4 DEF LimiterInv

LEMMA LimiterStep == LimiterInv /\ [Next]_vars => LimiterInv'
<1> SUFFICES ASSUME LimiterInv, [Next]_vars PROVE LimiterInv'
    OBVIOUS
<1> USE DEF LimiterInv
<1>0. TypeOK'  BY TypeStep
<1>1. CASE UNCHANGED vars
    BY <1>0, <1>1, LimiterUntouched DEF vars, FreshInBucket
<1>2. ASSUME NEW r \in Requests, NEW f \in Forms, MissingConfig(r, f)
      PROVE  LimiterInv'
    <2>1. \A q \in admitted : form'[q] = form[q] /\ phase'[q] # "new"
        BY <1>2 DEF MissingConfig, Arrive, Answer, FreshInBucket, TypeOK
    <2> QED BY <1>0, <1>2, <2>1, LimiterUntouched DEF MissingConfig, Arrive
<1>3. ASSUME NEW r \in Requests, NEW f \in Forms, RateLimited(r, f)
      PROVE  LimiterInv'
    <2>1. f.agent \in Agents  BY ConfigAssumption DEF FormType
    <2>2. /\ \A q \in admitted : form'[q] = form[q] /\ phase'[q] # "new"
          /\ at' = at /\ admitted' = admitted /\ clock' = clock
          /\ bucket' = [bucket EXCEPT ![f.agent] = Fresh(f.agent)]
        BY <1>3 DEF RateLimited, Arrive, Answer, FreshInBucket, TypeOK
    <2>3. BucketOfAgent'
        BY <2>1, <2>2 DEF BucketOfAgent, Fresh, TypeOK
    <2>4. FreshInBucket'
        BY <2>1, <2>2 DEF FreshInBucket, Fresh, TypeOK
    <2>5. ASSUME NEW a \in Agents, NEW s \in 0..clock
          PROVE  AdmittedIn(a, s)' = AdmittedIn(a, s)
        BY <2>2 DEF AdmittedIn
    <2>6. RateBound'  BY <2>2, <2>5 DEF RateBound
    <2> QED BY <1>0, <2>3, <2>4, <2>6
<1>4. ASSUME NEW r \in Requests, NEW f \in Forms, Blocked(r, f) \/ Forward(r, f)
      PROVE  LimiterInv'
    <2>1. Arrive(r, f) /\ TakeSlot(r, f.agent)
        BY <1>4 DEF Blocked, Forward
    <2>2. phase'[r] # "new" /\ \A q \in Requests \ {r} : phase'[q] = phase[q]
        BY <1>4 DEF Blocked, Forward, Answer, TypeOK
    <2> QED BY <1>0, <2>1, <2>2, SlotTaken
<1>5. ASSUME NEW r \in Requests, Egress(r) \/ Kernel(r)
      PROVE  LimiterInv'
    <2>1. \A q \in admitted : form'[q] = form[q] /\ phase'[q] # "new"
        BY <1>5 DEF Egress, ReceiveReply, PostFails, Kernel, KernelExecute, KernelRefuse, SendReply,
                    LoseEnvelope, Answer, FreshInBucket, TypeOK
    <2>2. bucket' = bucket /\ at' = at /\ admitted' = admitted /\ clock' = clock
        BY <1>5 DEF Egress, ReceiveReply, PostFails, Kernel, KernelExecute, KernelRefuse, SendReply,
                    LoseEnvelope
    <2> QED BY <1>0, <2>1, <2>2, LimiterUntouched
<1>6. CASE Tick
    <2>1. /\ clock' = clock + 1 /\ clock \in Nat
          /\ UNCHANGED <<bucket, at, admitted, form, phase>>
        BY <1>6 DEF Tick, TypeOK
    <2>2. BucketOfAgent'
        BY <2>1 DEF BucketOfAgent
    <2>3. FreshInBucket'
        BY <2>1, BoundAssumption DEF FreshInBucket, TypeOK
    <2>4. ASSUME NEW a \in Agents, NEW s \in 0..clock'
          PROVE  Cardinality(AdmittedIn(a, s)') <= MaxPerMinute[a]
        <3>1. AdmittedIn(a, s)' = AdmittedIn(a, s)
            BY <2>1 DEF AdmittedIn
        <3>2. CASE s \in 0..clock
            BY <3>1, <3>2 DEF RateBound
        <3>3. CASE s = clock + 1
            <4>1. AdmittedIn(a, s) = {}
                BY <3>3, <2>1 DEF AdmittedIn, FreshInBucket, TypeOK
            <4> QED BY <3>1, <4>1, FS_EmptySet, ConfigAssumption
        <3> QED BY <3>2, <3>3, <2>1
    <2>5. RateBound'  BY <2>4 DEF RateBound
    <2> QED BY <1>0, <2>2, <2>3, <2>5
<1>7. CASE Crash
    <2>1. admitted' = {} /\ bucket' = [a \in Agents |-> {}]
        BY <1>7 DEF Crash
    <2>2. BucketOfAgent' /\ FreshInBucket'
        BY <2>1 DEF BucketOfAgent, FreshInBucket
    <2>3. ASSUME NEW a \in Agents, NEW s \in 0..clock'
          PROVE  AdmittedIn(a, s)' = {}
        BY <2>1 DEF AdmittedIn
    <2>4. RateBound'
        BY <2>3, FS_EmptySet, ConfigAssumption DEF RateBound
    <2> QED BY <1>0, <2>2, <2>4
<1> QED BY <1>1, <1>2, <1>3, <1>4, <1>5, <1>6, <1>7 DEF Next, Ingress

LEMMA LimiterCorrect == Spec => []LimiterInv
BY LimiterInit, LimiterStep, PTL DEF Spec

\* No agent passes more than its limit in any window, wherever the window is laid.
THEOREM RateBoundHolds == Spec => []RateBound
<1>1. LimiterInv => RateBound  BY DEF LimiterInv
<1> QED BY <1>1, LimiterCorrect, PTL

\* Nobody is turned away by the limiter who has not used up the limit.
THEOREM LimitedOnlyWhenFullHolds == Spec => LimitedOnlyWhenFull
<1> DEFINE Fullness ==
       \A r \in Requests :
         answer'[r] = "rate_limit_exceeded" /\ answer[r] = "none" =>
            LET a == form'[r].agent
            IN  Cardinality({q \in admitted : form[q].agent = a /\ clock - at[q] < Window})
                    >= MaxPerMinute[a]
<1>1. LimiterInv /\ [Next]_vars => [Fullness]_vars
    <2> SUFFICES ASSUME LimiterInv, Next,
                        NEW r \in Requests,
                        answer'[r] = "rate_limit_exceeded", answer[r] = "none"
                 PROVE  LET a == form'[r].agent
                        IN  Cardinality({q \in admitted :
                                           form[q].agent = a /\ clock - at[q] < Window})
                                >= MaxPerMinute[a]
        OBVIOUS
    <2> USE DEF LimiterInv
    <2>1. PICK f \in Forms : RateLimited(r, f)
        <3>1. ASSUME NEW q \in Requests, NEW f \in Forms,
                     MissingConfig(q, f) \/ Forward(q, f)
              PROVE  FALSE
            BY <3>1 DEF MissingConfig, Forward, Answer, TypeOK
        <3>2. ASSUME NEW q \in Requests, NEW f \in Forms, Blocked(q, f)
              PROVE  FALSE
            <4>1. Refusal(f) # "rate_limit_exceeded"
                <5>1. StoppingGates(f) # {}  BY <3>2 DEF Blocked
                <5> QED BY <5>1, RefusalIsAGate
            <4> QED BY <3>2, <4>1 DEF Blocked, Answer, TypeOK
        <3>3. ASSUME NEW q \in Requests, NEW f \in Forms, RateLimited(q, f)
              PROVE  q = r
            BY <3>3 DEF RateLimited, Answer, TypeOK
        <3>4. ASSUME NEW q \in Requests, Egress(q)
              PROVE  FALSE
            BY <3>4, VerdictType DEF Egress, ReceiveReply, PostFails, Answer, TypeOK
        <3>5. ASSUME NEW q \in Requests, Kernel(q)
              PROVE  FALSE
            BY <3>5 DEF Kernel, KernelExecute, KernelRefuse, SendReply, LoseEnvelope
        <3>6. CASE Tick \/ Crash
            BY <3>6 DEF Tick, Crash
        <3> QED BY <3>1, <3>2, <3>3, <3>4, <3>5, <3>6 DEF Next, Ingress
    <2>2. f.agent \in Agents /\ form'[r].agent = f.agent
        BY <2>1, ConfigAssumption DEF RateLimited, Arrive, FormType, TypeOK
    <2>3. Fresh(f.agent) = {q \in admitted :
                              form[q].agent = f.agent /\ clock - at[q] < Window}
        BY <2>2, FreshIsRecent
    <2>4. Cardinality(Fresh(f.agent)) \in Nat /\ MaxPerMinute[f.agent] \in Nat
        <3>1. Fresh(f.agent) \in SUBSET admitted  BY <2>3
        <3> QED BY <3>1, <2>2, AdmittedFinite, ConfigAssumption
    <2>5. ~(Cardinality(Fresh(f.agent)) < MaxPerMinute[f.agent])
        BY <2>1 DEF RateLimited, HasSlot
    <2> QED BY <2>2, <2>3, <2>4, <2>5
<1>2. []LimiterInv /\ [][Next]_vars => [][Fullness]_vars
    BY <1>1, PTL
<1> QED BY <1>2, LimiterCorrect, PTL DEF Spec, LimitedOnlyWhenFull

(***************************************************************************)
(* Requests on their way through the Runner and the Kernel.  A request is  *)
(* on the wire or executed only after it was posted, an unanswered one is  *)
(* told nothing, and the Kernel answers once.                              *)
(***************************************************************************)
NewIsUntouched ==
    \A r \in Requests :
        phase[r] = "new" => r \notin wire \cup executed /\ reply[r] = "none"

UnansweredIsTold == \A r \in Requests : phase[r] # "answered" => answer[r] = "none"

RepliesAreTrue ==
    \A r \in Requests :
        /\ reply[r] # "none" => r \notin wire
        /\ reply[r] \notin {"none", "http_error"} => r \in executed

FlowInv ==
    /\ TypeOK
    /\ NewIsUntouched /\ UnansweredIsTold /\ RepliesAreTrue
    /\ RefusedNeverExecutes /\ AnswersAreTrue /\ OnlyVettedReachKernel

\* What the configuration asks of a request that may reach the Kernel.
Vetted(f) ==
    /\ f.agent \in Configured
    /\ f.agent \in ApprovalRequired => f.approved
    /\ ~f.denyPolicy /\ ~f.injection
    /\ f.tool \in ToolAllowlist[f.agent] \cup {NoTool} \/ ToolAllowlist[f.agent] = {}
    /\ f.framework \in Supported
    /\ ProdMode => ~f.backendDown

\* The gates leave nothing out: a form that stops at none of them is vetted.
LEMMA GatesAreComplete ==
    ASSUME NEW f \in FormType, f.agent \in Configured, StoppingGates(f) = {}
    PROVE  Vetted(f)
<1>1. \A i \in 1..6 : ~Stops(Gates[i], f)
    BY DEF StoppingGates, Gates
<1>2. /\ Gates[1] = "PENDING_APPROVAL" /\ Gates[2] = "policy_denied"
      /\ Gates[3] = "policy_backend_unavailable" /\ Gates[4] = "prompt_injection_detected"
      /\ Gates[5] = "tool_not_allowed" /\ Gates[6] = "unsupported_framework"
    BY DEF Gates
<1>3. /\ ~Stops("PENDING_APPROVAL", f) /\ ~Stops("policy_denied", f)
      /\ ~Stops("policy_backend_unavailable", f) /\ ~Stops("prompt_injection_detected", f)
      /\ ~Stops("tool_not_allowed", f) /\ ~Stops("unsupported_framework", f)
    BY <1>1, <1>2
<1>4. /\ f.agent \in ApprovalRequired => f.approved
      /\ ~f.denyPolicy /\ ~f.injection
      /\ ProdMode => ~f.backendDown
      /\ f.framework \in Supported
    BY <1>3 DEF Stops
<1>5. f.tool \in ToolAllowlist[f.agent] \cup {NoTool} \/ ToolAllowlist[f.agent] = {}
    BY <1>3 DEF Stops
<1> QED BY <1>4, <1>5 DEF Vetted

LEMMA VettedReachKernel ==
    OnlyVettedReachKernel <=> \A r \in wire \cup executed : Vetted(form[r])
BY DEF OnlyVettedReachKernel, Vetted

LEMMA EgressReasons ==
    PipelineReasons \cap {"none", "error", "sensitive_output_detected", "completed"} = {}
<1>1. PipelineReasons = {"missing_platform_config", "rate_limit_exceeded",
          "PENDING_APPROVAL", "policy_denied", "policy_backend_unavailable",
          "prompt_injection_detected", "tool_not_allowed", "unsupported_framework"}
    <2>1. DOMAIN Gates = 1..6  BY DEF Gates
    <2>2. {Gates[i] : i \in 1..6} =
              {Gates[1], Gates[2], Gates[3], Gates[4], Gates[5], Gates[6]}
        OBVIOUS
    <2> QED BY <2>1, <2>2 DEF PipelineReasons, Gates
<1> QED BY <1>1

\* What the answer "completed", and a withheld output, say of the Kernel's reply.
LEMMA VerdictIsTrue ==
    ASSUME NEW k \in KernelReplies
    PROVE  /\ Verdict(k) = "completed" => k = "output"
           /\ Verdict(k) = "sensitive_output_detected" => k = "sensitive"
BY DEF Verdict, KernelReplies

LEMMA FlowInit == Init => FlowInv
<1> SUFFICES ASSUME Init PROVE FlowInv
    OBVIOUS
<1>1. TypeOK  BY TypeInit
<1>2. NewIsUntouched /\ UnansweredIsTold /\ RepliesAreTrue /\ OnlyVettedReachKernel
    BY DEF Init, NewIsUntouched, UnansweredIsTold, RepliesAreTrue, OnlyVettedReachKernel
<1>3. RefusedNeverExecutes /\ AnswersAreTrue
    BY EgressReasons DEF Init, RefusedNeverExecutes, AnswersAreTrue
<1> QED BY <1>1, <1>2, <1>3 DEF FlowInv

\* A request that is answered before anything was sent for it.
LEMMA FlowRefusal ==
    ASSUME FlowInv, TypeOK', NEW r \in Requests, NEW f, NEW reason \in PipelineReasons,
           Arrive(r, f), Answer(r, reason), UNCHANGED kernelVars
    PROVE  FlowInv'
<1> USE DEF FlowInv
<1>1. /\ phase[r] = "new" /\ phase'[r] = "answered" /\ answer'[r] = reason
      /\ \A q \in Requests \ {r} :
            phase'[q] = phase[q] /\ answer'[q] = answer[q] /\ form'[q] = form[q]
      /\ wire' = wire /\ executed' = executed /\ reply' = reply
    BY DEF Arrive, Answer, kernelVars, TypeOK
<1>2. r \notin wire \cup executed
    BY <1>1 DEF NewIsUntouched
<1>3. reason \notin {"none", "error", "sensitive_output_detected", "completed"}
    BY EgressReasons
<1>4. NewIsUntouched'  BY <1>1 DEF NewIsUntouched
<1>5. UnansweredIsTold'  BY <1>1 DEF UnansweredIsTold
<1>6. RepliesAreTrue'  BY <1>1 DEF RepliesAreTrue
<1>7. RefusedNeverExecutes'  BY <1>1, <1>2 DEF RefusedNeverExecutes
<1>8. AnswersAreTrue'  BY <1>1, <1>3 DEF AnswersAreTrue
<1>9. \A q \in wire \cup executed : form'[q] = form[q]
    BY <1>1, <1>2 DEF TypeOK
<1>10. OnlyVettedReachKernel'
    BY <1>1, <1>9 DEF OnlyVettedReachKernel
<1> QED BY <1>4, <1>5, <1>6, <1>7, <1>8, <1>10

LEMMA FlowForward ==
    ASSUME FlowInv, TypeOK', NEW r \in Requests, NEW f \in Forms, Forward(r, f)
    PROVE  FlowInv'
<1> USE DEF FlowInv
<1>1. /\ phase[r] = "new" /\ phase'[r] = "posted" /\ form'[r] = f
      /\ \A q \in Requests \ {r} : phase'[q] = phase[q] /\ form'[q] = form[q]
      /\ wire' = wire \cup {r} /\ executed' = executed
      /\ reply' = reply /\ answer' = answer
    BY DEF Forward, Arrive, TypeOK
<1>2. r \notin wire \cup executed /\ reply[r] = "none" /\ answer[r] = "none"
    BY <1>1 DEF NewIsUntouched, UnansweredIsTold
<1>3. NewIsUntouched'  BY <1>1 DEF NewIsUntouched
<1>4. UnansweredIsTold'  BY <1>1 DEF UnansweredIsTold
<1>5. RepliesAreTrue'  BY <1>1, <1>2 DEF RepliesAreTrue
<1>6. RefusedNeverExecutes'
    BY <1>1, <1>2, EgressReasons DEF RefusedNeverExecutes
<1>7. AnswersAreTrue'  BY <1>1 DEF AnswersAreTrue
<1>8. Vetted(f)
    <2>1. f \in FormType  BY ConfigAssumption
    <2> QED BY <2>1, GatesAreComplete DEF Forward
<1>9. \A q \in wire' \cup executed' : q = r \/ (q \in wire \cup executed /\ form'[q] = form[q])
    BY <1>1 DEF TypeOK
<1>10. \A q \in wire \cup executed : Vetted(form[q])
    BY VettedReachKernel
<1>11. \A q \in wire' \cup executed' : Vetted(form'[q])
    BY <1>1, <1>8, <1>9, <1>10
<1>12. OnlyVettedReachKernel'
    BY <1>11 DEF OnlyVettedReachKernel, Vetted
<1> QED BY <1>3, <1>4, <1>5, <1>6, <1>7, <1>12

LEMMA FlowEgress ==
    ASSUME FlowInv, TypeOK', NEW r \in Requests, Egress(r)
    PROVE  FlowInv'
<1> USE DEF FlowInv
<1>1. PICK verdict \in {"error", "sensitive_output_detected", "completed"} :
        /\ Answer(r, verdict)
        /\ verdict = "error" \/ (reply[r] \in KernelReplies /\ verdict = Verdict(reply[r]))
    BY VerdictType DEF Egress, ReceiveReply, PostFails, TypeOK
<1>2. /\ phase[r] = "posted" /\ phase'[r] = "answered" /\ answer'[r] = verdict
      /\ \A q \in Requests \ {r} :
            phase'[q] = phase[q] /\ answer'[q] = answer[q] /\ reply'[q] = reply[q]
      /\ reply'[r] = reply[r] \/ (verdict = "error" /\ reply'[r] = "none")
      /\ wire' = wire /\ executed' = executed /\ form' = form
    <2>1. CASE ReceiveReply(r)
        BY <1>1, <2>1 DEF ReceiveReply, Answer, kernelVars, TypeOK
    <2>2. CASE PostFails(r)
        BY <1>1, <2>2 DEF PostFails, Answer, TypeOK
    <2> QED BY <2>1, <2>2 DEF Egress
<1>3. NewIsUntouched'  BY <1>2 DEF NewIsUntouched
<1>4. UnansweredIsTold'  BY <1>2 DEF UnansweredIsTold
<1>5. RepliesAreTrue'  BY <1>2 DEF RepliesAreTrue
<1>6. RefusedNeverExecutes'
    BY <1>2, EgressReasons DEF RefusedNeverExecutes
<1>7. /\ verdict = "completed" => r \in executed /\ reply[r] = "output"
      /\ verdict = "sensitive_output_detected" => r \in executed /\ reply[r] = "sensitive"
    BY <1>1, VerdictIsTrue DEF RepliesAreTrue
<1>8. AnswersAreTrue'  BY <1>2, <1>7 DEF AnswersAreTrue
<1>9. OnlyVettedReachKernel'  BY <1>2 DEF OnlyVettedReachKernel
<1> QED BY <1>3, <1>4, <1>5, <1>6, <1>8, <1>9

LEMMA FlowKernel ==
    ASSUME FlowInv, TypeOK', NEW r \in Requests, Kernel(r)
    PROVE  FlowInv'
<1> USE DEF FlowInv
<1>1. /\ r \in wire /\ wire' = wire \ {r}
      /\ executed' = executed \/ executed' = executed \cup {r}
      /\ \A q \in Requests \ {r} : reply'[q] = reply[q]
      /\ reply'[r] \notin {"none", "http_error"} => r \in executed'
      /\ phase' = phase /\ answer' = answer /\ form' = form
    <2>1. reply[r] = "none"
        BY DEF RepliesAreTrue, Kernel, KernelExecute, KernelRefuse, SendReply, LoseEnvelope
    <2> QED BY <2>1 DEF Kernel, KernelExecute, KernelRefuse, SendReply, LoseEnvelope, TypeOK
<1>2. phase[r] # "new" /\ reply[r] = "none" /\ answer[r] \notin PipelineReasons
    BY <1>1 DEF NewIsUntouched, RepliesAreTrue, RefusedNeverExecutes
<1>3. answer[r] \notin {"completed", "sensitive_output_detected"}
    BY <1>2 DEF AnswersAreTrue
<1>4. NewIsUntouched'  BY <1>1, <1>2 DEF NewIsUntouched
<1>5. UnansweredIsTold'  BY <1>1 DEF UnansweredIsTold
<1>6. RepliesAreTrue'  BY <1>1 DEF RepliesAreTrue
<1>7. RefusedNeverExecutes'  BY <1>1, <1>2 DEF RefusedNeverExecutes
<1>8. AnswersAreTrue'  BY <1>1, <1>3 DEF AnswersAreTrue
<1>9. OnlyVettedReachKernel'  BY <1>1 DEF OnlyVettedReachKernel
<1> QED BY <1>4, <1>5, <1>6, <1>7, <1>8, <1>9

LEMMA FlowUntouched ==
    ASSUME FlowInv, TypeOK', UNCHANGED <<form, answer, wire, executed>>,
           \A r \in Requests :
              \/ phase'[r] = phase[r] /\ reply'[r] = reply[r]
              \/ phase[r] = "posted" /\ phase'[r] = "lost" /\ reply'[r] = "none"
    PROVE  FlowInv'
BY DEF FlowInv, NewIsUntouched, UnansweredIsTold, RepliesAreTrue,
       RefusedNeverExecutes, AnswersAreTrue, OnlyVettedReachKernel

LEMMA FlowStep == FlowInv /\ [Next]_vars => FlowInv'
<1> SUFFICES ASSUME FlowInv, [Next]_vars PROVE FlowInv'
    OBVIOUS
<1>0. TypeOK /\ TypeOK'  BY TypeStep DEF FlowInv
<1>1. CASE UNCHANGED vars
    BY <1>0, <1>1, FlowUntouched DEF vars, kernelVars
<1>2. ASSUME NEW r \in Requests, NEW f \in Forms, MissingConfig(r, f)
      PROVE  FlowInv'
    <2>1. "missing_platform_config" \in PipelineReasons  BY DEF PipelineReasons
    <2> QED BY <1>0, <1>2, <2>1, FlowRefusal DEF MissingConfig
<1>3. ASSUME NEW r \in Requests, NEW f \in Forms, RateLimited(r, f)
      PROVE  FlowInv'
    <2>1. "rate_limit_exceeded" \in PipelineReasons  BY DEF PipelineReasons
    <2> QED BY <1>0, <1>3, <2>1, FlowRefusal DEF RateLimited
<1>4. ASSUME NEW r \in Requests, NEW f \in Forms, Blocked(r, f)
      PROVE  FlowInv'
    <2>1. Refusal(f) \in PipelineReasons  BY <1>4, RefusalIsAGate DEF Blocked
    <2> QED BY <1>0, <1>4, <2>1, FlowRefusal DEF Blocked
<1>5. CASE Tick
    BY <1>0, <1>5, FlowUntouched DEF Tick, kernelVars
<1>6. CASE Crash
    <2>1. \A r \in Requests :
              \/ phase'[r] = phase[r] /\ reply'[r] = reply[r]
              \/ phase[r] = "posted" /\ phase'[r] = "lost" /\ reply'[r] = "none"
        BY <1>6 DEF Crash
    <2> QED BY <1>0, <1>6, <2>1, FlowUntouched DEF Crash
<1> QED BY <1>0, <1>1, <1>2, <1>3, <1>4, <1>5, <1>6, FlowForward, FlowEgress, FlowKernel
        DEF Next, Ingress

LEMMA FlowCorrect == Spec => []FlowInv
BY FlowInit, FlowStep, PTL DEF Spec

\* A refused request is never executed.
THEOREM RefusedNeverExecutesHolds == Spec => []RefusedNeverExecutes
<1>1. FlowInv => RefusedNeverExecutes  BY DEF FlowInv
<1> QED BY <1>1, FlowCorrect, PTL

\* Only an executed request is answered "completed".
THEOREM AnswersAreTrueHolds == Spec => []AnswersAreTrue
<1>1. FlowInv => AnswersAreTrue  BY DEF FlowInv
<1> QED BY <1>1, FlowCorrect, PTL

\* The Kernel sees vetted requests only, whatever the configuration.
THEOREM OnlyVettedReachKernelHolds == Spec => []OnlyVettedReachKernel
<1>1. FlowInv => OnlyVettedReachKernel  BY DEF FlowInv
<1> QED BY <1>1, FlowCorrect, PTL
=============================================================================
