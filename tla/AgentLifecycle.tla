--------------------------- MODULE AgentLifecycle ---------------------------
(***************************************************************************)
(* What the agent identity service promises about an agent and its keys    *)
(* (references/agent-identity-spec.md:79), without HTTP calls, retries or  *)
(* requests: an agent comes to life with a key, is suspended and given a   *)
(* new key in turn, and is revoked once and for all. Its keys are only     *)
(* withdrawn as it leaves, while another one is in force, or by expiry.    *)
(*                                                                         *)
(* Once a call has failed (faultless is FALSE) the record and the keys may *)
(* disagree; everything else is promised all the same.                     *)
(***************************************************************************)
CONSTANTS
    Agents,
    Keys,
    Ephemeral   \* agents whose first key expires

VARIABLES
    life,       \* the status of each agent
    held,       \* the keys of each agent that the gateway accepts
    mortal,     \* those of them that expire
    leaving,    \* agents about to be suspended or revoked
    faultless   \* has every call so far succeeded?

vars == <<life, held, mortal, leaving, faultless>>

Init ==
    /\ life = [a \in Agents |-> "none"]
    /\ held = [a \in Agents |-> {}]
    /\ mortal = {} /\ leaving = {}
    /\ faultless = TRUE

\* The condition holds, or a call has failed.
UnlessFaulty(condition) ==
    /\ faultless' \in BOOLEAN
    /\ faultless' => faultless /\ condition

Becomes(a, state) ==
    /\ life' = [life EXCEPT ![a] = state]
    /\ UNCHANGED <<held, mortal>>

Enter(a) ==
    /\ life[a] = "none" /\ a \notin leaving
    /\ Becomes(a, "active")
    /\ UnlessFaulty(a \in Ephemeral \/ \E k \in Keys : held[a] = {k})
    /\ UNCHANGED leaving

Dismiss(a) ==
    /\ life[a] \in {"active", "suspended"} /\ a \notin leaving
    /\ leaving' = leaving \cup {a}
    /\ UNCHANGED <<life, held, mortal, faultless>>

Suspend(a) ==
    /\ life[a] = "active" /\ a \in leaving
    /\ Becomes(a, "suspended")
    /\ leaving' = leaving \ {a}
    /\ UnlessFaulty(held[a] = {})

Revoke(a) ==
    /\ life[a] \in {"active", "suspended"} /\ a \in leaving
    /\ Becomes(a, "revoked")
    /\ leaving' = leaving \ {a}
    /\ UnlessFaulty(held[a] = {})

Reactivate(a) ==
    /\ life[a] = "suspended" /\ a \notin leaving
    /\ Becomes(a, "active")
    /\ UnlessFaulty(\E k \in Keys : held[a] = {k})
    /\ UNCHANGED leaving

\* A key that nobody has.  It expires only if it is the first of an ephemeral
\* agent; an active agent may hold two while the older one is replaced.
Issue(a, k) ==
    /\ \A b \in Agents : k \notin held[b]
    /\ life[a] # "revoked" /\ a \notin leaving
    /\ held' = [held EXCEPT ![a] = @ \cup {k}]
    /\ mortal' = IF life[a] = "none" /\ a \in Ephemeral THEN mortal \cup {k} ELSE mortal
    /\ UnlessFaulty(held[a] = {} \/ (life[a] = "active" /\ \E x \in Keys : held[a] = {x}))
    /\ UNCHANGED <<life, leaving>>

\* The request that withdraws a key may fail with it.
Withdraw(a, k) ==
    /\ k \in held[a]
    /\ k \in mortal \/ a \in leaving \/ (life[a] = "active" /\ held[a] # {k})
    /\ held' = [held EXCEPT ![a] = @ \ {k}]
    /\ mortal' = mortal \ {k}
    /\ leaving' \in {leaving, leaving \ {a}}
    /\ UnlessFaulty(leaving' = leaving)
    /\ UNCHANGED life

\* A call fails, and the agent whose request it was may stay after all.
Fail ==
    /\ leaving' = leaving \/ \E a \in leaving : leaving' = leaving \ {a}
    /\ faultless' = FALSE
    /\ UNCHANGED <<life, held, mortal>>

Next ==
    \/ \E a \in Agents :
          \/ Enter(a) \/ Dismiss(a) \/ Suspend(a) \/ Revoke(a) \/ Reactivate(a)
          \/ \E k \in Keys : Issue(a, k) \/ Withdraw(a, k)
    \/ Fail

Spec == Init /\ [][Next]_vars
=============================================================================
