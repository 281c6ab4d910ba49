----------------------- MODULE AgentIdentity_proofs -----------------------
(***************************************************************************)
(* What the identity service promises for any number of agents and         *)
(* requests. Orderly holds however requests interleave and calls fail; if  *)
(* clients send one request at a time for an agent, the request under way  *)
(* knows the status and the keys of its agent (Knowing), and as long as no *)
(* call has failed they fit together (Balanced).                           *)
(***************************************************************************)
EXTENDS AgentIdentity, FiniteSetTheorems, TLAPS

\* Agents have keys under aliases of their own.
OwnAliases == \A a, b \in Agents : Alias[a] = Alias[b] => a = b

Labels == {"idle", "fetch", "mint", "store", "list", "delete", "mark", "done"}
Statuses == {"none", "active", "suspended", "revoked"}
Answers == {"none", "200", "401", "404", "409", "500", "502"}

\* Handlers that come to a call.
Fits(label, h) ==
    /\ label = "fetch" => h \in {"suspend", "reactivate", "rotate", "revoke"}
    /\ label = "mint" => h \in {"create", "reactivate", "rotate"}
    /\ label = "store" => h = "create"
    /\ label \in {"list", "delete"} => h \in {"suspend", "rotate", "revoke"}
    /\ label = "mark" => h \in {"suspend", "reactivate", "revoke"}

Created(a) == \E q \in Ops : handler[q] = "create" /\ agent[q] = a

Placed(o) ==
    /\ agent[o] \in Agents /\ handler[o] \in Handlers
    /\ Fits(pc[o], handler[o])
    /\ pc[o] # "fetch" => Created(agent[o])

Orderly ==
    /\ TypeOK
    /\ \A o \in Active : Placed(o)
    /\ \A k \in keys : /\ pc[k] \notin {"idle", "fetch", "mint"}
                       /\ agent[k] \in Agents /\ Created(agent[k])
    /\ \A o \in Ops : \A k \in targets[o] : pc[k] # "idle" /\ agent[k] = agent[o]
    /\ \A o \in Ops : pc[o] = "idle" => targets[o] = {} /\ handler[o] = "none"
    /\ \A a \in Agents : status[a] # "none" => Created(a)

---------------------------------------------------------------------------
LEMMA OrderlyInit == Init => Orderly
BY IdentityAssumption DEF Init, Orderly, TypeOK, Active, Handlers

LEMMA OrderlyArrivals ==
    ASSUME Orderly, NEW o \in Ops, Arrivals(o)
    PROVE  Orderly'
<1>1. PICK h \in Handlers, a \in Agents \cup {NoAgent}, l \in {"mint", "fetch", "done"} :
        /\ Arrive(o, h, a)
        /\ pc' = [pc EXCEPT ![o] = l]
        /\ l # "done" => a \in Agents /\ Fits(l, h) /\ (l # "fetch" => h = "create")
        /\ answer' \in [Ops -> Answers]
    <2>1. CASE Unauthorized(o)
        BY <2>1 DEF Unauthorized, Reply, Goto, Handlers, Orderly, TypeOK, Answers
    <2>2. ASSUME NEW a \in Agents, NEW h \in Handlers, Start(o, h, a)
          PROVE  /\ Arrive(o, h, a)
                 /\ pc' = [pc EXCEPT ![o] = IF h = "create" THEN "mint" ELSE "fetch"]
                 /\ Fits(IF h = "create" THEN "mint" ELSE "fetch", h)
                 /\ answer' \in [Ops -> Answers]
        BY <2>2 DEF Start, Continue, Goto, Fits, Handlers, Orderly, TypeOK, Answers
    <2> QED BY <2>1, <2>2 DEF Arrivals
<1>2. /\ pc[o] = "idle" /\ UNCHANGED <<status, keys, targets, failures>>
      /\ handler' = [handler EXCEPT ![o] = h] /\ agent' = [agent EXCEPT ![o] = a]
    BY <1>1 DEF Arrive
<1>3. TypeOK'
    BY <1>1, <1>2 DEF Orderly, TypeOK, Answers
<1>4. ASSUME NEW b, Created(b), b \in Agents
      PROVE  Created(b)'
    <2>1. PICK q \in Ops : handler[q] = "create" /\ agent[q] = b
        BY <1>4 DEF Created
    <2>2. q # o
        BY <1>2, <2>1 DEF Orderly
    <2> QED BY <1>2, <2>1, <2>2 DEF Created, Orderly, TypeOK
<1>5. ASSUME NEW q \in Active'
      PROVE  Placed(q)'
    <2>1. CASE q = o
        <3>1. pc'[o] = l /\ handler'[o] = h /\ agent'[o] = a /\ l # "done"
            BY <1>1, <1>2, <1>5, <2>1 DEF Active, Orderly, TypeOK
        <3>2. h = "create" => Created(a)'
            BY <3>1 DEF Created
        <3> QED BY <1>1, <2>1, <3>1, <3>2 DEF Placed
    <2>2. CASE q # o
        <3>1. q \in Active /\ pc'[q] = pc[q] /\ handler'[q] = handler[q] /\ agent'[q] = agent[q]
            BY <1>1, <1>2, <1>5, <2>2 DEF Active, Orderly, TypeOK
        <3>2. Placed(q)
            BY <3>1 DEF Orderly
        <3> QED BY <1>4, <3>1, <3>2 DEF Placed
    <2> QED BY <2>1, <2>2
<1>6. ASSUME NEW k \in keys
      PROVE  pc'[k] = pc[k] /\ agent'[k] = agent[k] /\ k \in Ops /\ k # o
    BY <1>1, <1>2 DEF Orderly, TypeOK
<1>7. ASSUME NEW q \in Ops, NEW k \in targets[q]
      PROVE  pc'[k] # "idle" /\ agent'[k] = agent'[q]
    <2>1. q # o /\ k # o /\ k \in Ops
        BY <1>2 DEF Orderly, TypeOK
    <2> QED BY <1>1, <1>2, <2>1 DEF Orderly, TypeOK
<1>8. \A q \in Ops : pc'[q] = "idle" => targets'[q] = {} /\ handler'[q] = "none"
    BY <1>1, <1>2 DEF Orderly, TypeOK
<1>9. \A k \in keys' : /\ pc'[k] \notin {"idle", "fetch", "mint"}
                       /\ agent'[k] \in Agents /\ Created(agent[k])'
    BY <1>2, <1>4, <1>6 DEF Orderly
<1>10. \A b \in Agents : status'[b] # "none" => Created(b)'
    BY <1>2, <1>4 DEF Orderly
<1> QED BY <1>2, <1>3, <1>5, <1>7, <1>8, <1>9, <1>10 DEF Orderly

\* A call of a request under way, whatever it does.
LEMMA OrderlyCall ==
    ASSUME Orderly, NEW o \in Active, NEW l \in Labels \ {"idle", "fetch"}, NEW T \in SUBSET Ops,
           pc' = [pc EXCEPT ![o] = l], UNCHANGED <<handler, agent>>,
           l # "done" => Fits(l, handler[o]) /\ Created(agent[o]),
           status' \in [Agents -> Statuses],
           \A a \in Agents : status'[a] # status[a] => Created(a),
           keys' \subseteq keys \cup {o}, o \in keys' => l # "mint" /\ Created(agent[o]),
           targets' = [targets EXCEPT ![o] = T],
           \A k \in T : pc[k] # "idle" /\ agent[k] = agent[o],
           answer' \in [Ops -> Answers], failures' \in Nat
    PROVE  Orderly'
<1>1. TypeOK'
    BY DEF Orderly, TypeOK, Active, Labels, Statuses, Answers
<1>2. \A a : Created(a)' <=> Created(a)
    BY DEF Created
<1>3. ASSUME NEW q \in Active'
      PROVE  Placed(q)'
    <2>1. CASE q = o
        <3>1. Placed(o) /\ pc'[o] = l /\ l # "done"
            BY <1>3, <2>1 DEF Orderly, TypeOK, Active
        <3> QED BY <1>2, <2>1, <3>1 DEF Placed
    <2>2. CASE q # o
        <3>1. q \in Active /\ pc'[q] = pc[q]
            BY <1>3, <2>2 DEF Orderly, TypeOK, Active
        <3>2. Placed(q)
            BY <3>1 DEF Orderly
        <3> QED BY <1>2, <3>1, <3>2 DEF Placed
    <2> QED BY <2>1, <2>2
<1>4. Placed(o) /\ o \in Ops
    BY DEF Orderly, Active
<1>5. \A k \in keys' : /\ pc'[k] \notin {"idle", "fetch", "mint"}
                       /\ agent'[k] \in Agents /\ Created(agent[k])'
    <2> TAKE k \in keys'
    <2>1. CASE k = o
        BY <1>2, <1>4, <2>1 DEF Placed, Orderly, TypeOK, Labels
    <2>2. CASE k # o
        <3>1. k \in keys /\ pc'[k] = pc[k]
            BY <2>2 DEF Orderly, TypeOK
        <3> QED BY <1>2, <3>1 DEF Orderly
    <2> QED BY <2>1, <2>2
<1>6. \A q \in Ops : \A k \in targets'[q] : pc'[k] # "idle" /\ agent'[k] = agent'[q]
    <2> TAKE q \in Ops
    <2> TAKE k \in targets'[q]
    <2>1. k \in Ops /\ pc[k] # "idle" /\ agent[k] = agent[q]
        BY <1>4 DEF Orderly, TypeOK
    <2> QED BY <1>4, <2>1 DEF Orderly, TypeOK
<1>7. \A q \in Ops : pc'[q] = "idle" => targets'[q] = {} /\ handler'[q] = "none"
    BY <1>4 DEF Orderly, TypeOK
<1>8. \A a \in Agents : status'[a] # "none" => Created(a)'
    BY <1>2 DEF Orderly
<1> QED BY <1>1, <1>3, <1>5, <1>6, <1>7, <1>8 DEF Orderly

\* A call that ends its request and writes no record.
LEMMA OrderlyEnd ==
    ASSUME Orderly, NEW o \in Active, NEW code \in Answers,
           Goto(o, "done"), answer' = [answer EXCEPT ![o] = code],
           UNCHANGED <<status, handler, agent, targets>>,
           keys' \subseteq keys \cup {o}, o \in keys' => Created(agent[o]), failures' \in Nat
    PROVE  Orderly'
<1>1. /\ targets[o] \in SUBSET Ops /\ targets' = [targets EXCEPT ![o] = targets[o]]
      /\ \A k \in targets[o] : pc[k] # "idle" /\ agent[k] = agent[o]
      /\ status' \in [Agents -> Statuses] /\ answer' \in [Ops -> Answers]
    BY DEF Orderly, TypeOK, Active, Statuses, Answers
<1>2. "done" \in Labels \ {"idle", "fetch"} /\ pc' = [pc EXCEPT ![o] = "done"]
    BY DEF Labels, Goto
<1> QED BY <1>1, <1>2, OrderlyCall

LEMMA OrderlyCalls ==
    ASSUME Orderly, OwnAliases, NEW o \in Ops, Calls(o)
    PROVE  Orderly'
<1> USE DEF Goto, Reply, Continue, Failure
<1>0. /\ o \in Active /\ Placed(o) /\ agent[o] \in Agents /\ handler[o] \in Handlers
      /\ targets[o] \in SUBSET Ops /\ targets = [targets EXCEPT ![o] = targets[o]]
      /\ \A k \in targets[o] : pc[k] # "idle" /\ agent[k] = agent[o]
    <2>1. o \in Active
        BY DEF Calls, Fetch, FetchFails, Mint, MintFails, Store, StoreFails, List, ListRefused,
               ListFails, Delete, DeleteRefused, DeleteFails, Mark, MarkFails, StatementFails,
               Active
    <2> QED BY <2>1 DEF Orderly, TypeOK, Placed
<1>a. pc[o] = "fetch" /\ status[agent[o]] # "none" => Created(agent[o])
    BY <1>0 DEF Orderly
<1>b. pc[o] # "fetch" => Created(agent[o])
    BY <1>0 DEF Placed
<1>c. /\ handler[o] = "suspend" => Accepts(handler[o]) = {"active"}
      /\ handler[o] = "rotate" => Accepts(handler[o]) = {"active"}
      /\ handler[o] = "reactivate" => Accepts(handler[o]) = {"suspended"}
      /\ handler[o] = "revoke" => Accepts(handler[o]) = {"active", "suspended"}
    BY DEF Accepts
<1>d. /\ status \in [Agents -> Statuses] /\ answer \in [Ops -> Answers] /\ failures \in Nat
      /\ o \in keys => pc[o] \notin {"fetch", "mint"}
      /\ \A code \in Answers : [answer EXCEPT ![o] = code] \in [Ops -> Answers]
    BY DEF Orderly, TypeOK, Statuses, Answers
<1>1. CASE Fetch(o)
    <2>1. CASE pc' = [pc EXCEPT ![o] = "done"] /\ answer' \in [Ops -> Answers]
        BY <1>1, <1>0, <1>b, <1>d, <2>1, OrderlyCall DEF Fetch, Labels
    <2>2. CASE status[agent[o]] \in Accepts(handler[o]) /\ Continue(o, AfterFetch(handler[o]))
        <3>1. /\ AfterFetch(handler[o]) \in {"list", "mint"}
              /\ Fits(AfterFetch(handler[o]), handler[o])
              /\ Created(agent[o])
            BY <1>1, <1>0, <1>a, <1>c, <2>2 DEF Fetch, AfterFetch, Placed, Fits
        <3> QED BY <1>1, <1>0, <1>d, <2>2, <3>1, OrderlyCall DEF Fetch, Labels
    <2> QED BY <1>1, <1>d, <2>1, <2>2 DEF Fetch, Answers
<1>2. CASE FetchFails(o)
    <2>1. "500" \in Answers /\ o \notin keys
        BY <1>2, <1>d DEF FetchFails, Answers
    <2>2. failures' \in Nat /\ keys' = keys /\ UNCHANGED <<status, handler, agent, targets>>
        BY <1>2, <1>d DEF FetchFails
    <2>3. pc' = [pc EXCEPT ![o] = "done"] /\ answer' = [answer EXCEPT ![o] = "500"]
        BY <1>2 DEF FetchFails
    <2>4. keys' \subseteq keys \cup {o} /\ (o \in keys' => Created(agent[o]))
        BY <2>1, <2>2
    <2> QED BY <1>0, <2>1, <2>2, <2>3, <2>4, OrderlyEnd
<1>3. CASE Mint(o)
    <2>1. /\ AfterMint(handler[o]) \in {"store", "mark", "list"}
          /\ Fits(AfterMint(handler[o]), handler[o])
        BY <1>3, <1>0 DEF Mint, Placed, Fits, AfterMint
    <2> QED BY <1>3, <1>0, <1>b, <1>d, <2>1, OrderlyCall DEF Mint, Labels
<1>4. CASE MintFails(o)
    <2>1. PICK code \in Answers : Reply(o, code)
        BY <1>4 DEF MintFails, Answers
    <2>2. failures' \in Nat /\ UNCHANGED <<status, handler, agent, targets>>
        BY <1>4, <1>d DEF MintFails
    <2>3. pc' = [pc EXCEPT ![o] = "done"] /\ answer' = [answer EXCEPT ![o] = code]
        BY <2>1
    <2>4. keys' \subseteq keys \cup {o} /\ (o \in keys' => Created(agent[o]))
        BY <1>4, <1>b DEF MintFails
    <2> QED BY <1>0, <2>2, <2>3, <2>4, OrderlyEnd
<1>5. CASE Store(o) \/ StoreFails(o)
    BY <1>5, <1>0, <1>b, <1>d, OrderlyCall DEF Store, StoreFails, Labels, Statuses, Answers
<1>6. ASSUME pc[o] \in {"list", "delete"}, NEW rest, AfterDeletes(o, rest)
      PROVE  \E l \in {"delete", "mark", "done"} :
               /\ pc' = [pc EXCEPT ![o] = l]
               /\ l # "done" => Fits(l, handler[o])
               /\ answer' \in [Ops -> Answers]
    <2>1. Fits(pc[o], handler[o])
        BY <1>0 DEF Placed
    <2> QED BY <1>d, <1>6, <2>1 DEF AfterDeletes, Fits, Answers
<1>7. \A k \in Listed(agent[o]) : k \in Ops /\ pc[k] # "idle" /\ agent[k] \in Agents
    BY DEF Listed, Orderly, TypeOK
<1>8. CASE List(o)
    <2>1. PICK picked \in Selections(o) :
            targets' = [targets EXCEPT ![o] = picked] /\ AfterDeletes(o, picked)
        BY <1>8 DEF List
    <2>2. picked \subseteq Listed(agent[o])
        BY <1>8 DEF Selections
    <2>3. picked \in SUBSET Ops /\ \A k \in picked : pc[k] # "idle" /\ agent[k] = agent[o]
        BY <1>0, <1>7, <2>2 DEF Listed, OwnAliases
    <2>4. PICK l \in {"delete", "mark", "done"} :
            /\ pc' = [pc EXCEPT ![o] = l]
            /\ l # "done" => Fits(l, handler[o])
            /\ answer' \in [Ops -> Answers]
        BY <1>6, <1>8, <2>1 DEF List
    <2>5. UNCHANGED <<status, keys, handler, agent, failures>> /\ pc[o] = "list"
        BY <1>8 DEF List
    <2>6. l \in Labels \ {"idle", "fetch"} /\ l # "mint"
        BY DEF Labels
    <2>7. l # "done" => Fits(l, handler[o]) /\ Created(agent[o])
        BY <1>b, <2>4, <2>5
    <2>8. /\ status' \in [Agents -> Statuses] /\ \A a \in Agents : status'[a] = status[a]
          /\ keys' \subseteq keys \cup {o} /\ (o \in keys' => l # "mint" /\ Created(agent[o]))
          /\ failures' \in Nat
        BY <1>b, <1>d, <2>5, <2>6
    <2> QED BY <1>0, <2>1, <2>3, <2>4, <2>5, <2>6, <2>7, <2>8, OrderlyCall
<1>9. CASE ListRefused(o)
    <2>1. PICK l \in {"delete", "mark", "done"} :
            /\ pc' = [pc EXCEPT ![o] = l]
            /\ l # "done" => Fits(l, handler[o])
            /\ answer' \in [Ops -> Answers]
        BY <1>6, <1>9 DEF ListRefused
    <2>2. /\ UNCHANGED <<status, keys, handler, agent, targets>> /\ pc[o] = "list"
          /\ failures' \in Nat
        BY <1>9, <1>d DEF ListRefused
    <2>3. l \in Labels \ {"idle", "fetch"} /\ l # "mint"
        BY DEF Labels
    <2>4. l # "done" => Fits(l, handler[o]) /\ Created(agent[o])
        BY <1>b, <2>1, <2>2
    <2>5. /\ status' \in [Agents -> Statuses] /\ \A a \in Agents : status'[a] = status[a]
          /\ keys' \subseteq keys \cup {o} /\ (o \in keys' => l # "mint" /\ Created(agent[o]))
        BY <1>b, <1>d, <2>2, <2>3
    <2>6. targets' = [targets EXCEPT ![o] = targets[o]]
        BY <1>0, <2>2
    <2> QED BY <1>0, <2>1, <2>2, <2>3, <2>4, <2>5, <2>6, OrderlyCall
<1>10. CASE ListFails(o)
    <2>1. "500" \in Answers
        BY DEF Answers
    <2>2. failures' \in Nat /\ UNCHANGED <<status, keys, handler, agent, targets>>
        BY <1>10, <1>d DEF ListFails
    <2>3. pc' = [pc EXCEPT ![o] = "done"] /\ answer' = [answer EXCEPT ![o] = "500"]
        BY <1>10 DEF ListFails
    <2>4. keys' \subseteq keys \cup {o} /\ (o \in keys' => Created(agent[o]))
        BY <1>10, <1>b DEF ListFails
    <2> QED BY <1>0, <2>1, <2>2, <2>3, <2>4, OrderlyEnd
<1>11. ASSUME NEW k \in Ops, Delete(o, k) \/ DeleteRefused(o, k)
       PROVE  Orderly'
    <2>1. PICK l \in {"delete", "mark", "done"} :
            /\ pc' = [pc EXCEPT ![o] = l]
            /\ l # "done" => Fits(l, handler[o])
            /\ answer' \in [Ops -> Answers]
        BY <1>6, <1>11 DEF Delete, DeleteRefused
    <2>2. /\ targets' = [targets EXCEPT ![o] = targets[o] \ {k}]
          /\ targets[o] \ {k} \in SUBSET Ops
          /\ \A q \in targets[o] \ {k} : pc[q] # "idle" /\ agent[q] = agent[o]
        BY <1>0, <1>11 DEF Delete, DeleteRefused
    <2>3. failures' \in Nat /\ keys' \subseteq keys /\ pc[o] = "delete"
          /\ UNCHANGED <<status, handler, agent>>
        BY <1>d, <1>11 DEF Delete, DeleteRefused
    <2>4. l \in Labels \ {"idle", "fetch"} /\ l # "mint"
        BY DEF Labels
    <2>5. status' \in [Agents -> Statuses] /\ keys' \subseteq keys \cup {o}
        BY <1>d, <2>3
    <2>6. o \in keys' => l # "mint" /\ Created(agent[o])
        BY <1>b, <2>3, <2>4
    <2>7. l # "done" => Fits(l, handler[o]) /\ Created(agent[o])
        BY <1>b, <2>1, <2>3
    <2>8. \A a \in Agents : status'[a] = status[a]
        BY <2>3
    <2> QED BY <1>0, <2>1, <2>2, <2>3, <2>4, <2>5, <2>6, <2>7, <2>8, OrderlyCall
<1>12. ASSUME NEW k \in Ops, DeleteFails(o, k)
       PROVE  Orderly'
    <2>1. "500" \in Answers
        BY DEF Answers
    <2>2. failures' \in Nat /\ UNCHANGED <<status, handler, agent, targets>>
        BY <1>12, <1>d DEF DeleteFails
    <2>3. pc' = [pc EXCEPT ![o] = "done"] /\ answer' = [answer EXCEPT ![o] = "500"]
        BY <1>12 DEF DeleteFails
    <2>4. keys' \subseteq keys \cup {o} /\ (o \in keys' => Created(agent[o]))
        BY <1>12, <1>b DEF DeleteFails
    <2> QED BY <1>0, <2>1, <2>2, <2>3, <2>4, OrderlyEnd
<1>13. CASE Mark(o) \/ MarkFails(o) \/ StatementFails(o)
    <2>1. pc[o] = "mark" => NewStatus(handler[o]) \in Statuses
        BY <1>0 DEF Placed, Fits, NewStatus, Statuses
    <2>2. /\ status' \in [Agents -> Statuses]
          /\ \A a \in Agents : status'[a] # status[a] => a = agent[o]
        BY <1>13, <1>0, <1>d, <2>1 DEF Mark, MarkFails, StatementFails
    <2>3. /\ pc' = [pc EXCEPT ![o] = "done"] /\ UNCHANGED <<handler, agent, keys, targets>>
          /\ answer' \in [Ops -> Answers] /\ failures' \in Nat /\ pc[o] # "fetch"
        BY <1>13, <1>d DEF Mark, MarkFails, StatementFails, Answers
    <2> QED BY <1>0, <1>b, <2>2, <2>3, OrderlyCall DEF Labels
<1> QED BY <1>1, <1>2, <1>3, <1>4, <1>5, <1>8, <1>9, <1>10, <1>11, <1>12, <1>13 DEF Calls

LEMMA OrderlyNext == Orderly /\ OwnAliases /\ [Next]_vars => Orderly'
<1> SUFFICES ASSUME Orderly, OwnAliases, [Next]_vars PROVE Orderly'
    OBVIOUS
<1>1. ASSUME NEW k \in Ops, Expire(k) PROVE Orderly'
    BY <1>1 DEF Expire, Orderly, TypeOK, Active, Placed, Created
<1>2. CASE UNCHANGED vars
    BY <1>2 DEF vars, Orderly, TypeOK, Active, Placed, Created
<1> QED BY <1>1, <1>2, OrderlyArrivals, OrderlyCalls DEF Next

---------------------------------------------------------------------------
(* One request at a time for an agent. *)

Alone == \A o, q \in Active : agent[o] = agent[q] => o = q

\* The statuses a request under way has found in the record of its agent.
Expected(o) == IF handler[o] = "create" THEN {"none"} ELSE Accepts(handler[o])

\* They are still there, and so is the key that a rotation has minted.
Known(o) ==
    /\ pc[o] # "fetch" => status[agent[o]] \in Expected(o)
    /\ handler[o] = "rotate" =>
         /\ pc[o] \in {"list", "delete"} => o \in keys
         /\ pc[o] = "delete" => o \notin targets[o]

AtMostOne(S) == \A x, y \in S : x = y

\* The keys of an agent fit its record.
Settled(a) ==
    /\ status[a] # "active" => KeysOf(a) = {}
    /\ AtMostOne(KeysOf(a))
    /\ status[a] = "active" /\ a \notin Ephemeral => KeysOf(a) # {}

\* The keys of its agent while a request is under way.
Phase(o) ==
    LET held == KeysOf(agent[o])
    IN  /\ pc[o] = "fetch" => Settled(agent[o])
        /\ pc[o] = "mint" => IF handler[o] = "rotate" THEN AtMostOne(held) ELSE held = {}
        /\ pc[o] = "store" => held \subseteq {o} /\ (agent[o] \notin Ephemeral => held = {o})
        /\ pc[o] = "list" => IF handler[o] = "rotate" THEN AtMostOne(held \ {o})
                             ELSE AtMostOne(held)
        /\ pc[o] = "delete" => held \ targets[o] = IF handler[o] = "rotate" THEN {o} ELSE {}
        /\ pc[o] = "mark" => held = IF handler[o] = "reactivate" THEN {o} ELSE {}

Balanced ==
    /\ \A a \in Agents : Quiet(a) => Settled(a)
    /\ \A o \in Active : Phase(o)

Knowing == Alone /\ \A o \in Active : Known(o)

Serial == Orderly /\ Knowing /\ (failures = 0 => Balanced)

LEMMA SerialInit == Init => Serial
<1> SUFFICES ASSUME Init PROVE Serial
    OBVIOUS
<1>1. Active = {} /\ keys = {}
    BY DEF Init, Active
<1>2. \A a \in Agents : status[a] = "none"
    BY DEF Init
<1> QED BY <1>1, <1>2, OrderlyInit DEF Serial, Knowing, Alone, Balanced, Settled, AtMostOne, KeysOf

LEMMA SerialArrivals ==
    ASSUME Serial, SerialPerAgent, NEW o \in Ops, Arrivals(o)
    PROVE  Serial'
<1>0. Orderly'
    BY OrderlyArrivals DEF Serial
<1>1. /\ pc[o] = "idle" /\ o \notin Active /\ o \notin keys
      /\ UNCHANGED <<status, keys, targets, failures>>
      /\ \A k \in keys : agent'[k] = agent[k]
      /\ \A q \in Active : /\ q # o /\ q \in Active' /\ pc'[q] = pc[q]
                           /\ handler'[q] = handler[q] /\ agent'[q] = agent[q]
      /\ \A q \in Active' : q # o => q \in Active
    BY DEF Arrivals, Unauthorized, Start, Arrive, Reply, Continue, Goto, Serial, Orderly, TypeOK,
           Active
<1>2. \A a : KeysOf(a)' = KeysOf(a)
    BY <1>1 DEF KeysOf
<1>3. ASSUME NEW q \in Active
      PROVE  Known(q)' /\ (failures = 0 => Phase(q)')
    <2>1. Known(q) /\ (failures = 0 => Phase(q))
        BY DEF Serial, Knowing, Balanced
    <2> QED BY <1>1, <1>2, <2>1 DEF Known, Expected, Phase, Settled
<1>4. \A a \in Agents : Settled(a)' <=> Settled(a)
    BY <1>1, <1>2 DEF Settled
<1>5. ASSUME NEW a \in Agents, Quiet(a)', failures = 0
      PROVE  Settled(a)'
    <2>1. Quiet(a)
        BY <1>1, <1>5 DEF Quiet, ActiveOn
    <2> QED BY <1>4, <1>5, <2>1 DEF Serial, Balanced
<1>6. CASE Unauthorized(o)
    <2>1. o \notin Active'
        BY <1>6 DEF Unauthorized, Reply, Goto, Active, Serial, Orderly, TypeOK
    <2> QED BY <1>0, <1>1, <1>3, <1>5, <2>1 DEF Serial, Knowing, Alone, Balanced
<1>7. ASSUME NEW a \in Agents, NEW h \in Handlers, Start(o, h, a)
      PROVE  Serial'
    <2>1. /\ pc'[o] = IF h = "create" THEN "mint" ELSE "fetch"
          /\ handler'[o] = h /\ agent'[o] = a
          /\ ActiveOn(a) = {}
          /\ h = "create" => ~Created(a)
        BY <1>7 DEF Start, Arrive, Continue, Goto, Created, Serial, Orderly, TypeOK
    <2>2. Alone'
        BY <1>1, <2>1 DEF Alone, ActiveOn, Serial, Knowing
    <2>3. h = "create" => status[a] = "none" /\ KeysOf(a) = {}
        BY <2>1 DEF Serial, Orderly, KeysOf
    <2>4. Known(o)'
        BY <1>1, <2>1, <2>3 DEF Known, Expected
    <2>5. failures = 0 => Settled(a)
        BY <2>1 DEF Serial, Balanced, Quiet
    <2>6. failures = 0 => Phase(o)'
        BY <1>1, <1>2, <1>4, <2>1, <2>3, <2>5 DEF Phase
    <2> QED BY <1>0, <1>1, <1>3, <1>5, <2>2, <2>4, <2>6 DEF Serial, Knowing, Balanced
<1> QED BY <1>6, <1>7 DEF Arrivals

\* A call of a request under way touches nothing of the other agents.
LEMMA SerialCall ==
    ASSUME Serial, Orderly', NEW o \in Active, NEW l \in Labels \ {"idle"},
           pc' = [pc EXCEPT ![o] = l], UNCHANGED <<handler, agent>>,
           \A a \in Agents : a # agent[o] => status'[a] = status[a],
           \A k \in Ops : agent[k] # agent[o] => (k \in keys' <=> k \in keys),
           \A q \in Ops : q # o => targets'[q] = targets[q],
           l # "done" => Known(o)',
           failures' = 0 => failures = 0 /\ IF l = "done" THEN Settled(agent[o])' ELSE Phase(o)'
    PROVE  Serial'
<1>1. /\ o \in Ops /\ pc'[o] = l /\ \A q \in Ops : q # o => pc'[q] = pc[q]
      /\ \A q \in Active : agent[q] \in Agents
    BY DEF Serial, Orderly, TypeOK, Active, Placed
<1>2. /\ \A q \in Active' : q \in Active
      /\ \A q \in Active : q # o => q \in Active' /\ agent[q] # agent[o]
      /\ o \in Active' <=> l # "done"
    BY <1>1 DEF Active, Labels, Serial, Knowing, Alone
<1>3. ASSUME NEW a \in Agents, a # agent[o]
      PROVE  KeysOf(a)' = KeysOf(a) /\ (Settled(a)' <=> Settled(a))
    <2>1. keys \subseteq Ops /\ keys' \subseteq Ops
        BY DEF Serial, Orderly, TypeOK
    <2>2. KeysOf(a)' = KeysOf(a)
        BY <1>3, <2>1 DEF KeysOf
    <2> QED BY <1>3, <2>2 DEF Settled
<1>4. ASSUME NEW q \in Active, q # o
      PROVE  Known(q)' /\ (failures = 0 => Phase(q)')
    <2>1. Known(q) /\ (failures = 0 => Phase(q))
        BY DEF Serial, Knowing, Balanced
    <2>2. /\ q \in Ops /\ pc'[q] = pc[q] /\ handler'[q] = handler[q] /\ agent'[q] = agent[q]
          /\ targets'[q] = targets[q] /\ agent[q] \in Agents /\ agent[q] # agent[o]
          /\ status'[agent[q]] = status[agent[q]] /\ (q \in keys' <=> q \in keys)
        BY <1>1, <1>2, <1>4 DEF Active
    <2>3. KeysOf(agent[q])' = KeysOf(agent[q]) /\ (Settled(agent[q])' <=> Settled(agent[q]))
        BY <1>3, <2>2
    <2> QED BY <2>1, <2>2, <2>3 DEF Known, Expected, Phase
<1>5. Knowing'
    BY <1>1, <1>2, <1>4 DEF Serial, Knowing, Alone
<1>6. ASSUME failures' = 0
      PROVE  Balanced'
    <2>1. ASSUME NEW a \in Agents, Quiet(a)'
          PROVE  Settled(a)'
        <3>1. CASE a = agent[o]
            <4>1. l = "done"
                BY <1>1, <1>2, <2>1, <3>1 DEF Quiet, ActiveOn
            <4> QED BY <1>6, <3>1, <4>1
        <3>2. CASE a # agent[o]
            <4>1. Quiet(a)
                BY <1>2, <2>1, <3>2 DEF Quiet, ActiveOn
            <4> QED BY <1>3, <1>6, <3>2, <4>1 DEF Serial, Balanced
        <3> QED BY <3>1, <3>2
    <2>2. \A q \in Active' : Phase(q)'
        BY <1>2, <1>4, <1>6
    <2> QED BY <2>1, <2>2 DEF Balanced
<1> QED BY <1>5, <1>6 DEF Serial

LEMMA ExpireKeepsSerial ==
    ASSUME Serial, NEW k \in Ops, Expire(k)
    PROVE  Knowing' /\ (failures' = 0 => Balanced')
<1>1. /\ k \in keys /\ keys' = keys \ {k} /\ handler[k] = "create" /\ agent[k] \in Ephemeral
      /\ UNCHANGED <<status, pc, handler, agent, targets, answer, failures>>
    BY DEF Expire, Expiring
<1>2. Active' = Active /\ \A a : Quiet(a)' <=> Quiet(a)
    BY <1>1 DEF Active, Quiet, ActiveOn
<1>3. \A a : /\ KeysOf(a)' = KeysOf(a) \ {k}
             /\ a \notin Ephemeral => KeysOf(a)' = KeysOf(a)
    BY <1>1 DEF KeysOf
<1>4. ASSUME NEW a, Settled(a)
      PROVE  Settled(a)'
    BY <1>1, <1>3, <1>4 DEF Settled, AtMostOne
<1>5. ASSUME NEW o \in Active, Known(o)
      PROVE  Known(o)'
    BY <1>1, <1>5 DEF Known, Expected
<1>6. ASSUME NEW o \in Active, Known(o), Phase(o)
      PROVE  Phase(o)'
    <2>1. Fits(pc[o], handler[o]) /\ o \in Ops
        BY DEF Serial, Orderly, Placed, Active
    <2>2. pc[o] # "store" /\ handler[o] # "create" => o # k
        BY <1>1
    <2>3. /\ pc[o] = "fetch" => Phase(o)'
          /\ pc[o] \in {"mint", "store", "list"} => Phase(o)'
        BY <1>1, <1>3, <1>4, <1>6 DEF Phase, AtMostOne
    <2>4. pc[o] = "delete" => Phase(o)'
        BY <1>1, <1>3, <1>6, <2>1, <2>2 DEF Phase, Fits
    <2>5. pc[o] = "mark" => Phase(o)'
        BY <1>1, <1>3, <1>6, <2>1, <2>2 DEF Phase, Fits
    <2>6. pc[o] \in Labels \ {"idle", "done"}
        BY DEF Serial, Orderly, TypeOK, Active, Labels
    <2> QED BY <2>3, <2>4, <2>5, <2>6 DEF Labels
<1> QED BY <1>1, <1>2, <1>4, <1>5, <1>6 DEF Serial, Knowing, Alone, Balanced

LEMMA SerialCalls ==
    ASSUME Serial, OwnAliases, NEW o \in Ops, Calls(o)
    PROVE  Serial'
<1> USE DEF Goto, Reply, Continue, Failure
<1> DEFINE a == agent[o]
           held == KeysOf(a)
<1>0. Orderly'
    BY OrderlyCalls DEF Serial
<1>a. /\ o \in Active /\ Placed(o) /\ a \in Agents /\ Known(o) /\ (failures = 0 => Phase(o))
      /\ failures \in Nat /\ status \in [Agents -> Statuses] /\ pc \in [Ops -> Labels]
      /\ targets \in [Ops -> SUBSET Ops] /\ keys \subseteq Ops
      /\ \A k \in targets[o] : agent[k] = a
    <2>1. o \in Active
        BY DEF Calls, Fetch, FetchFails, Mint, MintFails, Store, StoreFails, List, ListRefused,
               ListFails, Delete, DeleteRefused, DeleteFails, Mark, MarkFails, StatementFails,
               Active
    <2> QED BY <2>1 DEF Serial, Knowing, Balanced, Orderly, TypeOK, Placed, Labels, Statuses
<1>c. /\ handler[o] = "suspend" => Accepts(handler[o]) = {"active"}
      /\ handler[o] = "rotate" => Accepts(handler[o]) = {"active"}
      /\ handler[o] = "reactivate" => Accepts(handler[o]) = {"suspended"}
      /\ handler[o] = "revoke" => Accepts(handler[o]) = {"active", "suspended"}
    BY DEF Accepts
<1>d. failures + 1 # 0 /\ "done" \in Labels \ {"idle"}
    BY <1>a DEF Labels
<1>1. CASE Fetch(o)
    <2>1. /\ UNCHANGED <<status, keys, handler, agent, targets, failures>>
          /\ held' = held /\ Settled(a)' = Settled(a)
          /\ failures = 0 => Settled(a)
        BY <1>1, <1>a DEF Fetch, KeysOf, Settled, Phase
    <2>2. CASE pc' = [pc EXCEPT ![o] = "done"]
        BY <1>0, <1>a, <1>d, <2>1, <2>2, SerialCall
    <2>3. CASE status[a] \in Accepts(handler[o]) /\ Continue(o, AfterFetch(handler[o]))
        <3>1. /\ pc[o] = "fetch" /\ handler[o] \in {"suspend", "reactivate", "rotate", "revoke"}
              /\ AfterFetch(handler[o]) = IF handler[o] \in {"suspend", "revoke"} THEN "list" ELSE "mint"
            BY <1>1, <1>a DEF Fetch, AfterFetch, Placed, Fits
        <3> DEFINE l == AfterFetch(handler[o])
        <3>2. /\ l \in Labels \ {"idle"} /\ l \in {"list", "mint"}
              /\ pc' = [pc EXCEPT ![o] = l] /\ pc'[o] = l
            BY <1>a, <2>3, <3>1 DEF Labels
        <3>3. Known(o)'
            BY <2>1, <2>3, <3>1, <3>2 DEF Known, Expected
        <3>4. failures = 0 => Phase(o)'
            BY <1>c, <2>1, <2>3, <3>1, <3>2 DEF Phase, Settled, AtMostOne
        <3> HIDE DEF l
        <3> QED BY <1>0, <1>a, <2>1, <3>2, <3>3, <3>4, SerialCall
    <2> QED BY <1>1, <2>2, <2>3 DEF Fetch
<1>2. CASE \/ FetchFails(o) \/ MintFails(o) \/ StoreFails(o) \/ ListFails(o)
           \/ MarkFails(o) \/ StatementFails(o) \/ \E k \in Ops : DeleteFails(o, k)
    <2>1. /\ pc' = [pc EXCEPT ![o] = "done"] /\ UNCHANGED <<handler, agent, targets>>
          /\ failures' = failures + 1
        BY <1>2 DEF FetchFails, MintFails, StoreFails, ListFails, MarkFails, StatementFails,
                    DeleteFails
    <2>2. \A b \in Agents : b # a => status'[b] = status[b]
        BY <1>2, <1>a DEF FetchFails, MintFails, StoreFails, ListFails, MarkFails,
                    StatementFails, DeleteFails
    <2>3. \A k \in Ops : agent[k] # a => (k \in keys' <=> k \in keys)
        BY <1>2, <1>a DEF FetchFails, MintFails, StoreFails, ListFails, MarkFails,
                    StatementFails, DeleteFails
    <2> QED BY <1>0, <1>a, <1>d, <2>1, <2>2, <2>3, SerialCall
<1>3. CASE Mint(o)
    <2> DEFINE l == AfterMint(handler[o])
    <2>1. /\ pc[o] = "mint" /\ handler[o] \in {"create", "reactivate", "rotate"}
          /\ handler[o] = "create" => l = "store"
          /\ handler[o] = "reactivate" => l = "mark"
          /\ handler[o] = "rotate" => l = "list"
        BY <1>3, <1>a DEF Mint, Placed, Fits, AfterMint
    <2>2. l \in Labels \ {"idle"} /\ l \in {"store", "mark", "list"}
        BY <2>1 DEF Labels
    <2>3. /\ pc' = [pc EXCEPT ![o] = l] /\ pc'[o] = l
          /\ UNCHANGED <<status, handler, agent, targets, failures>>
          /\ keys' = keys \cup {o} /\ held' = held \cup {o}
        BY <1>3, <1>a DEF Mint, KeysOf
    <2>4. Known(o)'
        BY <1>a, <2>1, <2>2, <2>3 DEF Known, Expected
    <2>5. failures = 0 => Phase(o)'
        BY <1>a, <2>1, <2>2, <2>3 DEF Phase, AtMostOne
    <2> HIDE DEF l
    <2> QED BY <1>0, <1>a, <2>2, <2>3, <2>4, <2>5, SerialCall
<1>4. CASE Store(o)
    <2>1. /\ pc' = [pc EXCEPT ![o] = "done"] /\ UNCHANGED <<keys, handler, agent, targets, failures>>
          /\ status' = [status EXCEPT ![a] = "active"] /\ held' = held /\ pc[o] = "store"
        BY <1>4 DEF Store, KeysOf
    <2>2. failures = 0 => Settled(a)'
        BY <1>a, <2>1 DEF Phase, Settled, AtMostOne
    <2> QED BY <1>0, <1>a, <1>d, <2>1, <2>2, SerialCall
<1>5. CASE Mark(o)
    <2>1. /\ pc' = [pc EXCEPT ![o] = "done"] /\ UNCHANGED <<keys, handler, agent, targets, failures>>
          /\ status' = [status EXCEPT ![a] = NewStatus(handler[o])] /\ held' = held
          /\ pc[o] = "mark" /\ handler[o] \in {"suspend", "reactivate", "revoke"}
        BY <1>5, <1>a DEF Mark, KeysOf, Placed, Fits
    <2>2. NewStatus(handler[o]) = "active" <=> handler[o] = "reactivate"
        BY <2>1 DEF NewStatus
    <2>3. failures = 0 => Settled(a)'
        BY <1>a, <2>1, <2>2 DEF Phase, Settled, AtMostOne
    <2> QED BY <1>0, <1>a, <1>d, <2>1, <2>3, SerialCall
<1>6. ASSUME pc[o] \in {"list", "delete"}, NEW rest, AfterDeletes(o, rest)
      PROVE  \E l \in {"delete", "mark", "done"} :
               /\ pc' = [pc EXCEPT ![o] = l]
               /\ l = "delete" <=> rest # {}
               /\ l = "done" <=> rest = {} /\ handler[o] = "rotate"
               /\ handler[o] \in {"suspend", "rotate", "revoke"}
    BY <1>6, <1>a DEF AfterDeletes, Placed, Fits
<1>7. Listed(a) = held
    BY <1>a DEF Listed, KeysOf, OwnAliases, Serial, Orderly
<1>8. CASE List(o)
    <2>1. PICK picked \in Selections(o) :
            targets' = [targets EXCEPT ![o] = picked] /\ AfterDeletes(o, picked)
        BY <1>8 DEF List
    <2>2. PICK l \in {"delete", "mark", "done"} :
            /\ pc' = [pc EXCEPT ![o] = l]
            /\ l = "delete" <=> picked # {}
            /\ l = "done" <=> picked = {} /\ handler[o] = "rotate"
            /\ handler[o] \in {"suspend", "rotate", "revoke"}
        BY <1>6, <1>8, <2>1 DEF List
    <2>3. /\ UNCHANGED <<status, keys, handler, agent, failures>> /\ pc[o] = "list"
          /\ held' = held /\ pc'[o] = l /\ targets'[o] = picked
        BY <1>8, <1>a, <2>1, <2>2 DEF List, KeysOf
    <2>4. IF handler[o] = "rotate" THEN picked = held \ {o}
          ELSE (picked = {} /\ held = {}) \/ \E k \in held : picked = {k}
        BY <1>7, <2>1 DEF Selections
    <2>5. l # "done" => Known(o)'
        BY <1>a, <2>2, <2>3, <2>4 DEF Known, Expected
    <2>6. failures = 0 => IF l = "done" THEN Settled(a)' ELSE Phase(o)'
        <3> SUFFICES ASSUME failures = 0
                     PROVE  IF l = "done" THEN Settled(a)' ELSE Phase(o)'
            OBVIOUS
        <3>1. handler[o] = "rotate" => o \in held /\ status[a] = "active"
            BY <1>a, <1>c, <2>3 DEF Known, Expected, KeysOf
        <3>2. handler[o] # "rotate" => AtMostOne(held)
            BY <1>a, <2>3 DEF Phase
        <3>3. held \ picked = IF handler[o] = "rotate" THEN {o} ELSE {}
            BY <2>4, <3>1, <3>2 DEF AtMostOne
        <3>4. CASE l = "done"
            <4>1. held = {o} /\ status[a] = "active"
                BY <2>2, <3>1, <3>3, <3>4
            <4> QED BY <2>3, <3>4, <4>1 DEF Settled, AtMostOne
        <3>5. CASE l = "delete"
            BY <2>3, <3>3, <3>5 DEF Phase
        <3>6. CASE l = "mark"
            <4>1. held = {}
                BY <2>2, <3>3, <3>6
            <4>2. handler[o] # "reactivate"
                BY <2>2
            <4> QED BY <2>3, <3>6, <4>1, <4>2 DEF Phase
        <3> QED BY <3>4, <3>5, <3>6
    <2>7. l \in Labels \ {"idle"} /\ \A q \in Ops : q # o => targets'[q] = targets[q]
        BY <1>a, <2>1 DEF Labels
    <2> QED BY <1>0, <1>a, <2>2, <2>3, <2>5, <2>6, <2>7, SerialCall
<1>9. CASE ListRefused(o)
    <2>1. PICK l \in {"delete", "mark", "done"} :
            /\ pc' = [pc EXCEPT ![o] = l]
            /\ l = "delete" <=> {} # {}
            /\ l = "done" <=> {} = {} /\ handler[o] = "rotate"
            /\ handler[o] \in {"suspend", "rotate", "revoke"}
        BY <1>6, <1>9 DEF ListRefused
    <2>2. /\ UNCHANGED <<status, keys, handler, agent, targets>> /\ failures' = failures + 1
          /\ pc'[o] = l /\ pc[o] = "list"
        BY <1>9, <1>a, <2>1 DEF ListRefused
    <2>3. l # "done" => Known(o)'
        BY <1>a, <2>1, <2>2 DEF Known, Expected
    <2>4. l \in Labels \ {"idle"}
        BY DEF Labels
    <2> QED BY <1>0, <1>a, <1>d, <2>1, <2>2, <2>3, <2>4, SerialCall
<1>10. ASSUME NEW k \in Ops, Delete(o, k) \/ DeleteRefused(o, k)
       PROVE  Serial'
    <2> DEFINE rest == targets[o] \ {k}
    <2>1. PICK l \in {"delete", "mark", "done"} :
            /\ pc' = [pc EXCEPT ![o] = l]
            /\ l = "delete" <=> rest # {}
            /\ l = "done" <=> rest = {} /\ handler[o] = "rotate"
            /\ handler[o] \in {"suspend", "rotate", "revoke"}
        BY <1>6, <1>10 DEF Delete, DeleteRefused
    <2>2. /\ UNCHANGED <<status, handler, agent>> /\ pc[o] = "delete" /\ pc'[o] = l
          /\ k \in targets[o] /\ agent[k] = a
          /\ targets' = [targets EXCEPT ![o] = rest] /\ targets'[o] = rest
        BY <1>10, <1>a, <2>1 DEF Delete, DeleteRefused
    <2>3. (keys' = keys \ {k} /\ failures' = failures) \/ (keys' = keys /\ failures' = failures + 1)
        BY <1>10 DEF Delete, DeleteRefused
    <2>4. l # "done" => Known(o)'
        BY <1>a, <2>1, <2>2, <2>3 DEF Known, Expected
    <2>5. failures' = 0 => failures = 0 /\ IF l = "done" THEN Settled(a)' ELSE Phase(o)'
        <3> SUFFICES ASSUME failures' = 0
                     PROVE  failures = 0 /\ IF l = "done" THEN Settled(a)' ELSE Phase(o)'
            OBVIOUS
        <3>1. failures = 0 /\ keys' = keys \ {k}
            BY <1>d, <2>3
        <3>2. held' = held \ {k}
            BY <2>2, <3>1 DEF KeysOf
        <3>3. held \ targets[o] = IF handler[o] = "rotate" THEN {o} ELSE {}
            BY <1>a, <2>2, <3>1 DEF Phase
        <3>4. held' \ rest = IF handler[o] = "rotate" THEN {o} ELSE {}
            BY <2>2, <3>2, <3>3
        <3>5. CASE l = "done"
            <4>1. held' = {o}
                BY <2>1, <3>4, <3>5
            <4>2. status'[a] = "active"
                BY <1>a, <1>c, <2>1, <2>2, <3>5 DEF Known, Expected
            <4> QED BY <2>2, <3>1, <3>5, <4>1, <4>2 DEF Settled, AtMostOne
        <3>6. CASE l = "delete"
            BY <2>2, <3>1, <3>4, <3>6 DEF Phase
        <3>7. CASE l = "mark"
            <4>1. held' = {} /\ handler[o] # "reactivate"
                BY <2>1, <3>4, <3>7
            <4> QED BY <2>2, <3>1, <3>7, <4>1 DEF Phase
        <3> QED BY <3>5, <3>6, <3>7
    <2>6. \A q \in Ops : agent[q] # a => (q \in keys' <=> q \in keys)
        BY <2>2, <2>3
    <2>7. l \in Labels \ {"idle"} /\ \A q \in Ops : q # o => targets'[q] = targets[q]
        BY <1>a, <2>2 DEF Labels
    <2> HIDE DEF rest
    <2> QED BY <1>0, <1>a, <2>1, <2>2, <2>4, <2>5, <2>6, <2>7, SerialCall
<1> QED BY <1>1, <1>2, <1>3, <1>4, <1>5, <1>8, <1>9, <1>10 DEF Calls

LEMMA SerialNext ==
    ASSUME OwnAliases, SerialPerAgent
    PROVE  Serial /\ [Next]_vars => Serial'
<1> SUFFICES ASSUME Serial, [Next]_vars PROVE Serial'
    OBVIOUS
<1>1. ASSUME NEW k \in Ops, Expire(k) PROVE Serial'
    BY <1>1, OrderlyNext, ExpireKeepsSerial DEF Next, Serial
<1>2. CASE UNCHANGED vars
    <2>1. Orderly'
        BY <1>2, OrderlyNext DEF Serial
    <2>2. Knowing' /\ (failures' = 0 => Balanced')
        BY <1>2 DEF vars, Serial, Knowing, Alone, Active, Known, Expected, Balanced, Quiet,
                    ActiveOn, Settled, KeysOf, AtMostOne, Phase
    <2> QED BY <2>1, <2>2 DEF Serial
<1> QED BY <1>1, <1>2, SerialArrivals, SerialCalls DEF Next

---------------------------------------------------------------------------
\* Every variable keeps its type, however requests interleave (agent_identity.py).
THEOREM TypeCorrect == ASSUME OwnAliases PROVE Spec => []TypeOK
<1>1. Orderly => TypeOK
    BY DEF Orderly
<1>2. Orderly /\ [Next]_vars => Orderly'
    BY OrderlyNext
<1> QED BY <1>1, <1>2, OrderlyInit, PTL DEF Spec

\* The record of an agent and its keys agree once no request is busy with it
\* and no call has failed (agent_identity.py).
THEOREM KeysFollowStatus ==
    ASSUME OwnAliases, SerialPerAgent
    PROVE  Spec => []KeyIffActive
<1>1. Serial => KeyIffActive
    <2> SUFFICES ASSUME Serial, NEW a \in Agents, Quiet(a), failures = 0
                 PROVE  /\ status[a] # "active" => KeysOf(a) = {}
                        /\ Cardinality(KeysOf(a)) <= 1
                        /\ status[a] = "active" /\ a \notin Ephemeral => KeysOf(a) # {}
        BY DEF KeyIffActive
    <2>1. Settled(a)
        BY DEF Serial, Balanced
    <2>2. KeysOf(a) = {} \/ \E k : KeysOf(a) = {k}
        BY <2>1 DEF Settled, AtMostOne
    <2>3. Cardinality(KeysOf(a)) <= 1
        BY <2>2, FS_EmptySet, FS_Singleton
    <2> QED BY <2>1, <2>3 DEF Settled
<1>2. Serial /\ [Next]_vars => Serial'
    BY SerialNext
<1> QED BY <1>1, <1>2, SerialInit, PTL DEF Spec

\* As long as no call has failed, whoever minted a key that is in force and has
\* ended has answered with it.
Delivered == failures = 0 => \A k \in keys : pc[k] = "done" => answer[k] = "200"

LEMMA DeliveredCalls ==
    ASSUME OwnAliases, RecordComplete, Orderly, Delivered, NEW o \in Ops, Calls(o)
    PROVE  Delivered'
<1> USE DEF Goto, Reply, Continue, Failure
<1>1. /\ pc[o] # "done" /\ failures \in Nat /\ (o \in keys => pc[o] \notin {"fetch", "mint"})
      /\ pc \in [Ops -> Labels] /\ answer \in [Ops -> Answers] /\ keys \subseteq Ops
    BY DEF Orderly, TypeOK, Labels, Answers, Calls, Fetch, FetchFails, Mint, MintFails, Store,
           StoreFails, List, ListRefused, ListFails, Delete, DeleteRefused, DeleteFails, Mark,
           MarkFails, StatementFails
<1>2. CASE failures' = failures
    <2>1. keys' \subseteq keys \cup {o} /\ \A q \in Ops : q # o => pc'[q] = pc[q] /\ answer'[q] = answer[q]
        BY <1>1, <1>2 DEF Calls, Fetch, FetchFails, Mint, MintFails, Store, StoreFails, List,
             ListRefused, ListFails, Delete, DeleteRefused, DeleteFails, Mark, MarkFails,
             StatementFails, AfterDeletes
    <2>2. o \in keys' /\ pc'[o] = "done" => answer'[o] = "200"
        <3>1. CASE Fetch(o)
            BY <1>1, <3>1 DEF Fetch
        <3>2. CASE Mint(o)
            BY <1>1, <3>2 DEF Mint, AfterMint, Orderly, TypeOK, Placed, Fits, Active
        <3>3. CASE Store(o) \/ Mark(o)
            BY <1>1, <3>3 DEF Store, Mark
        <3>4. ASSUME NEW rest, AfterDeletes(o, rest)
              PROVE  pc'[o] = "done" => answer'[o] = "200"
            BY <1>1, <3>4 DEF AfterDeletes
        <3>5. CASE List(o) \/ \E k \in Ops : Delete(o, k)
            BY <3>4, <3>5 DEF List, Delete
        <3>6. Fetch(o) \/ Mint(o) \/ Store(o) \/ Mark(o) \/ List(o) \/ \E k \in Ops : Delete(o, k)
            <4>1. failures + 1 # failures
                BY <1>1
            <4> QED BY <1>2, <4>1
                    DEF Calls, FetchFails, MintFails, StoreFails, ListRefused, ListFails,
                        DeleteRefused, DeleteFails, MarkFails, StatementFails
        <3> QED BY <3>1, <3>2, <3>3, <3>5, <3>6
    <2> QED BY <1>1, <1>2, <2>1, <2>2 DEF Delivered
<1>3. CASE failures' # failures
    <2>1. failures' = failures + 1
        BY <1>3 DEF Calls, Fetch, FetchFails, Mint, MintFails, Store, StoreFails, List,
             ListRefused, ListFails, Delete, DeleteRefused, DeleteFails, Mark, MarkFails,
             StatementFails
    <2> QED BY <1>1, <2>1 DEF Delivered
<1> QED BY <1>2, <1>3

LEMMA DeliveredNext ==
    ASSUME OwnAliases, RecordComplete
    PROVE  Orderly /\ Delivered /\ [Next]_vars => Delivered'
<1> SUFFICES ASSUME Orderly, Delivered, [Next]_vars PROVE Delivered'
    OBVIOUS
<1>1. ASSUME NEW o \in Ops, Arrivals(o)
      PROVE  Delivered'
    <2>1. /\ pc[o] = "idle" /\ UNCHANGED <<keys, failures>> /\ o \notin keys /\ keys \subseteq Ops
          /\ \A q \in Ops : q # o => pc'[q] = pc[q] /\ answer'[q] = answer[q]
        BY <1>1 DEF Arrivals, Unauthorized, Start, Arrive, Reply, Continue, Goto, Orderly, TypeOK
    <2> QED BY <2>1 DEF Delivered
<1>2. ASSUME NEW k \in Ops, Expire(k)
      PROVE  Delivered'
    BY <1>2 DEF Expire, Delivered
<1>3. CASE UNCHANGED vars
    BY <1>3 DEF vars, Delivered
<1> QED BY <1>1, <1>2, <1>3, DeliveredCalls DEF Next

\* Where the stored record satisfies the response model and no call fails, the key in
\* force was handed to the sponsor (references/agent-identity-spec.md:101), however
\* requests interleave: a lost key is the record's fault alone.
THEOREM KeysAreDelivered ==
    ASSUME OwnAliases, RecordComplete
    PROVE  Spec => []KeyWasDelivered
<1>1. Init => Orderly /\ Delivered
    BY OrderlyInit DEF Init, Delivered
<1>2. (Orderly /\ Delivered) /\ [Next]_vars => (Orderly /\ Delivered)'
    BY OrderlyNext, DeliveredNext
<1>3. Orderly /\ Delivered => KeyWasDelivered
    <2> SUFFICES ASSUME Orderly, Delivered, NEW a \in Agents, Quiet(a), failures = 0,
                        NEW k \in KeysOf(a)
                 PROVE  answer[k] = "200"
        BY DEF KeyWasDelivered
    <2>1. k \in keys /\ k \in Ops /\ agent[k] = a /\ pc[k] # "idle"
        BY DEF KeysOf, Orderly, TypeOK
    <2>2. k \notin Active
        BY <2>1 DEF Quiet, ActiveOn
    <2> QED BY <2>1, <2>2 DEF Active, Delivered
<1> QED BY <1>1, <1>2, <1>3, PTL DEF Spec

\* A revoked agent stays revoked, also when calls fail, as long as clients send
\* one request at a time for it (agent_identity.py:480).
THEOREM RevocationLasts ==
    ASSUME OwnAliases, SerialPerAgent
    PROVE  Spec => RevokedIsFinal
<1>1. ASSUME Serial, [Next]_vars
      PROVE  \A a \in Agents : status[a] = "revoked" => status'[a] = "revoked"
    <2> SUFFICES ASSUME NEW a \in Agents, status[a] = "revoked", status' # status
                 PROVE  status'[a] = "revoked"
        OBVIOUS
    <2>1. PICK o \in Ops : Store(o) \/ StoreFails(o) \/ Mark(o) \/ MarkFails(o)
        BY <1>1 DEF Next, Arrivals, Unauthorized, Start, Arrive, Calls, Fetch, FetchFails, Mint,
                    MintFails, List, ListRefused, ListFails, Delete, DeleteRefused,
                    DeleteFails, StatementFails, Expire, vars
    <2>2. o \in Active /\ pc[o] \in {"store", "mark"}
        BY <2>1 DEF Store, StoreFails, Mark, MarkFails, Active
    <2>3. Placed(o) /\ Known(o)
        BY <1>1, <2>2 DEF Serial, Orderly, Knowing
    <2>4. Expected(o) \in {{"none"}, {"active"}, {"suspended"}, {"active", "suspended"}}
        BY <2>2, <2>3 DEF Expected, Accepts, Placed, Fits
    <2>5. agent[o] # a
        BY <2>2, <2>3, <2>4 DEF Known
    <2>6. status \in [Agents -> Statuses]
        BY <1>1 DEF Serial, Orderly, TypeOK, Statuses
    <2> QED BY <2>1, <2>5, <2>6 DEF Store, StoreFails, Mark, MarkFails
<1>2. Serial /\ [Next]_vars => Serial'
    BY SerialNext
<1>3. Serial /\ [Next]_vars =>
        [\A a \in Agents : status[a] = "revoked" => status'[a] = "revoked"]_vars
    BY <1>1
<1> QED BY <1>2, <1>3, SerialInit, PTL DEF Spec, RevokedIsFinal

\* Where every agent has an alias of its own, a key is deleted by a request about
\* its agent alone, whatever else is under way.  create_agent does not see to it:
\* keys of two agents of one name in a tenant are listed together, and then this
\* does not hold (agent_identity.py:148).
THEOREM DeletionsAreOwn ==
    ASSUME OwnAliases
    PROVE  Spec => NoForeignDelete
<1>1. ASSUME Orderly, Next, NEW k \in keys \ keys'
      PROVE  Expiring(k) \/ \E o \in ActiveOn(agent[k]) : pc[o] = "delete" /\ k \in targets[o]
    <2>1. PICK o \in Ops : \/ Expire(o)
                           \/ \E q \in Ops : Delete(o, q) \/ DeleteFails(o, q)
        BY <1>1 DEF Next, Arrivals, Unauthorized, Start, Arrive, Calls, Fetch, FetchFails, Mint,
                    MintFails, Store, StoreFails, List, ListRefused, ListFails, DeleteRefused,
                    Mark, MarkFails, StatementFails
    <2>2. CASE Expire(o)
        BY <2>2 DEF Expire
    <2>3. ASSUME NEW q \in Ops, Delete(o, q) \/ DeleteFails(o, q)
          PROVE  \E p \in ActiveOn(agent[k]) : pc[p] = "delete" /\ k \in targets[p]
        <3>1. k = q /\ pc[o] = "delete" /\ k \in targets[o]
            BY <2>3 DEF Delete, DeleteFails
        <3>2. agent[k] = agent[o] /\ o \in Active
            BY <1>1, <3>1 DEF Orderly, Active
        <3> QED BY <3>1, <3>2 DEF ActiveOn
    <2> QED BY <2>1, <2>2, <2>3
<1>2. Orderly /\ [Next]_vars => Orderly'
    BY OrderlyNext
<1>3. Orderly /\ [Next]_vars =>
        [\A k \in keys \ keys' :
           Expiring(k) \/ \E o \in ActiveOn(agent[k]) : pc[o] = "delete" /\ k \in targets[o]]_vars
    BY <1>1
<1> QED BY <1>2, <1>3, OrderlyInit, PTL DEF Spec, NoForeignDelete

\* As long as clients send one request at a time for an agent, it loses its last
\* key to a suspension, a revocation or to time, not to a rotation, also when
\* calls fail (agent_identity.py:437).  Rotates that overlap do take it:
\* RotatedHasAKey is violated.
THEOREM RotationKeepsAKey ==
    ASSUME OwnAliases, SerialPerAgent
    PROVE  Spec => ZeroDowntime
<1>1. ASSUME Serial, Next, NEW a \in Agents, KeysOf(a) # {}, KeysOf(a)' = {}
      PROVE  \/ \A o \in ActiveOn(a) : handler[o] \in {"suspend", "revoke"}
             \/ \A k \in KeysOf(a) : Expiring(k)
    <2>0. keys' \subseteq Ops /\ \A k \in keys : agent'[k] = agent[k]
        <3>1. Serial'
            BY <1>1, SerialNext
        <3>2. ASSUME NEW o \in Ops, Arrivals(o)
              PROVE  \A k \in keys : agent'[k] = agent[k]
            BY <1>1, <3>2 DEF Arrivals, Unauthorized, Start, Arrive, Serial, Orderly, TypeOK
        <3>3. ASSUME NEW o \in Ops, Calls(o) \/ Expire(o)
              PROVE  agent' = agent
            BY <3>3 DEF Calls, Fetch, FetchFails, Mint, MintFails, Store, StoreFails, List,
                 ListRefused, ListFails, Delete, DeleteRefused, DeleteFails, Mark, MarkFails,
                 StatementFails, Expire
        <3> QED BY <1>1, <3>1, <3>2, <3>3 DEF Next, Serial, Orderly, TypeOK
    <2>1. \A k \in KeysOf(a) : k \in keys \ keys'
        BY <1>1, <2>0 DEF KeysOf
    <2>2. PICK o \in Ops : \/ Expire(o)
                           \/ \E q \in Ops : Delete(o, q) \/ DeleteFails(o, q)
        BY <1>1, <2>1 DEF Next, Arrivals, Unauthorized, Start, Arrive, Calls, Fetch, FetchFails,
                    Mint, MintFails, Store, StoreFails, List, ListRefused, ListFails,
                    DeleteRefused, Mark, MarkFails, StatementFails
    <2>3. CASE Expire(o)
        BY <2>1, <2>3 DEF Expire
    <2>4. ASSUME NEW q \in Ops, Delete(o, q) \/ DeleteFails(o, q)
          PROVE  \A p \in ActiveOn(a) : handler[p] \in {"suspend", "revoke"}
        <3>1. /\ pc[o] = "delete" /\ o \in Active /\ q \in targets[o]
              /\ \A k \in KeysOf(a) : k = q
            BY <2>1, <2>4 DEF Delete, DeleteFails, Active
        <3>2. PICK k \in KeysOf(a) : TRUE
            BY <1>1
        <3>3. agent[o] = a
            BY <1>1, <3>1, <3>2 DEF KeysOf, Serial, Orderly, Active
        <3>4. \A p \in ActiveOn(a) : p = o
            BY <1>1, <3>1, <3>3 DEF ActiveOn, Serial, Knowing, Alone
        <3>5. Placed(o) /\ Known(o)
            BY <1>1, <3>1 DEF Serial, Orderly, Knowing
        <3>6. handler[o] # "rotate"
            <4> SUFFICES ASSUME handler[o] = "rotate" PROVE FALSE
                OBVIOUS
            <4>1. o \in keys /\ o \notin targets[o]
                BY <3>1, <3>5 DEF Known
            <4>2. o \in KeysOf(a)
                BY <3>3, <4>1 DEF KeysOf
            <4> QED BY <3>1, <4>1, <4>2
        <3>7. handler[o] \in {"suspend", "revoke"}
            BY <3>1, <3>5, <3>6 DEF Placed, Fits
        <3> QED BY <3>4, <3>7
    <2> QED BY <2>2, <2>3, <2>4
<1>2. Serial /\ [Next]_vars => Serial'
    BY SerialNext
<1>3. Serial /\ [Next]_vars =>
        [\A a \in Agents :
           KeysOf(a) # {} /\ KeysOf(a)' = {} =>
             \/ \A o \in ActiveOn(a) : handler[o] \in {"suspend", "revoke"}
             \/ \A k \in KeysOf(a) : Expiring(k)]_vars
    BY <1>1
<1> QED BY <1>2, <1>3, SerialInit, PTL DEF Spec, ZeroDowntime

---------------------------------------------------------------------------
(* The service implements AgentLifecycle. *)

LEMMA LifecycleInit == Init => Lifecycle!Init
<1> SUFFICES ASSUME Init PROVE Lifecycle!Init
    OBVIOUS
<1>1. keys = {} /\ Active = {} /\ failures = 0 /\ status = [a \in Agents |-> "none"]
    BY DEF Init, Active
<1>2. Held = [a \in Agents |-> {}] /\ Mortal = {} /\ Leaving = {}
    BY <1>1 DEF Held, KeysOf, Mortal, Leaving, Dismissing
<1> QED BY <1>1, <1>2 DEF Lifecycle!Init

\* Who is leaving before and after a call.
LEMMA LeavingAfter ==
    ASSUME Serial, NEW o \in Active, NEW l \in Labels \ {"idle", "fetch"},
           pc' = [pc EXCEPT ![o] = l], UNCHANGED <<handler, agent>>
    PROVE  /\ agent[o] \in Leaving <=> handler[o] \in {"suspend", "revoke"} /\ pc[o] # "fetch"
           /\ Leaving' = IF handler[o] \in {"suspend", "revoke"} /\ l # "done"
                         THEN Leaving \cup {agent[o]} ELSE Leaving \ {agent[o]}
<1>1. /\ o \in Ops /\ pc'[o] = l /\ \A q \in Ops : q # o => pc'[q] = pc[q]
      /\ \A q \in Dismissing : agent[q] = agent[o] => q = o
    BY DEF Serial, Orderly, TypeOK, Active, Dismissing, Knowing, Alone
<1>2. o \in Dismissing <=> handler[o] \in {"suspend", "revoke"} /\ pc[o] # "fetch"
    BY DEF Dismissing
<1>3. Dismissing' = IF handler[o] \in {"suspend", "revoke"} /\ l # "done"
                    THEN Dismissing \cup {o} ELSE Dismissing \ {o}
    BY <1>1 DEF Dismissing, Active
<1> QED BY <1>1, <1>2, <1>3 DEF Leaving

\* A call adds at most the key it mints, or takes one away.
LEMMA HeldAfter ==
    ASSUME Orderly, UNCHANGED <<handler, agent>>, NEW k \in Ops, agent[k] \in Agents
    PROVE  /\ keys' = keys => Held' = Held /\ Mortal' = Mortal
           /\ keys' = keys \cup {k} =>
                /\ Held' = [Held EXCEPT ![agent[k]] = @ \cup {k}]
                /\ Mortal' = IF Expiring(k) THEN Mortal \cup {k} ELSE Mortal
           /\ keys' = keys \ {k} =>
                Held' = [Held EXCEPT ![agent[k]] = @ \ {k}] /\ Mortal' = Mortal \ {k}
<1>1. ASSUME NEW S, keys' = S
      PROVE  /\ Held' = [a \in Agents |-> {q \in S : agent[q] = a}]
             /\ Mortal' = {q \in S : Expiring(q)}
    BY <1>1 DEF Held, KeysOf, Mortal, Expiring
<1>2. keys' = keys => Held' = Held /\ Mortal' = Mortal
    BY <1>1 DEF Held, KeysOf, Mortal
<1>3. ASSUME keys' = keys \cup {k}
      PROVE  /\ Held' = [Held EXCEPT ![agent[k]] = @ \cup {k}]
             /\ Mortal' = IF Expiring(k) THEN Mortal \cup {k} ELSE Mortal
    <2>1. \A a \in Agents : {q \in keys \cup {k} : agent[q] = a}
                              = IF a = agent[k] THEN KeysOf(a) \cup {k} ELSE KeysOf(a)
        BY DEF KeysOf
    <2>2. [a \in Agents |-> {q \in keys \cup {k} : agent[q] = a}]
            = [Held EXCEPT ![agent[k]] = @ \cup {k}]
        BY <2>1 DEF Held
    <2>3. {q \in keys \cup {k} : Expiring(q)} = IF Expiring(k) THEN Mortal \cup {k} ELSE Mortal
        BY DEF Mortal
    <2> QED BY <1>1, <1>3, <2>2, <2>3
<1>4. ASSUME keys' = keys \ {k}
      PROVE  Held' = [Held EXCEPT ![agent[k]] = @ \ {k}] /\ Mortal' = Mortal \ {k}
    <2>1. \A a \in Agents : {q \in keys \ {k} : agent[q] = a}
                              = IF a = agent[k] THEN KeysOf(a) \ {k} ELSE KeysOf(a)
        BY DEF KeysOf
    <2>2. [a \in Agents |-> {q \in keys \ {k} : agent[q] = a}]
            = [Held EXCEPT ![agent[k]] = @ \ {k}]
        BY <2>1 DEF Held
    <2> QED BY <1>1, <1>4, <2>2 DEF Mortal
<1> QED BY <1>2, <1>3, <1>4

\* A call that changes neither records nor keys is not seen, unless it fails or
\* is the one with which an agent begins to leave.
LEMMA UnseenCall ==
    ASSUME Serial, NEW o \in Active, agent[o] \in Agents, NEW l \in Labels \ {"idle", "fetch"},
           pc' = [pc EXCEPT ![o] = l], UNCHANGED <<status, keys, handler, agent>>,
           failures' \in Nat
    PROVE  /\ failures' # 0 /\ (l = "done" \/ pc[o] # "fetch") => Lifecycle!Fail
           /\ failures' = failures /\ (handler[o] \in {"suspend", "revoke"} =>
                                         (pc[o] = "fetch" <=> l = "done"))
                => UNCHANGED Lifecycle!vars
<1>1. o \in Ops /\ Orderly
    BY DEF Active, Serial
<1>2. Held' = Held /\ Mortal' = Mortal
    BY <1>1, HeldAfter
<1>3. /\ agent[o] \in Leaving <=> handler[o] \in {"suspend", "revoke"} /\ pc[o] # "fetch"
      /\ Leaving' = IF handler[o] \in {"suspend", "revoke"} /\ l # "done"
                    THEN Leaving \cup {agent[o]} ELSE Leaving \ {agent[o]}
    BY LeavingAfter
<1>4. ASSUME failures' # 0, l = "done" \/ pc[o] # "fetch"
      PROVE  Lifecycle!Fail
    <2>1. Leaving' = Leaving \/ (agent[o] \in Leaving /\ Leaving' = Leaving \ {agent[o]})
        BY <1>3, <1>4
    <2> QED BY <1>2, <1>4, <2>1 DEF Lifecycle!Fail
<1>5. ASSUME failures' = failures,
             handler[o] \in {"suspend", "revoke"} => (pc[o] = "fetch" <=> l = "done")
      PROVE  UNCHANGED Lifecycle!vars
    <2>1. Leaving' = Leaving
        BY <1>3, <1>5
    <2> QED BY <1>2, <1>5, <2>1 DEF Lifecycle!vars
<1> QED BY <1>4, <1>5

LEMMA LifecycleCalls ==
    ASSUME Serial, OwnAliases, NEW o \in Ops, Calls(o)
    PROVE  [Lifecycle!Next]_(Lifecycle!vars)
<1> USE DEF Goto, Reply, Continue, Failure
<1> DEFINE a == agent[o]
<1>a. /\ o \in Active /\ Placed(o) /\ a \in Agents /\ Known(o) /\ (failures = 0 => Phase(o))
      /\ failures \in Nat /\ handler[o] \in Handlers /\ Orderly
      /\ \A k \in targets[o] : agent[k] = a
      /\ targets[o] \subseteq Ops /\ keys \subseteq Ops
    <2>1. o \in Active
        BY DEF Calls, Fetch, FetchFails, Mint, MintFails, Store, StoreFails, List, ListRefused,
               ListFails, Delete, DeleteRefused, DeleteFails, Mark, MarkFails, StatementFails,
               Active
    <2> QED BY <2>1 DEF Serial, Knowing, Balanced, Orderly, TypeOK, Placed
<1>c. /\ handler[o] = "suspend" => Accepts(handler[o]) = {"active"}
      /\ handler[o] = "rotate" => Accepts(handler[o]) = {"active"}
      /\ handler[o] = "reactivate" => Accepts(handler[o]) = {"suspended"}
      /\ handler[o] = "revoke" => Accepts(handler[o]) = {"active", "suspended"}
    BY DEF Accepts
<1>l. {"mint", "store", "list", "delete", "mark", "done"} = Labels \ {"idle", "fetch"}
    BY DEF Labels
<1>f. failures + 1 \in Nat /\ failures + 1 # 0 /\ Held[a] = KeysOf(a)
    BY <1>a DEF Held
<1>1. CASE Fetch(o)
    <2>1. pc[o] = "fetch" /\ UNCHANGED <<status, keys, handler, agent, failures>>
        BY <1>1 DEF Fetch
    <2>2. CASE pc' = [pc EXCEPT ![o] = "done"]
        BY <1>a, <1>l, <2>1, <2>2, UnseenCall
    <2>3. ASSUME status[a] \in Accepts(handler[o]), Continue(o, AfterFetch(handler[o]))
          PROVE  [Lifecycle!Next]_(Lifecycle!vars)
        <3>1. CASE handler[o] \in {"suspend", "revoke"}
            <4>1. pc' = [pc EXCEPT ![o] = "list"]
                BY <2>3, <3>1 DEF AfterFetch
            <4>2. a \notin Leaving /\ Leaving' = Leaving \cup {a}
                <5>1. "list" \in Labels \ {"idle", "fetch"}
                    BY <1>l
                <5>2. /\ a \in Leaving <=> handler[o] \in {"suspend", "revoke"} /\ pc[o] # "fetch"
                      /\ Leaving' = IF handler[o] \in {"suspend", "revoke"} /\ "list" # "done"
                                    THEN Leaving \cup {a} ELSE Leaving \ {a}
                    BY <1>a, <2>1, <4>1, <5>1, LeavingAfter
                <5> QED BY <2>1, <3>1, <5>2
            <4>3. Held' = Held /\ Mortal' = Mortal
                BY <1>a, <2>1, HeldAfter
            <4>4. Lifecycle!Dismiss(a)
                BY <1>c, <2>1, <2>3, <3>1, <4>2, <4>3 DEF Lifecycle!Dismiss
            <4> QED BY <1>a, <4>4 DEF Lifecycle!Next
        <3>2. CASE handler[o] \notin {"suspend", "revoke"}
            <4>1. pc' = [pc EXCEPT ![o] = "mint"]
                BY <2>3, <3>2 DEF AfterFetch
            <4> QED BY <1>a, <1>l, <2>1, <3>2, <4>1, UnseenCall
        <3> QED BY <3>1, <3>2
    <2> QED BY <1>1, <2>2, <2>3 DEF Fetch
\* Calls that fail without effect.
<1>2. CASE /\ \/ FetchFails(o) \/ MintFails(o) \/ StoreFails(o) \/ ListFails(o) \/ MarkFails(o)
              \/ StatementFails(o) \/ \E k \in Ops : DeleteFails(o, k)
           /\ UNCHANGED <<status, keys>>
    <2>1. /\ pc' = [pc EXCEPT ![o] = "done"] /\ UNCHANGED <<status, keys, handler, agent>>
          /\ failures' = failures + 1
        BY <1>2 DEF FetchFails, MintFails, StoreFails, ListFails, MarkFails, StatementFails,
                    DeleteFails
    <2>2. Lifecycle!Fail
        BY <1>a, <1>f, <1>l, <2>1, UnseenCall
    <2> QED BY <2>2 DEF Lifecycle!Next
<1>3. CASE /\ Mint(o) \/ MintFails(o)
           /\ keys' = keys \cup {o}
    <2>1. /\ pc[o] = "mint" /\ handler[o] \in {"create", "reactivate", "rotate"}
          /\ UNCHANGED <<status, handler, agent>>
          /\ failures' = failures \/ failures' = failures + 1
        BY <1>3, <1>a DEF Mint, MintFails, Placed, Fits
    <2>2. PICK l \in Labels \ {"idle", "fetch"} : pc' = [pc EXCEPT ![o] = l]
        BY <1>3, <1>l, <2>1 DEF Mint, MintFails, AfterMint
    <2>3. a \notin Leaving /\ Leaving' = Leaving
        BY <1>a, <2>1, <2>2, LeavingAfter
    <2>4. o \notin keys
        BY <1>a, <2>1 DEF Orderly
    <2>5. Held' = [Held EXCEPT ![a] = @ \cup {o}]
        BY <1>3, <1>a, <2>1, HeldAfter
    <2>6. Mortal' = IF Expiring(o) THEN Mortal \cup {o} ELSE Mortal
        BY <1>3, <1>a, <2>1, HeldAfter
    <2>7. status[a] = "none" <=> handler[o] = "create"
        BY <1>a, <1>c, <2>1 DEF Known, Expected
    <2>8. status[a] # "revoked" /\ (handler[o] = "rotate" => status[a] = "active")
        BY <1>a, <1>c, <2>1 DEF Known, Expected
    <2>9. failures = 0 => KeysOf(a) = {} \/ (status[a] = "active" /\ \E x \in Ops : KeysOf(a) = {x})
        BY <1>a, <2>1, <2>8 DEF Phase, AtMostOne, KeysOf
    <2>10. failures' = 0 => failures = 0
        BY <1>f, <2>1
    <2>11. \A b \in Agents : o \notin Held[b]
        BY <2>4 DEF Held, KeysOf
    <2>12. Lifecycle!Issue(a, o)
        BY <1>f, <2>1, <2>3, <2>5, <2>6, <2>7, <2>8, <2>9, <2>10, <2>11
           DEF Lifecycle!Issue, Lifecycle!UnlessFaulty, Expiring
    <2> QED BY <1>a, <2>12 DEF Lifecycle!Next
<1>4. CASE /\ Store(o) \/ StoreFails(o)
           /\ status' = [status EXCEPT ![a] = "active"]
    <2>1. /\ pc[o] = "store" /\ handler[o] = "create" /\ pc' = [pc EXCEPT ![o] = "done"]
          /\ UNCHANGED <<keys, handler, agent>>
          /\ failures' = failures \/ failures' = failures + 1
        BY <1>4, <1>a DEF Store, StoreFails, Placed, Fits
    <2>2. a \notin Leaving /\ Leaving' = Leaving
        <3>1. "done" \in Labels \ {"idle", "fetch"}
            BY <1>l
        <3>2. /\ a \in Leaving <=> handler[o] \in {"suspend", "revoke"} /\ pc[o] # "fetch"
              /\ Leaving' = IF handler[o] \in {"suspend", "revoke"} /\ "done" # "done"
                            THEN Leaving \cup {a} ELSE Leaving \ {a}
            BY <1>a, <2>1, <3>1, LeavingAfter
        <3> QED BY <2>1, <3>2
    <2>3. Held' = Held /\ Mortal' = Mortal
        BY <1>a, <2>1, HeldAfter
    <2>4. status[a] = "none"
        BY <1>a, <2>1 DEF Known, Expected
    <2>5. failures = 0 => a \in Ephemeral \/ KeysOf(a) = {o}
        BY <1>a, <2>1 DEF Phase
    <2>6. failures' = 0 => failures = 0
        BY <1>f, <2>1
    <2>7. Lifecycle!Enter(a)
        BY <1>f, <1>4, <2>1, <2>2, <2>3, <2>4, <2>5, <2>6
           DEF Lifecycle!Enter, Lifecycle!Becomes, Lifecycle!UnlessFaulty
    <2> QED BY <1>a, <2>7 DEF Lifecycle!Next
<1>5. ASSUME pc[o] \in {"list", "delete"}, NEW rest, AfterDeletes(o, rest)
      PROVE  \E l \in {"delete", "mark", "done"} :
               /\ pc' = [pc EXCEPT ![o] = l]
               /\ handler[o] \in {"suspend", "revoke"} <=> l # "done" /\ handler[o] # "rotate"
               /\ handler[o] \in {"suspend", "rotate", "revoke"}
    BY <1>5, <1>a DEF AfterDeletes, Placed, Fits
<1>6. CASE List(o)
    <2>1. PICK l \in {"delete", "mark", "done"} :
            /\ pc' = [pc EXCEPT ![o] = l]
            /\ handler[o] \in {"suspend", "revoke"} <=> l # "done" /\ handler[o] # "rotate"
        BY <1>5, <1>6 DEF List
    <2>2. UNCHANGED <<status, keys, handler, agent, failures>> /\ pc[o] = "list"
        BY <1>6 DEF List
    <2> QED BY <1>a, <1>l, <2>1, <2>2, UnseenCall
<1>7. CASE ListRefused(o) \/ \E k \in Ops : DeleteRefused(o, k)
    <2>1. /\ UNCHANGED <<status, keys, handler, agent>> /\ pc[o] \in {"list", "delete"}
          /\ failures' = failures + 1
          /\ \E rest : AfterDeletes(o, rest)
        BY <1>7 DEF ListRefused, DeleteRefused
    <2>2. PICK l \in {"delete", "mark", "done"} : pc' = [pc EXCEPT ![o] = l]
        BY <1>5, <2>1
    <2>3. Lifecycle!Fail
        BY <1>a, <1>f, <1>l, <2>1, <2>2, UnseenCall
    <2> QED BY <2>3 DEF Lifecycle!Next
<1>8. ASSUME NEW k \in Ops, Delete(o, k) \/ DeleteFails(o, k), keys' = keys \ {k}
      PROVE  [Lifecycle!Next]_(Lifecycle!vars)
    <2>1. /\ UNCHANGED <<status, handler, agent>> /\ pc[o] = "delete" /\ k \in targets[o]
          /\ agent[k] = a /\ handler[o] \in {"suspend", "rotate", "revoke"}
        BY <1>8, <1>a DEF Delete, DeleteFails, Placed, Fits
    <2>2. PICK l \in {"delete", "mark", "done"} :
            /\ pc' = [pc EXCEPT ![o] = l]
            /\ failures' = failures =>
                 (handler[o] \in {"suspend", "revoke"} <=> l # "done" /\ handler[o] # "rotate")
            /\ failures' = failures \/ failures' = failures + 1
        <3>1. CASE Delete(o, k)
            BY <1>5, <3>1 DEF Delete
        <3>2. CASE DeleteFails(o, k)
            BY <1>a, <3>2 DEF DeleteFails
        <3> QED BY <1>8, <3>1, <3>2
    <2>3. /\ a \in Leaving <=> handler[o] \in {"suspend", "revoke"}
          /\ Leaving' = IF handler[o] \in {"suspend", "revoke"} /\ l # "done"
                        THEN Leaving \cup {a} ELSE Leaving \ {a}
        BY <1>a, <1>l, <2>1, <2>2, LeavingAfter
    <2>4. Leaving' \in {Leaving, Leaving \ {a}} /\ (failures' = failures => Leaving' = Leaving)
        BY <2>1, <2>2, <2>3
    <2>5. Held' = [Held EXCEPT ![a] = @ \ {k}] /\ Mortal' = Mortal \ {k}
        BY <1>8, <1>a, <2>1, HeldAfter
    <2>6. CASE k \in keys
        <3>1. k \in Held[a]
            BY <1>f, <2>1, <2>6 DEF KeysOf
        <3>2. handler[o] = "rotate" => status[a] = "active" /\ Held[a] # {k}
            <4> SUFFICES ASSUME handler[o] = "rotate"
                         PROVE  status[a] = "active" /\ Held[a] # {k}
                OBVIOUS
            <4>1. o \in keys /\ o \notin targets[o] /\ status[a] = "active"
                BY <1>a, <1>c, <2>1 DEF Known, Expected
            <4> QED BY <1>f, <2>1, <4>1 DEF KeysOf
        <3>3. a \in Leaving \/ (status[a] = "active" /\ Held[a] # {k})
            BY <2>1, <2>3, <3>2
        <3>4. failures' = 0 => failures = 0 /\ Leaving' = Leaving
            BY <1>f, <2>2, <2>4
        <3>5. Lifecycle!Withdraw(a, k)
            BY <2>1, <2>4, <2>5, <3>1, <3>3, <3>4 DEF Lifecycle!Withdraw, Lifecycle!UnlessFaulty
        <3> QED BY <1>a, <3>5 DEF Lifecycle!Next
    <2>7. CASE k \notin keys
        <3>1. keys' = keys
            BY <1>8, <2>7
        <3>2. handler[o] \in {"suspend", "revoke"} /\ failures' = failures => l # "done"
            BY <2>2
        <3>3. CASE failures' = failures
            BY <1>a, <1>l, <2>1, <2>2, <3>1, <3>2, <3>3, UnseenCall
        <3>4. CASE failures' = failures + 1
            <4>1. Lifecycle!Fail
                BY <1>a, <1>f, <1>l, <2>1, <2>2, <3>1, <3>4, UnseenCall
            <4> QED BY <4>1 DEF Lifecycle!Next
        <3> QED BY <2>2, <3>3, <3>4
    <2> QED BY <2>6, <2>7
<1>9. CASE /\ Mark(o) \/ MarkFails(o)
           /\ status' = [status EXCEPT ![a] = NewStatus(handler[o])]
    <2>1. /\ pc[o] = "mark" /\ pc' = [pc EXCEPT ![o] = "done"]
          /\ handler[o] \in {"suspend", "reactivate", "revoke"}
          /\ UNCHANGED <<keys, handler, agent>>
          /\ failures' = failures \/ failures' = failures + 1
        BY <1>9, <1>a DEF Mark, MarkFails, Placed, Fits
    <2>2. /\ a \in Leaving <=> handler[o] \in {"suspend", "revoke"}
          /\ Leaving' = Leaving \ {a}
        BY <1>a, <1>l, <2>1, LeavingAfter
    <2>3. Held' = Held /\ Mortal' = Mortal
        BY <1>a, <2>1, HeldAfter
    <2>4. status[a] \in Accepts(handler[o])
        BY <1>a, <2>1 DEF Known, Expected
    <2>5. failures' = 0 => failures = 0
        BY <1>f, <2>1
    <2>6. failures = 0 => KeysOf(a) = IF handler[o] = "reactivate" THEN {o} ELSE {}
        BY <1>a, <2>1 DEF Phase
    <2>7. CASE handler[o] = "suspend"
        <3>1. Lifecycle!Suspend(a)
            BY <1>c, <1>f, <1>9, <2>2, <2>3, <2>4, <2>5, <2>6, <2>7
               DEF Lifecycle!Suspend, Lifecycle!Becomes, Lifecycle!UnlessFaulty, NewStatus
        <3> QED BY <1>a, <3>1 DEF Lifecycle!Next
    <2>8. CASE handler[o] = "revoke"
        <3>1. Lifecycle!Revoke(a)
            BY <1>c, <1>f, <1>9, <2>2, <2>3, <2>4, <2>5, <2>6, <2>8
               DEF Lifecycle!Revoke, Lifecycle!Becomes, Lifecycle!UnlessFaulty, NewStatus
        <3> QED BY <1>a, <3>1 DEF Lifecycle!Next
    <2>9. CASE handler[o] = "reactivate"
        <3>1. a \notin Leaving /\ Leaving' = Leaving
            BY <2>2, <2>9
        <3>2. Lifecycle!Reactivate(a)
            BY <1>c, <1>f, <1>9, <2>3, <2>4, <2>5, <2>6, <2>9, <3>1
               DEF Lifecycle!Reactivate, Lifecycle!Becomes, Lifecycle!UnlessFaulty, NewStatus
        <3> QED BY <1>a, <3>2 DEF Lifecycle!Next
    <2> QED BY <2>1, <2>7, <2>8, <2>9
<1> QED
    <2>1. CASE Mint(o) \/ MintFails(o)
        BY <1>2, <1>3, <2>1 DEF Mint, MintFails
    <2>2. CASE Store(o) \/ StoreFails(o)
        BY <1>2, <1>4, <2>2 DEF Store, StoreFails
    <2>3. CASE Mark(o) \/ MarkFails(o) \/ StatementFails(o)
        BY <1>2, <1>9, <2>3 DEF Mark, MarkFails, StatementFails
    <2>4. CASE FetchFails(o) \/ ListFails(o)
        BY <1>2, <2>4 DEF FetchFails, ListFails
    <2>5. ASSUME NEW k \in Ops, Delete(o, k) \/ DeleteFails(o, k)
          PROVE  [Lifecycle!Next]_(Lifecycle!vars)
        BY <1>2, <1>8, <2>5 DEF Delete, DeleteFails
    <2> QED BY <1>1, <1>6, <1>7, <2>1, <2>2, <2>3, <2>4, <2>5 DEF Calls

LEMMA LifecycleStep ==
    ASSUME Serial, Serial', OwnAliases, [Next]_vars
    PROVE  [Lifecycle!Next]_(Lifecycle!vars)
<1>1. ASSUME NEW o \in Ops, Arrivals(o)
      PROVE  UNCHANGED Lifecycle!vars
    <2>1. /\ pc[o] = "idle" /\ o \notin keys /\ o \notin Dismissing
          /\ UNCHANGED <<status, keys, failures>> /\ keys \subseteq Ops
          /\ \A q \in Ops \ {o} : /\ pc'[q] = pc[q] /\ handler'[q] = handler[q]
                                  /\ agent'[q] = agent[q]
          /\ pc'[o] \in {"fetch", "mint", "done"} /\ (pc'[o] = "mint" => handler'[o] = "create")
        BY <1>1 DEF Arrivals, Unauthorized, Start, Arrive, Reply, Continue, Goto, Serial,
                    Orderly, TypeOK, Dismissing, Active
    <2>2. Dismissing' = Dismissing
        BY <2>1 DEF Dismissing, Active
    <2>3. Leaving' = Leaving
        BY <2>1, <2>2 DEF Leaving, Dismissing, Active
    <2>4. Held' = Held /\ Mortal' = Mortal
        BY <2>1 DEF Held, KeysOf, Mortal, Expiring
    <2> QED BY <2>1, <2>3, <2>4 DEF Lifecycle!vars
<1>2. ASSUME NEW k \in Ops, Expire(k)
      PROVE  Lifecycle!Next
    <2>1. /\ k \in keys /\ Expiring(k) /\ keys' = keys \ {k} /\ agent[k] \in Agents
          /\ UNCHANGED <<status, pc, handler, agent, failures>>
        BY <1>2 DEF Expire, Serial, Orderly
    <2>2. Held' = [Held EXCEPT ![agent[k]] = @ \ {k}] /\ Mortal' = Mortal \ {k}
        BY <2>1, HeldAfter DEF Serial
    <2>3. Leaving' = Leaving
        BY <2>1 DEF Leaving, Dismissing, Active
    <2>4. k \in Held[agent[k]] /\ k \in Mortal
        BY <2>1 DEF Held, KeysOf, Mortal
    <2>5. Lifecycle!Withdraw(agent[k], k)
        BY <2>1, <2>2, <2>3, <2>4 DEF Lifecycle!Withdraw, Lifecycle!UnlessFaulty
    <2> QED BY <2>1, <2>5 DEF Lifecycle!Next
<1>3. ASSUME UNCHANGED vars
      PROVE  UNCHANGED Lifecycle!vars
    BY <1>3 DEF vars, Lifecycle!vars, Held, KeysOf, Mortal, Expiring, Leaving, Dismissing, Active
<1> QED BY <1>1, <1>2, <1>3, LifecycleCalls DEF Next

\* The service implements AgentLifecycle: whatever interleaves and fails, as long as
\* clients send one request at a time for an agent (references/agent-identity-spec.md:79).
THEOREM ImplementsAgentLifecycleHolds ==
    ASSUME OwnAliases, SerialPerAgent
    PROVE  Spec => ImplementsAgentLifecycle
<1>1. Serial /\ [Next]_vars => Serial'
    BY SerialNext
<1>2. Serial /\ Serial' /\ [Next]_vars => [Lifecycle!Next]_(Lifecycle!vars)
    BY LifecycleStep
<1> QED BY <1>1, <1>2, SerialInit, LifecycleInit, PTL DEF Spec, ImplementsAgentLifecycle, Lifecycle!Spec

==========================================================================
