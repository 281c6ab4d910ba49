-------------------------- MODULE Billing_proofs --------------------------
(***************************************************************************)
(* What the usage callback promises for any number of requests, tenants    *)
(* and seconds: usage goes unbilled in three ways only, and no request is  *)
(* billed twice.                                                           *)
(* An event of the ledger is what its id says, so that Lago's rejection of *)
(* an id it has means that it has an event of that tenant, second and kind.*)
(***************************************************************************)
EXTENDS Billing, TLAPS

Callbacks ==
  [alias : Aliases, second : Nat, posted : 0 .. 3, lost : SUBSET {"input", "output", "req"}]

\* The event of kind i of callback c, or one that Lago took for it.
Billed(c, i) ==
  \E e \in ledger : e.kind = EventKinds[i] /\ e.alias = c.alias /\ e.second = c.second

\* What callback c posted and did not lose is billed.
Explained(c) == \A i \in 1 .. c.posted : EventKinds[i] \notin c.lost => Billed(c, i)

\* The request that e is of has a callback, of e's tenant and second.
Fired(e) ==
  /\ e.of \in DOMAIN callbacks
  /\ e.alias = callbacks[e.of].alias /\ e.second = callbacks[e.of].second

BillInv ==
  /\ clock \in Nat
  /\ callbacks = [q \in DOMAIN callbacks |-> callbacks[q]]
  /\ \A q \in DOMAIN callbacks : callbacks[q] \in Callbacks /\ Explained(callbacks[q])
  /\ \A e \in ledger : e.id = <<e.alias, e.second, e.kind>>
  /\ \A d, e \in ledger : d.id = e.id => d = e
  /\ \A e \in ledger : Fired(e)

---------------------------------------------------------------------------
LEMMA BillInvInit == BillInit => BillInv
BY DEF BillInit, BillInv

\* The ledger after the event of request q arrived.
After(q) ==
  IF \E e \in ledger : e.id = LagoEvent(q).id THEN ledger ELSE ledger \cup {LagoEvent(q)}

\* A post leaves the events that Lago has and adds at most the one that is posted.
LEMMA LedgerGrows ==
    ASSUME BillInv, NEW q, Posting(q), ledger' = ledger \/ ledger' = After(q)
    PROVE  /\ ledger \subseteq ledger'
           /\ \A e \in ledger' : e.id = <<e.alias, e.second, e.kind>>
           /\ \A d, e \in ledger' : d.id = e.id => d = e
           /\ \A e \in ledger' : Fired(e)
<1>0. Fired(LagoEvent(q))
    BY DEF Fired, LagoEvent, Posting
<1>1. LagoEvent(q).id = <<LagoEvent(q).alias, LagoEvent(q).second, LagoEvent(q).kind>>
    BY DEF LagoEvent, TxnId
<1>2. CASE ledger' = ledger
    BY <1>2 DEF BillInv
<1>3. CASE ledger' = After(q)
    <2> DEFINE v == LagoEvent(q)
    <2> HIDE DEF v
    <2>1. v.id = <<v.alias, v.second, v.kind>>
        BY <1>1 DEF v
    <2>2. ledger' = IF \E e \in ledger : e.id = v.id THEN ledger ELSE ledger \cup {v}
        BY <1>3 DEF After, v
    <2>3. Fired(v)
        BY <1>0 DEF v
    <2> QED BY <2>1, <2>2, <2>3 DEF BillInv
<1> QED BY <1>2, <1>3

\* A step of one callback.
LEMMA OneCallbackMoves ==
    ASSUME BillInv, NEW q \in DOMAIN callbacks, NEW c \in Callbacks,
           callbacks' = [callbacks EXCEPT ![q] = c], UNCHANGED clock,
           c.alias = callbacks[q].alias, c.second = callbacks[q].second,
           \A e \in ledger' : Fired(e),
           ledger \subseteq ledger',
           \A e \in ledger' : e.id = <<e.alias, e.second, e.kind>>,
           \A d, e \in ledger' : d.id = e.id => d = e,
           \A i \in 1 .. c.posted : EventKinds[i] \notin c.lost =>
             \E e \in ledger' : e.kind = EventKinds[i] /\ e.alias = c.alias /\ e.second = c.second
    PROVE  BillInv'
<1>1. ASSUME NEW p \in DOMAIN callbacks, p # q
      PROVE  Explained(callbacks[p])'
    <2>1. callbacks'[p] = callbacks[p] /\ Explained(callbacks[p])
        BY <1>1 DEF BillInv
    <2> QED BY <2>1 DEF Explained, Billed
<1>2. Explained(callbacks[q])'
    <2>1. callbacks'[q] = c
        BY DEF BillInv
    <2> QED BY <2>1 DEF Explained, Billed
<1>3. \A p \in DOMAIN callbacks : callbacks'[p] \in Callbacks
    BY DEF BillInv
<1>4. \A e \in ledger' : Fired(e)'
    BY DEF Fired, BillInv
<1> QED BY <1>1, <1>2, <1>3, <1>4 DEF BillInv

LEMMA BillInvNext == BillInv /\ [BillNext]_billVars => BillInv'
<1> SUFFICES ASSUME BillInv, [BillNext]_billVars PROVE BillInv'
    OBVIOUS
<1>0. /\ Len(EventKinds) = 3
      /\ \A i \in 1 .. 3 : EventKinds[i] \in {"input", "output", "req"}
    BY DEF EventKinds
<1>1. CASE NextSecond
    BY <1>1 DEF NextSecond, BillInv, Explained, Billed, Fired
<1>2. ASSUME NEW q \in Completions, NEW alias \in Aliases, StartCallback(q, alias)
      PROVE  BillInv'
    <2> DEFINE c == [alias |-> alias, second |-> clock, posted |-> 0, lost |-> {}]
    <2>1. c \in Callbacks /\ c.posted = 0
        BY DEF Callbacks, BillInv
    <2>2. /\ DOMAIN callbacks' = DOMAIN callbacks \cup {q}
          /\ callbacks' = [p \in DOMAIN callbacks' |-> callbacks'[p]]
          /\ callbacks'[q] = c
          /\ \A p \in DOMAIN callbacks : callbacks'[p] = callbacks[p]
        BY <1>2 DEF StartCallback, Put
    <2> HIDE DEF c
    <2>3. \A p \in DOMAIN callbacks' : callbacks'[p] \in Callbacks /\ Explained(callbacks[p])'
        <3> TAKE p \in DOMAIN callbacks'
        <3>1. CASE p = q
            BY <2>1, <2>2, <3>1 DEF Explained
        <3>2. CASE p # q
            <4>1. /\ p \in DOMAIN callbacks /\ callbacks'[p] = callbacks[p]
                  /\ callbacks[p] \in Callbacks /\ Explained(callbacks[p])
                BY <2>2, <3>2 DEF BillInv
            <4>2. ledger' = ledger
                BY <1>2 DEF StartCallback
            <4> QED BY <4>1, <4>2 DEF Explained, Billed
        <3> QED BY <3>1, <3>2
    <2>4. \A e \in ledger' : Fired(e)'
        BY <1>2, <2>2 DEF StartCallback, BillInv, Fired
    <2> QED BY <1>2, <2>2, <2>3, <2>4 DEF StartCallback, BillInv
<1>3. ASSUME NEW q \in Completions, Posting(q)
      PROVE  /\ callbacks[q] \in Callbacks /\ q \in DOMAIN callbacks
             /\ callbacks[q].posted \in 0 .. 2
             /\ NextKind(q) \in {"input", "output", "req"}
             /\ Explained(callbacks[q])
    BY <1>0, <1>3 DEF Posting, BillInv, Callbacks, NextKind
<1>4. ASSUME NEW q \in Completions, PostEvent(q) PROVE BillInv'
    <2> DEFINE c == [callbacks[q] EXCEPT !.posted = @ + 1]
    <2>0. Posting(q) /\ ledger' = After(q)
        BY <1>4 DEF PostEvent, After
    <2>1. /\ c \in Callbacks /\ c.posted = callbacks[q].posted + 1 /\ c.lost = callbacks[q].lost
          /\ c.alias = callbacks[q].alias /\ c.second = callbacks[q].second
        BY <1>3, <2>0 DEF Callbacks
    <2>2. callbacks' = [callbacks EXCEPT ![q] = c]
        BY <1>3, <1>4, <2>0 DEF PostEvent, Callbacks, BillInv
    <2>3. \E e \in ledger' : e.kind = EventKinds[c.posted] /\ e.alias = c.alias
                             /\ e.second = c.second
        <3>1. PICK e \in ledger' : e.id = LagoEvent(q).id
            BY <2>0 DEF After
        <3>2. LagoEvent(q).id = <<c.alias, c.second, EventKinds[c.posted]>>
            BY <2>1 DEF LagoEvent, TxnId, NextKind
        <3>3. e.id = <<e.alias, e.second, e.kind>>
            BY <2>0, LedgerGrows
        <3> QED BY <3>1, <3>2, <3>3
    <2> HIDE DEF c
    <2>4. ASSUME NEW i \in 1 .. c.posted, EventKinds[i] \notin c.lost
          PROVE  \E e \in ledger' : e.kind = EventKinds[i] /\ e.alias = c.alias
                                    /\ e.second = c.second
        <3>1. CASE i = c.posted
            BY <2>3, <3>1
        <3>2. CASE i # c.posted
            <4>1. i \in 1 .. callbacks[q].posted
                BY <1>3, <2>0, <2>1, <3>2
            <4> QED BY <1>3, <2>0, <2>1, <2>4, <4>1, LedgerGrows DEF Explained, Billed
        <3> QED BY <3>1, <3>2
    <2> QED BY <1>3, <1>4, <2>0, <2>1, <2>2, <2>4, LedgerGrows, OneCallbackMoves DEF PostEvent
<1>5. ASSUME NEW q \in Completions, PostRefused(q) PROVE BillInv'
    <2> DEFINE c == [callbacks[q] EXCEPT !.posted = @ + 1, !.lost = @ \cup {NextKind(q)}]
    <2>0. Posting(q)
        BY <1>5 DEF PostRefused
    <2>1. /\ c \in Callbacks /\ c.posted = callbacks[q].posted + 1
          /\ c.lost = callbacks[q].lost \cup {EventKinds[c.posted]}
          /\ c.alias = callbacks[q].alias /\ c.second = callbacks[q].second
        <3>1. callbacks[q].posted + 1 \in 0 .. 3
            BY <1>3, <2>0
        <3>2. callbacks[q].lost \cup {NextKind(q)} \in SUBSET {"input", "output", "req"}
            BY <1>3, <2>0 DEF Callbacks
        <3> QED BY <1>3, <2>0, <3>1, <3>2 DEF Callbacks, NextKind
    <2>2. callbacks' = [callbacks EXCEPT ![q] = c]
        BY <1>3, <1>5, <2>0 DEF PostRefused, Callbacks, BillInv
    <2> HIDE DEF c
    <2>3. ASSUME NEW i \in 1 .. c.posted, EventKinds[i] \notin c.lost
          PROVE  \E e \in ledger : e.kind = EventKinds[i] /\ e.alias = c.alias
                                   /\ e.second = c.second
        <3>1. i \in 1 .. callbacks[q].posted
            BY <1>3, <2>0, <2>1, <2>3
        <3> QED BY <1>3, <2>0, <2>1, <2>3, <3>1 DEF Explained, Billed
    <2>4. ledger' = ledger /\ clock' = clock
        BY <1>5 DEF PostRefused
    <2> QED BY <1>3, <2>0, <2>1, <2>2, <2>3, <2>4, LedgerGrows, OneCallbackMoves
<1>6. ASSUME NEW q \in Completions, PostRaises(q) PROVE BillInv'
    <2> DEFINE rest == {EventKinds[i] : i \in callbacks[q].posted + 1 .. Len(EventKinds)}
               c == [callbacks[q] EXCEPT !.posted = Len(EventKinds), !.lost = @ \cup rest]
    <2>0. Posting(q) /\ (ledger' = ledger \/ ledger' = After(q))
        BY <1>6 DEF PostRaises, After
    <2>1. rest \in SUBSET {"input", "output", "req"}
        BY <1>0, <1>3, <2>0
    <2>a. \A i \in callbacks[q].posted + 1 .. 3 : EventKinds[i] \in rest
        BY <1>0
    <2> HIDE DEF rest
    <2>2. /\ c \in Callbacks /\ c.posted = 3 /\ c.lost = callbacks[q].lost \cup rest
          /\ c.alias = callbacks[q].alias /\ c.second = callbacks[q].second
        <3>1. callbacks[q].lost \cup rest \in SUBSET {"input", "output", "req"}
            BY <1>3, <2>0, <2>1 DEF Callbacks
        <3>2. Len(EventKinds) \in 0 .. 3
            BY <1>0
        <3> QED BY <1>0, <1>3, <2>0, <3>1, <3>2 DEF Callbacks
    <2>3. callbacks' = [callbacks EXCEPT ![q] = c]
        BY <1>3, <1>6, <2>0 DEF PostRaises, Callbacks, BillInv, rest
    <2> HIDE DEF c
    <2>4. ASSUME NEW i \in 1 .. c.posted, EventKinds[i] \notin c.lost
          PROVE  \E e \in ledger' : e.kind = EventKinds[i] /\ e.alias = c.alias
                                    /\ e.second = c.second
        <3>1. i \in 1 .. callbacks[q].posted
            BY <1>3, <2>0, <2>2, <2>4, <2>a
        <3> QED BY <1>3, <2>0, <2>2, <2>4, <3>1, LedgerGrows DEF Explained, Billed
    <2> QED BY <1>3, <1>6, <2>0, <2>2, <2>3, <2>4, LedgerGrows, OneCallbackMoves DEF PostRaises
<1>7. CASE UNCHANGED billVars
    BY <1>7 DEF billVars, BillInv, Explained, Billed, Fired
<1> QED BY <1>1, <1>2, <1>4, <1>5, <1>6, <1>7 DEF BillNext

\* Usage goes unbilled in three ways only: it was refused, a post raised, or
\* another request of the tenant was billed in its second. No request is billed
\* twice for one kind (lago_callback.py).
THEOREM UsageIsAccounted == BillSpec => []UnbilledHasACause
<1>1. BillInv => UnbilledHasACause
    <2> SUFFICES ASSUME BillInv PROVE UnbilledHasACause
        OBVIOUS
    <2>1. ASSUME NEW q \in DOMAIN callbacks, NEW i \in 1 .. callbacks[q].posted,
                 EventKinds[i] \notin callbacks[q].lost
          PROVE  \E e \in ledger : e.kind = EventKinds[i] /\ (e.of = q \/ SameSecond(e.of, q))
        <3>1. PICK e \in ledger : /\ e.kind = EventKinds[i] /\ e.alias = callbacks[q].alias
                                  /\ e.second = callbacks[q].second
            BY <2>1 DEF BillInv, Explained, Billed
        <3>2. SameSecond(e.of, q)
            BY <3>1 DEF BillInv, Fired, SameSecond
        <3> QED BY <3>1, <3>2
    <2>2. ASSUME NEW d \in ledger, NEW e \in ledger, d.of = e.of, d.kind = e.kind
          PROVE  d = e
        <3>1. d.id = e.id
            BY <2>2 DEF BillInv, Fired
        <3> QED BY <3>1 DEF BillInv
    <2> QED BY <2>1, <2>2 DEF UnbilledHasACause
<1> QED BY <1>1, BillInvInit, BillInvNext, PTL DEF BillSpec

==========================================================================
