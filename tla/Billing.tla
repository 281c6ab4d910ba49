------------------------------ MODULE Billing ------------------------------
(***************************************************************************)
(* The usage callback (lago_callback.py). For every completed request it   *)
(* posts three events to Lago, one after the other, under transaction ids  *)
(* made of the tenant's alias, the second and the kind of the event. Lago  *)
(* drops an event whose id it has. An answer of Lago is not looked at: an  *)
(* event it refuses is lost and the next is posted. When a post raises,    *)
(* the rest is not posted and the error is only printed. Several callbacks *)
(* run at a time. What the events count is data.                           *)
(***************************************************************************)
EXTENDS Naturals, Sequences, Dicts

CONSTANTS Completions, Aliases,
          ClockBound  \* bound on the seconds

ASSUME ClockAssumption == ClockBound \in Nat

VARIABLES clock,      \* the second
          callbacks,  \* callbacks[q]: how far the callback of the request q is
          ledger      \* the events that Lago has taken

billVars == <<clock, callbacks, ledger>>

EventKinds == <<"input", "output", "req">>

\* Mutant: the kind of the event is not part of the id.
BareTxnId(alias, second, kind) == <<alias, second>>

TxnId(alias, second, kind) == <<alias, second, kind>>

NextSecond ==
  /\ clock < ClockBound
  /\ clock' = clock + 1
  /\ UNCHANGED <<callbacks, ledger>>

\* An alias that is missing is "default". lost: the events refused or not posted.
StartCallback(q, alias) ==
  /\ q \notin DOMAIN callbacks
  /\ callbacks' = Put(callbacks, q,
       [alias |-> alias, second |-> clock, posted |-> 0, lost |-> {}])
  /\ UNCHANGED <<clock, ledger>>

Posting(q) == q \in DOMAIN callbacks /\ callbacks[q].posted < Len(EventKinds)
NextKind(q) == EventKinds[callbacks[q].posted + 1]

LagoEvent(q) ==
  [id |-> TxnId(callbacks[q].alias, callbacks[q].second, NextKind(q)),
   alias |-> callbacks[q].alias, second |-> callbacks[q].second, kind |-> NextKind(q), of |-> q]

PostEvent(q) ==
  /\ Posting(q)
  /\ ledger' = IF \E e \in ledger : e.id = LagoEvent(q).id THEN ledger
               ELSE ledger \cup {LagoEvent(q)}
  /\ callbacks' = [callbacks EXCEPT ![q].posted = @ + 1]
  /\ UNCHANGED clock

PostRefused(q) ==
  /\ Posting(q)
  /\ callbacks' = [callbacks EXCEPT ![q].posted = @ + 1, ![q].lost = @ \cup {NextKind(q)}]
  /\ UNCHANGED <<clock, ledger>>

\* The request may have arrived all the same.
PostRaises(q) ==
  /\ Posting(q)
  /\ callbacks' = [callbacks EXCEPT
       ![q].posted = Len(EventKinds),
       ![q].lost = @ \cup {EventKinds[i] : i \in callbacks[q].posted + 1 .. Len(EventKinds)}]
  /\ \/ UNCHANGED ledger
     \/ ledger' = IF \E e \in ledger : e.id = LagoEvent(q).id THEN ledger
                  ELSE ledger \cup {LagoEvent(q)}
  /\ UNCHANGED clock

BillInit == clock = 0 /\ callbacks = << >> /\ ledger = {}

BillNext ==
  \/ NextSecond
  \/ \E q \in Completions :
       \/ \E alias \in Aliases : StartCallback(q, alias)
       \/ PostEvent(q) \/ PostRefused(q) \/ PostRaises(q)

BillSpec == BillInit /\ [][BillNext]_billVars

---------------------------------------------------------------------------
BillTypeOK ==
  /\ clock \in 0 .. ClockBound
  /\ DOMAIN callbacks \subseteq Completions
  /\ \A e \in ledger : e.alias \in Aliases /\ e.second \in 0 .. clock /\ e.of \in Completions

SameSecond(p, q) ==
  /\ p \in DOMAIN callbacks /\ callbacks[p].alias = callbacks[q].alias
  /\ callbacks[p].second = callbacks[q].second

\* There is no way for usage to go unbilled but three: Lago refused its event, or
\* the post of it or of an earlier one raised, or Lago took it for the event of
\* another request of the same tenant in the same second. And no request is
\* billed twice for one kind (log_success_event, lago_callback.py).
UnbilledHasACause ==
  /\ \A q \in DOMAIN callbacks : \A i \in 1 .. callbacks[q].posted :
       EventKinds[i] \notin callbacks[q].lost =>
         \E e \in ledger : e.kind = EventKinds[i] /\ (e.of = q \/ SameSecond(e.of, q))
  /\ \A d, e \in ledger : d.of = e.of /\ d.kind = e.kind => d = e

\* What the documentation says: every completed call fires a usage event for
\* billing. Even when nothing is refused and nothing raises, of two requests of a
\* tenant in one second only one is billed (log_success_event, lago_callback.py).
EveryCallIsBilled ==
  \A q \in DOMAIN callbacks : ~Posting(q) /\ callbacks[q].lost = {} =>
    \A i \in DOMAIN EventKinds : \E e \in ledger : e.kind = EventKinds[i] /\ e.of = q

==========================================================================
