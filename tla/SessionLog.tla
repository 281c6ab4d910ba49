----------------------------- MODULE SessionLog -----------------------------
(***************************************************************************)
(* What the runtime promises its clients about sessions, without threads,  *)
(* caches or half-done operations: a session is opened once, with a first  *)
(* entry in its log; while it is open its log only grows; it is closed     *)
(* once, after its log says so, and never comes back.                      *)
(***************************************************************************)
EXTENDS Sequences

CONSTANTS
    Sessions,
    Entries,  \* what a log can hold
    Closing   \* those that announce the end of their session

VARIABLES
    open,  \* the sessions that can be used
    log,   \* their logs; the empty sequence for every other session
    gone   \* sessions that were open

vars == <<open, log, gone>>

Init ==
    /\ open = {} /\ gone = {}
    /\ log = [s \in Sessions |-> <<>>]

Open(s, e) ==
    /\ s \notin open \cup gone
    /\ open' = open \cup {s}
    /\ log' = [log EXCEPT ![s] = <<e>>]
    /\ UNCHANGED gone

Record(s, e) ==
    /\ s \in open
    /\ log' = [log EXCEPT ![s] = Append(@, e)]
    /\ UNCHANGED <<open, gone>>

Close(s) ==
    /\ s \in open
    /\ \E i \in DOMAIN log[s] : log[s][i] \in Closing
    /\ open' = open \ {s}
    /\ log' = [log EXCEPT ![s] = <<>>]
    /\ gone' = gone \cup {s}

\* The service stops; all its sessions are lost.  A session it was about to open
\* may be lost before any client has seen it.
Restart ==
    /\ open' = {}
    /\ log' = [s \in Sessions |-> <<>>]
    /\ gone \cup open \subseteq gone'
    /\ gone' \subseteq Sessions

Next ==
    \/ \E s \in Sessions : Close(s) \/ \E e \in Entries : Open(s, e) \/ Record(s, e)
    \/ Restart

Spec == Init /\ [][Next]_vars
=============================================================================
