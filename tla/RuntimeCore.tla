---------------------------- MODULE RuntimeCore ----------------------------
(***************************************************************************)
(* The runtime-core service (runtime_core/main.py): sessions, their event  *)
(* logs, and the cache that makes invokes idempotent.                      *)
(*                                                                         *)
(* The endpoints are plain "def" functions, so every request runs in a     *)
(* thread of Starlette's pool.  The four module-level dicts are shared     *)
(* without a lock: one dict operation is atomic under the interpreter      *)
(* lock, a sequence of them is not.  Each action below is one such         *)
(* operation of one request, with the tests on local data that follow it;  *)
(* a KeyError or RuntimeError that the code lets escape is the answer 500. *)
(*                                                                         *)
(* A request records at most one event, so an event is named by the        *)
(* request that records it; and a result is named by the invoke that       *)
(* computed it.  A log holds an event from its first moment on, so the     *)
(* empty sequence stands for a missing entry of _events.                   *)
(***************************************************************************)
EXTENDS Integers, Sequences, FiniteSets

CONSTANTS
    Requests,    \* HTTP requests, each handled once
    Sids,        \* session ids uuid4 may return, all different
    Keys,        \* values of the X-Idempotency-Key header
    None,        \* no header; a missing entry of a dict
    Threads,     \* number of pool threads
    TTL,         \* IDEMPOTENCY_TTL_SECONDS in clock ticks
    MaxClock,    \* bound: ticks of the clock
    MaxRestarts  \* bound: crashes and shutdowns of the service

ASSUME RuntimeAssumption ==
    /\ IsFiniteSet(Requests) /\ IsFiniteSet(Keys)
    /\ None \notin Requests \cup Keys \cup Sids \cup Int
    /\ Threads \in Nat \ {0} /\ TTL \in Nat
    /\ MaxClock \in Nat /\ MaxRestarts \in Nat

VARIABLES
    sessions,  \* _sessions: the ids it holds
    events,    \* _events
    results,   \* _idempotency_results
    stamps,    \* _idempotency_timestamps
    clock,     \* time.time()
    pc,        \* what each request executes next
    op,        \* the endpoint it called
    sid,       \* its session_id
    key,       \* its idempotency key
    seen,      \* current_time of its _cleanup_stale
    size,      \* number of entries its scan found at first
    doomed,    \* expired_keys still to be removed
    cursor,    \* the key being removed
    answer,    \* the HTTP answer
    used,      \* ids uuid4 has returned
    ran,       \* history: invokes that recorded their event in this process
    ranAt,     \* history: when they did
    restarts   \* number of crashes and shutdowns so far

dicts == <<sessions, events, results, stamps>>
locals == <<op, sid, key>>
scan == <<seen, size, doomed, cursor>>
history == <<ran, ranAt>>
env == <<clock, used, restarts>>
vars == <<dicts, pc, locals, scan, answer, history, env>>

Active == {r \in Requests : pc[r] \notin {"idle", "done", "lost"}}

\* An id that init has put in _sessions but not told its client yet: nobody
\* else can name it.
Unannounced == {sid[q] : q \in {p \in Requests : pc[p] = "put_events"}}

Stamped == {k \in Keys : stamps[k] # None}

Goto(r, label) == pc' = [pc EXCEPT ![r] = label]

Reply(r, status) ==
    /\ Goto(r, "done")
    /\ answer' = [answer EXCEPT ![r] = status]

(***************************************************************************)
(* Requests arrive: the checks before the first write.                     *)
(***************************************************************************)
Arrive(r, o, s, k) ==
    /\ pc[r] = "idle"
    /\ Cardinality(Active) < Threads
    /\ op' = [op EXCEPT ![r] = o]
    /\ sid' = [sid EXCEPT ![r] = s]
    /\ key' = [key EXCEPT ![r] = k]
    /\ UNCHANGED <<dicts, scan, history, env>>

\* _validate_api_key refuses; it makes no difference to which endpoint.
Unauthorized(r) ==
    /\ Arrive(r, "invoke", None, None)
    /\ Reply(r, "401")

NotFound(r, o, s) ==
    /\ o \in {"invoke", "stream", "close"}
    /\ s \notin sessions
    /\ Arrive(r, o, s, None)
    /\ Reply(r, "404")

TooLarge(r, s) ==
    /\ s \in sessions \ Unannounced
    /\ Arrive(r, "invoke", s, None)
    /\ Reply(r, "413")

StartInit(r) ==
    /\ Arrive(r, "init", None, None)
    /\ Goto(r, "scan")
    /\ UNCHANGED answer

StartInvoke(r, s, k) ==
    /\ s \in sessions \ Unannounced
    /\ Arrive(r, "invoke", s, k)
    /\ Goto(r, "scan")
    /\ UNCHANGED answer

\* stream only reads; its _events.get(session_id, []) cannot fail.
Stream(r, s) ==
    /\ s \in sessions \ Unannounced
    /\ Arrive(r, "stream", s, None)
    /\ Reply(r, "200")

StartClose(r, s) ==
    /\ s \in sessions \ Unannounced
    /\ Arrive(r, "close", s, None)
    /\ Goto(r, "close_append")
    /\ UNCHANGED answer

(***************************************************************************)
(* _cleanup_stale.  The scan is a list comprehension over the items of     *)
(* _idempotency_timestamps: other threads may run while it iterates.  If   *)
(* the number of entries is not the same at the end, the interpreter       *)
(* raises RuntimeError; if entries were replaced or removed and added      *)
(* meanwhile, the scan may or may not have met the old ones.               *)
(***************************************************************************)
\* Mutant: results are kept one tick too long.
ExpiredLate(k, now) == stamps[k] # None /\ now - stamps[k] > TTL + 1

Expired(k, now) == stamps[k] # None /\ now - stamps[k] > TTL

\* Where a request goes when it has only the keys of rest left to remove.
AfterScan(r, rest) ==
    IF rest # {} THEN "sweep"
    ELSE IF op[r] = "init" THEN "put_session"
    ELSE IF key[r] = None THEN "append"
    ELSE "lookup"

ScanStarts(r) ==
    /\ pc[r] = "scan"
    /\ seen' = [seen EXCEPT ![r] = clock]
    /\ size' = [size EXCEPT ![r] = Cardinality(Stamped)]
    /\ doomed' = [doomed EXCEPT ![r] = {k \in Keys : Expired(k, clock)}]
    /\ Goto(r, "scanning")
    /\ UNCHANGED <<dicts, locals, cursor, answer, history, env>>

ScanFails(r) ==
    /\ pc[r] = "scanning"
    /\ Cardinality(Stamped) # size[r]
    /\ Reply(r, "500")
    /\ UNCHANGED <<dicts, locals, scan, history, env>>

ScanEnds(r) ==
    /\ pc[r] = "scanning"
    /\ Cardinality(Stamped) = size[r]
    /\ \E met \in SUBSET doomed[r] :
          /\ {k \in doomed[r] : Expired(k, seen[r])} \subseteq met
          /\ doomed' = [doomed EXCEPT ![r] = met]
          /\ Goto(r, AfterScan(r, met))
    /\ UNCHANGED <<dicts, locals, seen, size, cursor, answer, history, env>>

\* Mutant: the first of the two removals is forgotten.
PopNoResult(r, k) ==
    /\ pc[r] = "sweep"
    /\ k \in doomed[r]
    /\ cursor' = [cursor EXCEPT ![r] = k]
    /\ Goto(r, "pop_stamp")
    /\ UNCHANGED <<dicts, locals, seen, size, doomed, answer, history, env>>

PopResult(r, k) ==
    /\ pc[r] = "sweep"
    /\ k \in doomed[r]
    /\ results' = [results EXCEPT ![k] = None]
    /\ cursor' = [cursor EXCEPT ![r] = k]
    /\ Goto(r, "pop_stamp")
    /\ UNCHANGED <<sessions, events, stamps, locals, seen, size, doomed, answer, history, env>>

PopStamp(r) ==
    /\ pc[r] = "pop_stamp"
    /\ stamps' = [stamps EXCEPT ![cursor[r]] = None]
    /\ doomed' = [doomed EXCEPT ![r] = @ \ {cursor[r]}]
    /\ Goto(r, AfterScan(r, doomed[r] \ {cursor[r]}))
    /\ UNCHANGED <<sessions, events, results, locals, seen, size, cursor, answer, history, env>>

(***************************************************************************)
(* init_runtime                                                            *)
(***************************************************************************)
PutSession(r, s) ==
    /\ pc[r] = "put_session"
    /\ s \notin used
    /\ used' = used \cup {s}
    /\ sid' = [sid EXCEPT ![r] = s]
    /\ sessions' = sessions \cup {s}
    /\ Goto(r, "put_events")
    /\ UNCHANGED <<events, results, stamps, op, key, scan, answer, history, clock, restarts>>

PutEvents(r) ==
    /\ pc[r] = "put_events"
    /\ events' = [events EXCEPT ![sid[r]] = <<r>>]
    /\ Reply(r, "200")
    /\ UNCHANGED <<sessions, results, stamps, locals, scan, history, env>>

(***************************************************************************)
(* invoke, after _cleanup_stale                                            *)
(***************************************************************************)
\* Mutant: the cache is never asked.
LookupNothing(r) ==
    /\ pc[r] = "lookup"
    /\ Goto(r, "append")
    /\ UNCHANGED <<dicts, locals, scan, answer, history, env>>

Lookup(r) ==
    /\ pc[r] = "lookup"
    /\ Goto(r, IF results[key[r]] # None THEN "replay" ELSE "append")
    /\ UNCHANGED <<dicts, locals, scan, answer, history, env>>

\* Mutant: the event is recorded before the cache is asked.
ReplayRecorded(r) ==
    /\ pc[r] = "replay"
    /\ Reply(r, IF results[key[r]] # None THEN "replayed" ELSE "500")
    /\ events' = [events EXCEPT ![sid[r]] = Append(@, r)]
    /\ UNCHANGED <<sessions, results, stamps, locals, scan, history, env>>

\* The entry is read again: another thread may have removed it since.
Replay(r) ==
    /\ pc[r] = "replay"
    /\ Reply(r, IF results[key[r]] # None THEN "replayed" ELSE "500")
    /\ UNCHANGED <<dicts, locals, scan, history, env>>

HasLog(s) == events[s] # <<>>

\* The list is looked up before the event is built: an append to a list removed in
\* between has the outcome of one just before the removal.
AppendEvent(r) ==
    /\ pc[r] = "append"
    /\ HasLog(sid[r])
    /\ events' = [events EXCEPT ![sid[r]] = Append(@, r)]
    /\ ran' = ran \cup {r}
    /\ ranAt' = [ranAt EXCEPT ![r] = clock]
    /\ Goto(r, "touch")
    /\ UNCHANGED <<sessions, results, stamps, locals, scan, answer, env>>

AppendFails(r) ==
    /\ pc[r] \in {"append", "close_append"}
    /\ ~HasLog(sid[r])
    /\ Reply(r, "500")
    /\ UNCHANGED <<dicts, locals, scan, history, env>>

\* Mutant: the session is put back instead of looked up (setdefault).
TouchOrInsert(r) ==
    /\ pc[r] = "touch"
    /\ sessions' = sessions \cup {sid[r]}
    /\ \/ key[r] = None /\ Reply(r, "accepted")
       \/ key[r] # None /\ Goto(r, "save_result") /\ UNCHANGED answer
    /\ UNCHANGED <<events, results, stamps, locals, scan, history, env>>

\* _sessions[session_id].last_accessed = now; the time itself is never read.
Touch(r) ==
    /\ pc[r] = "touch"
    /\ \/ sid[r] \notin sessions /\ Reply(r, "500")
       \/ sid[r] \in sessions /\ key[r] = None /\ Reply(r, "accepted")
       \/ sid[r] \in sessions /\ key[r] # None /\ Goto(r, "save_result") /\ UNCHANGED answer
    /\ UNCHANGED <<dicts, locals, scan, history, env>>

SaveResult(r) ==
    /\ pc[r] = "save_result"
    /\ results' = [results EXCEPT ![key[r]] = r]
    /\ Goto(r, "save_stamp")
    /\ UNCHANGED <<sessions, events, stamps, locals, scan, answer, history, env>>

SaveStamp(r) ==
    /\ pc[r] = "save_stamp"
    /\ stamps' = [stamps EXCEPT ![key[r]] = clock]
    /\ Reply(r, "accepted")
    /\ UNCHANGED <<sessions, events, results, locals, scan, history, env>>

(***************************************************************************)
(* close                                                                   *)
(***************************************************************************)
\* Mutant: the closing event is not recorded.
CloseUnrecorded(r) ==
    /\ pc[r] = "close_append"
    /\ HasLog(sid[r])
    /\ Goto(r, "pop_session")
    /\ UNCHANGED <<dicts, locals, scan, answer, history, env>>

CloseAppend(r) ==
    /\ pc[r] = "close_append"
    /\ HasLog(sid[r])
    /\ events' = [events EXCEPT ![sid[r]] = Append(@, r)]
    /\ Goto(r, "pop_session")
    /\ UNCHANGED <<sessions, results, stamps, locals, scan, answer, history, env>>

PopSession(r) ==
    /\ pc[r] = "pop_session"
    /\ sessions' = sessions \ {sid[r]}
    /\ Goto(r, "pop_events")
    /\ UNCHANGED <<events, results, stamps, locals, scan, answer, history, env>>

\* Mutant: close removes the session only.
PopNoEvents(r) ==
    /\ pc[r] = "pop_events"
    /\ Reply(r, "200")
    /\ UNCHANGED <<dicts, locals, scan, history, env>>

PopEvents(r) ==
    /\ pc[r] = "pop_events"
    /\ events' = [events EXCEPT ![sid[r]] = <<>>]
    /\ Reply(r, "200")
    /\ UNCHANGED <<sessions, results, stamps, locals, scan, history, env>>

(***************************************************************************)
(* Time, and the end of the process.                                       *)
(***************************************************************************)
Tick ==
    /\ clock < MaxClock
    /\ clock' = clock + 1
    /\ UNCHANGED <<dicts, pc, locals, scan, answer, history, used, restarts>>

ForgetSessions ==
    /\ restarts < MaxRestarts
    /\ restarts' = restarts + 1
    /\ sessions' = {}
    /\ events' = [s \in Sids |-> <<>>]
    /\ results' = [k \in Keys |-> None]
    /\ ran' = {}
    /\ UNCHANGED <<locals, scan, answer, ranAt, clock, used>>

\* lifespan on shutdown: no request is running.  It clears three of the four
\* dicts; the timestamps outlive it if the application is started again in the
\* same interpreter.
Shutdown ==
    /\ Active = {}
    /\ ForgetSessions
    /\ UNCHANGED <<stamps, pc>>

\* The process dies and a new one starts.
Crash ==
    /\ ForgetSessions
    /\ stamps' = [k \in Keys |-> None]
    /\ pc' = [r \in Requests |-> IF r \in Active THEN "lost" ELSE pc[r]]

-----------------------------------------------------------------------------
Init ==
    /\ sessions = {}
    /\ events = [s \in Sids |-> <<>>]
    /\ results = [k \in Keys |-> None]
    /\ stamps = [k \in Keys |-> None]
    /\ clock = 0
    /\ pc = [r \in Requests |-> "idle"]
    /\ op = [r \in Requests |-> "none"]
    /\ sid = [r \in Requests |-> None]
    /\ key = [r \in Requests |-> None]
    /\ seen = [r \in Requests |-> 0]
    /\ size = [r \in Requests |-> 0]
    /\ doomed = [r \in Requests |-> {}]
    /\ cursor = [r \in Requests |-> None]
    /\ answer = [r \in Requests |-> "none"]
    /\ used = {}
    /\ ran = {}
    /\ ranAt = [r \in Requests |-> 0]
    /\ restarts = 0

Arrivals(r) ==
    \/ Unauthorized(r)
    \/ StartInit(r)
    \/ \E s \in Sids :
          \/ \E o \in {"invoke", "stream", "close"} : NotFound(r, o, s)
          \/ TooLarge(r, s)
          \/ \E k \in Keys \cup {None} : StartInvoke(r, s, k)
          \/ Stream(r, s)
          \/ StartClose(r, s)

Cleanup(r) ==
    \/ ScanStarts(r) \/ ScanFails(r) \/ ScanEnds(r)
    \/ \E k \in Keys : PopResult(r, k)
    \/ PopStamp(r)

Handler(r) ==
    \/ Cleanup(r)
    \/ \E s \in Sids : PutSession(r, s)
    \/ PutEvents(r)
    \/ Lookup(r) \/ Replay(r) \/ AppendEvent(r) \/ AppendFails(r) \/ Touch(r)
    \/ SaveResult(r) \/ SaveStamp(r)
    \/ CloseAppend(r) \/ PopSession(r) \/ PopEvents(r)

Next == (\E r \in Requests : Arrivals(r) \/ Handler(r)) \/ Tick \/ Shutdown \/ Crash

Spec == Init /\ [][Next]_vars

(***************************************************************************)
(* The sessions the clients see: a session is open while both dicts hold   *)
(* it, and gone when it was open and one of them has let it go.            *)
(***************************************************************************)
OpenSessions == {s \in sessions : HasLog(s)}
GoneSessions == (used \ Unannounced) \ OpenSessions

LogEntries == [by : Requests, closing : BOOLEAN]
Entry(r) == [by |-> r, closing |-> op[r] = "close"]
LogOf(s) == [i \in DOMAIN events[s] |-> Entry(events[s][i])]
ClientLog == [s \in Sids |-> IF s \in OpenSessions THEN LogOf(s) ELSE <<>>]

Log == INSTANCE SessionLog WITH
    Sessions <- Sids,
    Entries <- LogEntries,
    Closing <- {e \in LogEntries : e.closing},
    open <- OpenSessions,
    log <- ClientLog,
    gone <- GoneSessions

(***************************************************************************)
(* Properties                                                              *)
(***************************************************************************)
Labels ==
    {"idle", "done", "lost", "scan", "scanning", "sweep", "pop_stamp", "put_session",
     "put_events", "lookup", "replay", "append", "touch", "save_result", "save_stamp",
     "close_append", "pop_session", "pop_events"}

Answers == {"none", "200", "accepted", "replayed", "401", "404", "413", "500"}

\* Every variable has its type.
TypeOK ==
    /\ sessions \in SUBSET Sids /\ used \in SUBSET Sids
    /\ events \in [Sids -> Seq(Requests)]
    /\ results \in [Keys -> Requests \cup {None}]
    /\ stamps \in [Keys -> Nat \cup {None}]
    /\ clock \in Nat /\ restarts \in Nat
    /\ pc \in [Requests -> Labels]
    /\ op \in [Requests -> {"none", "init", "invoke", "stream", "close"}]
    /\ sid \in [Requests -> Sids \cup {None}]
    /\ key \in [Requests -> Keys \cup {None}]
    /\ seen \in [Requests -> Nat] /\ size \in [Requests -> Nat]
    /\ doomed \in [Requests -> SUBSET Keys]
    /\ cursor \in [Requests -> Keys \cup {None}]
    /\ answer \in [Requests -> Answers]
    /\ ran \in SUBSET Requests /\ ranAt \in [Requests -> Nat]

\* Requests between the two writes of init, and between the two of close.
Initialising(s) == \E r \in Requests : pc[r] = "put_events" /\ sid[r] = s
Closing(s) == \E r \in Requests : pc[r] = "pop_events" /\ sid[r] = s

\* The two dicts a session lives in never drift apart, whatever the threads
\* interleave: a session without a log is one that init is still creating, a log
\* without a session is one that close is still removing.  (So no log leaks, and
\* no open session answers 500 for want of its log.)
SessionEventsAgree ==
    /\ \A s \in sessions : HasLog(s) \/ Initialising(s)
    /\ \A s \in Sids : HasLog(s) => s \in sessions \/ Closing(s)

\* A closed session is gone for good: once close was answered 200, no invoke,
\* close or stale handler that was still running brings back either entry.
ClosedStaysClosed ==
    \A r \in Requests :
        op[r] = "close" /\ answer[r] = "200" => sid[r] \notin sessions /\ ~HasLog(sid[r])

\* How often request r occurs in a log.
Occurrences(r, s) == Cardinality({i \in DOMAIN events[s] : events[s][i] = r})

\* The log of an open session is the truth about its invokes: accepted ones are
\* in it exactly once; refused and replayed ones, and any answered 500, are not.
\* (A 500 may leave an event behind only in a session that is being closed.)
LogMatchesAnswers ==
    \A r \in Requests :
        op[r] = "invoke" /\ sid[r] \in sessions /\ pc[r] = "done" =>
            \A s \in Sids :
                Occurrences(r, s) = (IF answer[r] = "accepted" /\ s = sid[r] THEN 1 ELSE 0)

\* However the dict operations of several threads interleave, a session looks to
\* the clients as if it were opened, recorded in and closed in one step each.
ImplementsSessionLog == Log!Spec

\* Idempotent invokes (README.md:8 of the service): two invokes with one key are
\* not both executed unless more than the TTL lies between them.
Idempotent ==
    \A q, r \in ran :
        q # r /\ key[q] = key[r] /\ key[q] # None =>
            ranAt[r] - ranAt[q] > TTL \/ ranAt[q] - ranAt[r] > TTL

\* Cached results can expire: _cleanup_stale finds entries by their timestamp
\* only, so a result without one would be kept, and replayed, for ever.
ResultsAreStamped ==
    \A k \in Keys :
        results[k] # None =>
            stamps[k] # None \/ \E r \in Requests : pc[r] = "save_stamp" /\ key[r] = k

\* A result is replayed only if it had not expired when the request cleaned up.
NoStaleReplay ==
    \A r \in Requests :
        pc[r] = "replay" =>
            /\ results[key[r]] # None /\ stamps[key[r]] # None
            /\ seen[r] - stamps[key[r]] <= TTL
=============================================================================
