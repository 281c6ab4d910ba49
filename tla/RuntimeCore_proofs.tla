------------------------- MODULE RuntimeCore_proofs -------------------------
(***************************************************************************)
(* What holds of the runtime core for any number of requests, sessions,    *)
(* keys and threads, whatever the threads interleave.                      *)
(***************************************************************************)
EXTENDS RuntimeCore, FiniteSetTheorems, SequenceTheorems, TLAPS

(***************************************************************************)
(* Types                                                                   *)
(***************************************************************************)
LEMMA AfterScanType ==
    ASSUME NEW r, NEW rest
    PROVE  AfterScan(r, rest) \in {"sweep", "put_session", "append", "lookup"}
BY DEF AfterScan

LEMMA StampedFinite == Cardinality(Stamped) \in Nat
<1>1. Stamped \subseteq Keys  BY DEF Stamped
<1> QED BY <1>1, RuntimeAssumption, FS_Subset, FS_CardinalityType

LEMMA TypeInit == Init => TypeOK
BY DEF Init, TypeOK, Labels, Answers

LEMMA ArrivalsType ==
    ASSUME TypeOK, NEW r \in Requests, Arrivals(r)
    PROVE  TypeOK'
<1>1. PICK o \in {"init", "invoke", "stream", "close"},
           s \in Sids \cup {None}, k \in Keys \cup {None} :
        /\ Arrive(r, o, s, k)
        /\ \/ \E status \in Answers : Reply(r, status)
           \/ \E label \in {"scan", "close_append"} : Goto(r, label) /\ UNCHANGED answer
    BY DEF Arrivals, Unauthorized, NotFound, TooLarge, StartInit, StartInvoke, Stream,
           StartClose, Answers
<1>2. /\ pc' \in [Requests -> Labels] /\ answer' \in [Requests -> Answers]
    <2>1. ASSUME NEW status \in Answers, Reply(r, status)
          PROVE  /\ pc' \in [Requests -> Labels] /\ answer' \in [Requests -> Answers]
        BY <2>1 DEF Reply, Goto, TypeOK, Labels
    <2>2. ASSUME NEW label \in {"scan", "close_append"}, Goto(r, label), UNCHANGED answer
          PROVE  /\ pc' \in [Requests -> Labels] /\ answer' \in [Requests -> Answers]
        BY <2>2 DEF Goto, TypeOK, Labels
    <2> QED BY <1>1, <2>1, <2>2
<1>3. /\ op' \in [Requests -> {"none", "init", "invoke", "stream", "close"}]
      /\ sid' \in [Requests -> Sids \cup {None}]
      /\ key' \in [Requests -> Keys \cup {None}]
    BY <1>1 DEF Arrive, TypeOK
<1> QED BY <1>1, <1>2, <1>3 DEF Arrive, dicts, scan, history, env, TypeOK

LEMMA CleanupType ==
    ASSUME TypeOK, NEW r \in Requests, Cleanup(r)
    PROVE  TypeOK'
<1> USE DEF locals, scan, dicts, history, env, Reply, Goto
<1>1. CASE ScanStarts(r)
    BY <1>1, StampedFinite DEF ScanStarts, TypeOK, Labels
<1>2. CASE ScanFails(r)
    BY <1>2 DEF ScanFails, TypeOK, Labels, Answers
<1>3. CASE ScanEnds(r)
    <2>1. PICK met \in SUBSET doomed[r] :
             /\ doomed' = [doomed EXCEPT ![r] = met]
             /\ pc' = [pc EXCEPT ![r] = AfterScan(r, met)]
        BY <1>3 DEF ScanEnds
    <2>2. AfterScan(r, met) \in Labels
        BY AfterScanType DEF Labels
    <2>3. met \subseteq Keys
        BY DEF TypeOK
    <2> QED BY <1>3, <2>1, <2>2, <2>3 DEF ScanEnds, TypeOK
<1>4. ASSUME NEW k \in Keys, PopResult(r, k)
      PROVE  TypeOK'
    BY <1>4 DEF PopResult, TypeOK, Labels
<1>5. CASE PopStamp(r)
    <2>1. AfterScan(r, doomed[r] \ {cursor[r]}) \in Labels
        BY AfterScanType DEF Labels
    <2> QED BY <1>5, <2>1 DEF PopStamp, TypeOK
<1> QED BY <1>1, <1>2, <1>3, <1>4, <1>5 DEF Cleanup

LEMMA HandlerType ==
    ASSUME TypeOK, NEW r \in Requests, Handler(r)
    PROVE  TypeOK'
<1> USE DEF locals, scan, dicts, history, env, Reply, Goto, TypeOK, Labels, Answers
<1>1. CASE Cleanup(r)
    BY <1>1, CleanupType
<1>2. ASSUME NEW s \in Sids, PutSession(r, s)
      PROVE  TypeOK'
    BY <1>2 DEF PutSession
<1>3. CASE PutEvents(r)
    <2>1. <<r>> \in Seq(Requests)  OBVIOUS
    <2> QED BY <1>3, <2>1 DEF PutEvents
<1>4. CASE Lookup(r)
    BY <1>4 DEF Lookup
<1>5. CASE Replay(r)
    BY <1>5 DEF Replay
<1>6. CASE AppendEvent(r)
    <2>1. \A s \in Sids : Append(events[s], r) \in Seq(Requests)
        OBVIOUS
    <2> QED BY <1>6, <2>1 DEF AppendEvent
<1>7. CASE AppendFails(r)
    BY <1>7 DEF AppendFails
<1>8. CASE Touch(r)
    BY <1>8 DEF Touch
<1>9. CASE SaveResult(r)
    BY <1>9 DEF SaveResult
<1>10. CASE SaveStamp(r)
    BY <1>10 DEF SaveStamp
<1>11. CASE CloseAppend(r)
    <2>1. \A s \in Sids : Append(events[s], r) \in Seq(Requests)
        OBVIOUS
    <2> QED BY <1>11, <2>1 DEF CloseAppend
<1>12. CASE PopSession(r)
    BY <1>12 DEF PopSession
<1>13. CASE PopEvents(r)
    <2>1. <<>> \in Seq(Requests)  OBVIOUS
    <2> QED BY <1>13, <2>1 DEF PopEvents
<1> QED BY <1>1, <1>2, <1>3, <1>4, <1>5, <1>6, <1>7, <1>8, <1>9, <1>10, <1>11, <1>12, <1>13
        DEF Handler

LEMMA TypeStep == TypeOK /\ [Next]_vars => TypeOK'
<1> SUFFICES ASSUME TypeOK, [Next]_vars PROVE TypeOK'
    OBVIOUS
<1>1. CASE UNCHANGED vars
    BY <1>1 DEF vars, dicts, locals, scan, history, env, TypeOK
<1>2. CASE Tick
    BY <1>2 DEF Tick, dicts, locals, scan, history, TypeOK
<1>3. ASSUME ForgetSessions, pc' \in [Requests -> Labels], stamps' \in [Keys -> Nat \cup {None}]
      PROVE  TypeOK'
    <2>1. <<>> \in Seq(Requests)  OBVIOUS
    <2> QED BY <1>3, <2>1 DEF ForgetSessions, locals, scan, TypeOK
<1>4. CASE Shutdown
    BY <1>3, <1>4 DEF Shutdown, TypeOK
<1>5. CASE Crash
    <2>1. pc' \in [Requests -> Labels] /\ stamps' \in [Keys -> Nat \cup {None}]
        BY <1>5 DEF Crash, TypeOK, Labels
    <2> QED BY <1>3, <1>5, <2>1 DEF Crash
<1> QED BY <1>1, <1>2, <1>4, <1>5, ArrivalsType, HandlerType DEF Next

\* Every variable of the runtime keeps its type.
THEOREM TypeCorrect == Spec => []TypeOK
BY TypeInit, TypeStep, PTL DEF Spec

(***************************************************************************)
(* Sessions.  The two dicts are written one after the other, so the        *)
(* invariant has to say who may still write to a session: an id that init  *)
(* has put in _sessions is nobody else's until its log is there, an id     *)
(* that close has removed was used and is never drawn again.               *)
(***************************************************************************)
CleanupLabels == {"scan", "scanning", "sweep", "pop_stamp"}
InvokeLabels == {"lookup", "replay", "append", "touch", "save_result", "save_stamp"}
CloseLabels == {"close_append", "pop_session", "pop_events"}

\* The endpoint of a request, and the session it names, at every label.
Phases ==
    \A r \in Requests :
        /\ pc[r] \in CleanupLabels => op[r] \in {"init", "invoke"}
        /\ pc[r] \in InvokeLabels => op[r] = "invoke"
        /\ pc[r] \in CloseLabels => op[r] = "close"
        /\ pc[r] \in {"put_session", "put_events"} => op[r] = "init"
        /\ r \in Active /\ op[r] = "init" /\ pc[r] # "put_events" => sid[r] = None
        /\ r \in Active /\ op[r] # "init" => sid[r] \in used
        /\ pc[r] = "put_events" => sid[r] \in sessions
        /\ pc[r] = "pop_events" => sid[r] \notin sessions

Unanswered == \A r \in Requests : pc[r] # "done" => answer[r] = "none"

\* An id that is not announced yet has one user, the init that drew it.
Private ==
    \A r, q \in Requests :
        pc[r] = "put_events" /\ q \in Active /\ sid[q] = sid[r] => q = r

UsedOnce ==
    /\ \A s \in Sids : s \in sessions \/ HasLog(s) => s \in used
    /\ \A r \in Requests : op[r] = "close" /\ answer[r] = "200" => sid[r] \in used

SessionInv ==
    /\ TypeOK
    /\ Phases /\ Unanswered /\ Private /\ UsedOnce
    /\ SessionEventsAgree /\ ClosedStaysClosed

LEMMA SessionInit == Init => SessionInv
<1> SUFFICES ASSUME Init PROVE SessionInv
    OBVIOUS
<1>1. TypeOK  BY TypeInit
<1>2. Phases /\ Unanswered /\ Private
    BY DEF Init, Phases, Unanswered, Private, Active, CleanupLabels, InvokeLabels, CloseLabels
<1>3. UsedOnce /\ SessionEventsAgree /\ ClosedStaysClosed
    BY DEF Init, UsedOnce, HasLog, SessionEventsAgree, ClosedStaysClosed
<1> QED BY <1>1, <1>2, <1>3 DEF SessionInv

(***************************************************************************)
(* Most steps of a request leave both dicts, and its session, alone.       *)
(***************************************************************************)
LEMMA LocalStep ==
    ASSUME SessionInv, TypeOK', NEW r \in Requests,
           UNCHANGED <<sessions, events, used, op, sid>>,
           pc[r] \in CleanupLabels \cup InvokeLabels \cup {"close_append"},
           \A q \in Requests \ {r} : pc'[q] = pc[q] /\ answer'[q] = answer[q],
           \/ pc'[r] = "done" /\ (op[r] = "close" => answer'[r] # "200")
           \/ /\ pc'[r] \in CleanupLabels \cup InvokeLabels \cup {"put_session"}
              /\ answer'[r] = answer[r]
              /\ pc'[r] \in CleanupLabels => pc[r] \in CleanupLabels
              /\ pc'[r] \in InvokeLabels => op[r] = "invoke"
              /\ pc'[r] = "put_session" => op[r] = "init"
    PROVE  SessionInv'
<1> USE DEF SessionInv, CleanupLabels, InvokeLabels, CloseLabels
<1>1. Phases'
    BY DEF Phases, Active
<1>2. Unanswered' /\ Private'
    BY DEF Phases, Unanswered, Private, Active
<1>3. UsedOnce'
    BY DEF UsedOnce, HasLog, Unanswered, Phases
<1>4. SessionEventsAgree'
    <2>1. \A s \in Sids : Initialising(s)' = Initialising(s) /\ Closing(s)' = Closing(s)
        BY DEF Initialising, Closing
    <2>2. \A s \in Sids : HasLog(s)' = HasLog(s)
        BY DEF HasLog
    <2>3. sessions \subseteq Sids
        BY DEF TypeOK
    <2> QED BY <2>1, <2>2, <2>3 DEF SessionEventsAgree
<1>5. ClosedStaysClosed'
    BY DEF ClosedStaysClosed, HasLog, Unanswered
<1> QED BY <1>1, <1>2, <1>3, <1>4, <1>5

\* A request that arrives names a session that is announced, or none.
LEMMA ArrivalStep ==
    ASSUME SessionInv, TypeOK', NEW r \in Requests, Arrivals(r)
    PROVE  SessionInv'
<1> USE DEF SessionInv
<1> DEFINE Arrived ==
              \/ pc'[r] = "done" /\ (op'[r] = "close" => answer'[r] # "200")
              \/ pc'[r] = "scan" /\ op'[r] = "init" /\ sid'[r] = None /\ answer'[r] = answer[r]
              \/ /\ sid'[r] \in sessions \ Unannounced /\ answer'[r] = answer[r]
                 /\ \/ pc'[r] = "scan" /\ op'[r] = "invoke"
                    \/ pc'[r] = "close_append" /\ op'[r] = "close"
<1>0. PICK o, s, k : Arrive(r, o, s, k)
    BY DEF Arrivals, Unauthorized, NotFound, TooLarge, StartInit, StartInvoke, Stream,
           StartClose
<1>1. /\ pc[r] = "idle" /\ UNCHANGED <<sessions, events, used>>
      /\ \A q \in Requests \ {r} : /\ pc'[q] = pc[q] /\ answer'[q] = answer[q]
                                   /\ op'[q] = op[q] /\ sid'[q] = sid[q]
      /\ Arrived
    <2>1. /\ pc[r] = "idle" /\ UNCHANGED <<sessions, events, used>>
          /\ \A q \in Requests \ {r} : op'[q] = op[q] /\ sid'[q] = sid[q]
        BY <1>0 DEF Arrive, dicts, env, TypeOK
    <2>2. \A q \in Requests \ {r} : pc'[q] = pc[q] /\ answer'[q] = answer[q]
        <3>1. \/ \E status : Reply(r, status)
              \/ \E label : Goto(r, label) /\ UNCHANGED answer
            BY DEF Arrivals, Unauthorized, NotFound, TooLarge, StartInit, StartInvoke,
                   Stream, StartClose
        <3> QED BY <3>1 DEF Reply, Goto, TypeOK
    <2>3. ASSUME Unauthorized(r)
          PROVE  Arrived
        <3>1. pc'[r] = "done" /\ answer'[r] = "401"
            BY <2>3 DEF Unauthorized, Reply, Goto, TypeOK
        <3> QED BY <3>1
    <2>4. ASSUME NEW s1 \in Sids, NEW o1 \in {"invoke", "stream", "close"}, NotFound(r, o1, s1)
          PROVE  Arrived
        <3>1. pc'[r] = "done" /\ answer'[r] = "404"
            BY <2>4 DEF NotFound, Reply, Goto, TypeOK
        <3> QED BY <3>1
    <2>5. ASSUME NEW s1 \in Sids, TooLarge(r, s1)
          PROVE  Arrived
        BY <2>5 DEF TooLarge, Arrive, Reply, Goto, TypeOK
    <2>6. ASSUME StartInit(r)
          PROVE  Arrived
        <3>1. pc'[r] = "scan" /\ answer'[r] = answer[r]
            BY <2>6 DEF StartInit, Goto, TypeOK
        <3>2. op'[r] = "init"
            BY <2>6 DEF StartInit, Arrive, TypeOK
        <3>3. sid'[r] = None
            BY <2>6 DEF StartInit, Arrive, TypeOK
        <3> QED BY <3>1, <3>2, <3>3
    <2>7. ASSUME NEW s1 \in Sids, NEW k1 \in Keys \cup {None}, StartInvoke(r, s1, k1)
          PROVE  Arrived
        BY <2>7 DEF StartInvoke, Arrive, Goto, TypeOK
    <2>8. ASSUME NEW s1 \in Sids, Stream(r, s1)
          PROVE  Arrived
        BY <2>8 DEF Stream, Arrive, Reply, Goto, TypeOK
    <2>9. ASSUME NEW s1 \in Sids, StartClose(r, s1)
          PROVE  Arrived
        BY <2>9 DEF StartClose, Arrive, Goto, TypeOK
    <2>10. Arrived
        BY <2>3, <2>4, <2>5, <2>6, <2>7, <2>8, <2>9 DEF Arrivals
    <2> QED BY <2>1, <2>2, <2>10
<1>2. answer[r] = "none"
    BY <1>1 DEF Unanswered
<1>3. sid'[r] \in sessions => sid'[r] \in used
    BY DEF UsedOnce, TypeOK
<1>4. Phases'
    BY <1>1, <1>3, RuntimeAssumption
    DEF Phases, Active, CleanupLabels, InvokeLabels, CloseLabels, TypeOK
<1>5. Unanswered'
    BY <1>1, <1>2 DEF Unanswered
<1>6. Private'
    <2> SUFFICES ASSUME NEW p \in Requests, NEW q \in Requests,
                        (pc[p] = "put_events")', (q \in Active)', (sid[q] = sid[p])'
                 PROVE  q = p
        BY DEF Private
    <2>1. p # r /\ pc[p] = "put_events" /\ sid'[p] = sid[p]
        BY <1>1
    <2>2. sid[p] \in Unannounced /\ sid[p] \in Sids
        BY <2>1 DEF Unannounced, Phases, TypeOK
    <2>3. CASE q = r
        BY <2>1, <2>2, <2>3, <1>1, RuntimeAssumption DEF Active
    <2>4. CASE q # r
        BY <2>1, <2>4, <1>1 DEF Private, Active
    <2> QED BY <2>3, <2>4
<1>7. UsedOnce'
    BY <1>1, <1>2 DEF UsedOnce, HasLog
<1>8. SessionEventsAgree'
    <2>1. \A t \in Sids : Initialising(t)' = Initialising(t) /\ Closing(t)' = Closing(t)
        BY <1>1 DEF Initialising, Closing
    <2>2. \A t \in Sids : HasLog(t)' = HasLog(t)
        BY <1>1 DEF HasLog
    <2>3. sessions \subseteq Sids
        BY DEF TypeOK
    <2> QED BY <1>1, <2>1, <2>2, <2>3 DEF SessionEventsAgree
<1>9. ClosedStaysClosed'
    BY <1>1, <1>2 DEF ClosedStaysClosed, HasLog
<1> QED BY <1>4, <1>5, <1>6, <1>7, <1>8, <1>9

LEMMA QuietStep ==
    ASSUME SessionInv, TypeOK', NEW r \in Requests,
           \/ Cleanup(r) \/ Lookup(r) \/ Replay(r) \/ AppendFails(r)
           \/ Touch(r) \/ SaveResult(r) \/ SaveStamp(r)
    PROVE  SessionInv'
<1> USE DEF SessionInv, CleanupLabels, InvokeLabels, CloseLabels
<1>1. /\ UNCHANGED <<sessions, events, used, op, sid>>
      /\ pc[r] \in CleanupLabels \cup InvokeLabels \cup {"close_append"}
    BY DEF Cleanup, ScanStarts, ScanFails, ScanEnds, PopResult, PopStamp, Lookup, Replay,
           AppendFails, Touch, SaveResult, SaveStamp, dicts, locals, env
<1>2. \A q \in Requests \ {r} : pc'[q] = pc[q] /\ answer'[q] = answer[q]
    <2>1. \/ \E status : Reply(r, status)
          \/ \E label : Goto(r, label) /\ UNCHANGED answer
        BY DEF Cleanup, ScanStarts, ScanFails, ScanEnds, PopResult, PopStamp, Lookup, Replay,
               AppendFails, Touch, SaveResult, SaveStamp
    <2> QED BY <2>1 DEF Reply, Goto, TypeOK
<1> DEFINE Moves ==
              \/ pc'[r] = "done" /\ (op[r] = "close" => answer'[r] # "200")
              \/ /\ pc'[r] \in CleanupLabels \cup InvokeLabels \cup {"put_session"}
                 /\ answer'[r] = answer[r]
                 /\ pc'[r] \in CleanupLabels => pc[r] \in CleanupLabels
                 /\ pc'[r] \in InvokeLabels => op[r] = "invoke"
                 /\ pc'[r] = "put_session" => op[r] = "init"
<1>3. ASSUME NEW rest, pc[r] \in CleanupLabels, Goto(r, AfterScan(r, rest)), UNCHANGED answer
      PROVE  Moves
    <2>1. op[r] \in {"init", "invoke"}  BY <1>3 DEF Phases
    <2>2. /\ AfterScan(r, rest) \in {"sweep", "put_session", "append", "lookup"}
          /\ AfterScan(r, rest) = "put_session" => op[r] = "init"
          /\ AfterScan(r, rest) \in {"append", "lookup"} => op[r] = "invoke"
        BY <2>1 DEF AfterScan
    <2>3. pc'[r] = AfterScan(r, rest) /\ answer'[r] = answer[r]
        BY <1>3 DEF Goto, TypeOK
    <2> QED BY <1>3, <2>2, <2>3
<1>4. ASSUME Cleanup(r)
      PROVE  Moves
    <2>1. ASSUME ScanStarts(r)
          PROVE  Moves
        BY <2>1 DEF ScanStarts, Goto, TypeOK
    <2>2. ASSUME ScanFails(r)
          PROVE  Moves
        BY <2>2 DEF ScanFails, Reply, Goto, TypeOK
    <2>3. ASSUME ScanEnds(r)
          PROVE  Moves
        BY <1>3, <2>3 DEF ScanEnds
    <2>4. ASSUME NEW k \in Keys, PopResult(r, k)
          PROVE  Moves
        BY <2>4 DEF PopResult, Goto, TypeOK
    <2>5. ASSUME PopStamp(r)
          PROVE  Moves
        BY <1>3, <2>5 DEF PopStamp
    <2> QED BY <1>4, <2>1, <2>2, <2>3, <2>4, <2>5 DEF Cleanup
<1>5. ASSUME Lookup(r) \/ Replay(r) \/ AppendFails(r)
      PROVE  Moves
    BY <1>5 DEF Lookup, Replay, AppendFails, Reply, Goto, Phases, TypeOK
<1>6. ASSUME Touch(r)
      PROVE  Moves
    BY <1>6 DEF Touch, Reply, Goto, Phases, TypeOK
<1>7. ASSUME SaveResult(r) \/ SaveStamp(r)
      PROVE  Moves
    BY <1>7 DEF SaveResult, SaveStamp, Reply, Goto, Phases, TypeOK
<1>8. Moves
    BY <1>4, <1>5, <1>6, <1>7
<1> QED BY <1>1, <1>2, <1>8, LocalStep

LEMMA PutSessionStep ==
    ASSUME SessionInv, TypeOK', NEW r \in Requests, NEW s \in Sids, PutSession(r, s)
    PROVE  SessionInv'
<1> USE DEF SessionInv
<1>1. /\ pc[r] = "put_session" /\ pc'[r] = "put_events" /\ op[r] = "init" /\ sid'[r] = s
      /\ \A q \in Requests \ {r} : pc'[q] = pc[q] /\ sid'[q] = sid[q]
      /\ s \notin used /\ used' = used \cup {s} /\ sessions' = sessions \cup {s}
      /\ UNCHANGED <<events, op, answer>>
    BY DEF PutSession, Goto, history, Phases, TypeOK
<1>2. \A q \in Active : sid[q] # s
    BY <1>1, RuntimeAssumption DEF Phases, Active, UsedOnce, TypeOK
<1>3. Phases'
    BY <1>1, <1>2 DEF Phases, Active, CleanupLabels, InvokeLabels, CloseLabels, TypeOK
<1>4. Unanswered'  BY <1>1 DEF Unanswered
<1>5. Private'
    BY <1>1, <1>2 DEF Private, Active
<1>6. UsedOnce'
    BY <1>1 DEF UsedOnce, HasLog, Phases, TypeOK
<1>7. SessionEventsAgree'
    <2>1. Initialising(s)'  BY <1>1 DEF Initialising
    <2>2. \A z \in Sids : /\ Initialising(z) => Initialising(z)'
                          /\ Closing(z) => Closing(z)'
                          /\ HasLog(z)' = HasLog(z)
        BY <1>1 DEF Initialising, Closing, HasLog
    <2> QED BY <1>1, <2>1, <2>2 DEF SessionEventsAgree, TypeOK
<1>8. ClosedStaysClosed'
    BY <1>1 DEF ClosedStaysClosed, HasLog, UsedOnce, TypeOK
<1> QED BY <1>3, <1>4, <1>5, <1>6, <1>7, <1>8

LEMMA PutEventsStep ==
    ASSUME SessionInv, TypeOK', NEW r \in Requests, PutEvents(r)
    PROVE  SessionInv'
<1> USE DEF SessionInv
<1>1. /\ pc[r] = "put_events" /\ pc'[r] = "done" /\ op[r] = "init"
      /\ sid[r] \in sessions /\ sid[r] \in Sids
      /\ answer'[r] = "200"
      /\ \A q \in Requests \ {r} : pc'[q] = pc[q] /\ answer'[q] = answer[q]
      /\ events'[sid[r]] = <<r>>
      /\ \A z \in Sids \ {sid[r]} : events'[z] = events[z]
      /\ UNCHANGED <<sessions, used, op, sid>>
    BY DEF PutEvents, Reply, Goto, locals, env, Phases, TypeOK
<1>2. Phases'
    BY <1>1 DEF Phases, Active, CleanupLabels, InvokeLabels, CloseLabels
<1>3. Unanswered'  BY <1>1 DEF Unanswered
<1>4. Private'  BY <1>1 DEF Private, Active
<1>5. UsedOnce'  BY <1>1 DEF UsedOnce, HasLog, Phases
<1>6. SessionEventsAgree'
    <2>1. HasLog(sid[r])'
        <3>1. <<r>> # <<>>
            <4>1. Len(<<r>>) = 1 /\ Len(<<>>) = 0  OBVIOUS
            <4> QED BY <4>1
        <3> QED BY <1>1, <3>1 DEF HasLog
    <2>2. \A z \in Sids \ {sid[r]} : /\ Initialising(z) => Initialising(z)'
                                     /\ Closing(z) => Closing(z)'
                                     /\ HasLog(z)' = HasLog(z)
        BY <1>1 DEF Initialising, Closing, HasLog
    <2> QED BY <1>1, <2>1, <2>2 DEF SessionEventsAgree, TypeOK
<1>7. ClosedStaysClosed'
    <2>1. \A q \in Requests : op[q] = "close" /\ answer[q] = "200" => sid[q] \in Sids
        BY DEF UsedOnce, TypeOK
    <2> QED BY <1>1, <2>1 DEF ClosedStaysClosed, HasLog
<1> QED BY <1>2, <1>3, <1>4, <1>5, <1>6, <1>7

\* An event is appended to a log that is there.
LEMMA RecordStep ==
    ASSUME SessionInv, TypeOK', NEW r \in Requests, AppendEvent(r) \/ CloseAppend(r)
    PROVE  SessionInv'
<1> USE DEF SessionInv
<1>1. /\ \/ pc[r] = "append" /\ pc'[r] = "touch" /\ op[r] = "invoke"
         \/ pc[r] = "close_append" /\ pc'[r] = "pop_session" /\ op[r] = "close"
      /\ HasLog(sid[r])
      /\ \A q \in Requests \ {r} : pc'[q] = pc[q]
      /\ events' = [events EXCEPT ![sid[r]] = Append(@, r)]
      /\ UNCHANGED <<sessions, used, op, sid, answer>>
    BY DEF AppendEvent, CloseAppend, Goto, locals, env, Phases, InvokeLabels, CloseLabels, TypeOK
<1>2. \A z \in Sids : HasLog(z)' = HasLog(z)
    <2>1. \A z \in Sids : Append(events[z], r) # <<>>
        <3> TAKE z \in Sids
        <3>1. events[z] \in Seq(Requests)  BY DEF TypeOK
        <3> QED BY ONLY <3>1, r \in Requests, AppendProperties, Zenon
    <2> QED BY <1>1, <2>1 DEF HasLog, TypeOK
<1>3. Phases'
    BY <1>1 DEF Phases, Active, CleanupLabels, InvokeLabels, CloseLabels
<1>4. Unanswered'  BY <1>1 DEF Unanswered
<1>5. Private'  BY <1>1 DEF Private, Active
<1>6. UsedOnce'  BY <1>1, <1>2 DEF UsedOnce
<1>7. SessionEventsAgree'
    <2>1. \A z \in Sids : Initialising(z)' = Initialising(z) /\ Closing(z)' = Closing(z)
        BY <1>1 DEF Initialising, Closing
    <2> QED BY <1>1, <1>2, <2>1 DEF SessionEventsAgree, TypeOK
<1>8. ClosedStaysClosed'
    <2>1. \A q \in Requests : op[q] = "close" /\ answer[q] = "200" => sid[q] \in Sids
        BY DEF UsedOnce, TypeOK
    <2> QED BY <1>1, <1>2, <2>1 DEF ClosedStaysClosed
<1> QED BY <1>3, <1>4, <1>5, <1>6, <1>7, <1>8

LEMMA PopSessionStep ==
    ASSUME SessionInv, TypeOK', NEW r \in Requests, PopSession(r)
    PROVE  SessionInv'
<1> USE DEF SessionInv
<1>1. /\ pc[r] = "pop_session" /\ pc'[r] = "pop_events" /\ op[r] = "close"
      /\ \A q \in Requests \ {r} : pc'[q] = pc[q]
      /\ sessions' = sessions \ {sid[r]}
      /\ UNCHANGED <<events, used, op, sid, answer>>
    BY DEF PopSession, Goto, locals, env, history, Phases, CloseLabels, TypeOK
<1>2. \A q \in Requests : pc[q] = "put_events" => sid[q] # sid[r]
    BY <1>1 DEF Private, Active
<1>3. Phases'
    BY <1>1, <1>2 DEF Phases, Active, CleanupLabels, InvokeLabels, CloseLabels
<1>4. Unanswered'  BY <1>1 DEF Unanswered
<1>5. Private'  BY <1>1 DEF Private, Active
<1>6. UsedOnce'  BY <1>1 DEF UsedOnce, HasLog
<1>7. SessionEventsAgree'
    <2>1. Closing(sid[r])'  BY <1>1 DEF Closing
    <2>2. \A z \in Sids : /\ Initialising(z) => Initialising(z)'
                          /\ Closing(z) => Closing(z)'
                          /\ HasLog(z)' = HasLog(z)
        BY <1>1 DEF Initialising, Closing, HasLog
    <2> QED BY <1>1, <2>1, <2>2 DEF SessionEventsAgree, TypeOK
<1>8. ClosedStaysClosed'  BY <1>1 DEF ClosedStaysClosed, HasLog
<1> QED BY <1>3, <1>4, <1>5, <1>6, <1>7, <1>8

LEMMA PopEventsStep ==
    ASSUME SessionInv, TypeOK', NEW r \in Requests, PopEvents(r)
    PROVE  SessionInv'
<1> USE DEF SessionInv
<1>1. /\ pc[r] = "pop_events" /\ pc'[r] = "done" /\ op[r] = "close"
      /\ sid[r] \in Sids /\ sid[r] \in used /\ sid[r] \notin sessions
      /\ answer'[r] = "200"
      /\ \A q \in Requests \ {r} : pc'[q] = pc[q] /\ answer'[q] = answer[q]
      /\ events'[sid[r]] = <<>>
      /\ \A z \in Sids \ {sid[r]} : events'[z] = events[z]
      /\ UNCHANGED <<sessions, used, op, sid>>
    BY DEF PopEvents, Reply, Goto, locals, env, Phases, Active, CloseLabels, TypeOK
<1>2. Phases'
    BY <1>1 DEF Phases, Active, CleanupLabels, InvokeLabels, CloseLabels
<1>3. Unanswered'  BY <1>1 DEF Unanswered
<1>4. Private'  BY <1>1 DEF Private, Active
<1>5. UsedOnce'  BY <1>1 DEF UsedOnce, HasLog
<1>6. SessionEventsAgree'
    <2>1. ~HasLog(sid[r])'  BY <1>1 DEF HasLog
    <2>2. \A z \in Sids \ {sid[r]} : /\ Initialising(z) => Initialising(z)'
                                     /\ Closing(z) => Closing(z)'
                                     /\ HasLog(z)' = HasLog(z)
        BY <1>1 DEF Initialising, Closing, HasLog
    <2> QED BY <1>1, <2>1, <2>2 DEF SessionEventsAgree, TypeOK
<1>7. ClosedStaysClosed'
    <2>1. \A q \in Requests : op[q] = "close" /\ answer[q] = "200" => sid[q] \in Sids
        BY DEF UsedOnce, TypeOK
    <2> QED BY <1>1, <2>1 DEF ClosedStaysClosed, HasLog
<1> QED BY <1>2, <1>3, <1>4, <1>5, <1>6, <1>7

\* The process ends: nothing is left to drift apart.
LEMMA RestartStep ==
    ASSUME SessionInv, TypeOK', ForgetSessions,
           \A r \in Requests : pc'[r] = (IF r \in Active THEN "lost" ELSE pc[r])
    PROVE  SessionInv'
<1> USE DEF SessionInv
<1>1. /\ sessions' = {} /\ \A s \in Sids : events'[s] = <<>>
      /\ UNCHANGED <<op, sid, answer, used>>
    BY DEF ForgetSessions, locals
<1>2. \A r \in Requests : r \notin Active'
    BY DEF Active
<1>3. Phases'
    BY <1>1, <1>2 DEF Phases, Active, CleanupLabels, InvokeLabels, CloseLabels
<1>4. Unanswered'  BY <1>1 DEF Unanswered, Active
<1>5. Private'  BY <1>2 DEF Private
<1>6. UsedOnce'  BY <1>1 DEF UsedOnce, HasLog
<1>7. SessionEventsAgree'  BY <1>1 DEF SessionEventsAgree, HasLog
<1>8. ClosedStaysClosed'
    <2>1. \A q \in Requests : op[q] = "close" /\ answer[q] = "200" => sid[q] \in Sids
        BY DEF UsedOnce, TypeOK
    <2> QED BY <1>1, <2>1 DEF ClosedStaysClosed, HasLog
<1> QED BY <1>3, <1>4, <1>5, <1>6, <1>7, <1>8

LEMMA SessionStep == SessionInv /\ [Next]_vars => SessionInv'
<1> SUFFICES ASSUME SessionInv, [Next]_vars PROVE SessionInv'
    OBVIOUS
<1>0. TypeOK /\ TypeOK'  BY TypeStep DEF SessionInv
<1>1. ASSUME UNCHANGED <<sessions, events, used, op, sid, pc, answer>>
      PROVE  SessionInv'
    BY <1>0, <1>1 DEF SessionInv, Phases, Unanswered, Private, UsedOnce, SessionEventsAgree,
       ClosedStaysClosed, Active, HasLog, Initialising, Closing
<1>2. CASE UNCHANGED vars
    BY <1>1, <1>2 DEF vars, dicts, locals, env
<1>3. CASE Tick
    BY <1>1, <1>3 DEF Tick, dicts, locals
<1>4. CASE Shutdown
    <2>1. \A r \in Requests : pc'[r] = (IF r \in Active THEN "lost" ELSE pc[r])
        BY <1>4 DEF Shutdown
    <2> QED BY <1>0, <1>4, <2>1, RestartStep DEF Shutdown
<1>5. CASE Crash
    <2>1. \A r \in Requests : pc'[r] = (IF r \in Active THEN "lost" ELSE pc[r])
        BY <1>5 DEF Crash
    <2> QED BY <1>0, <1>5, <2>1, RestartStep DEF Crash
<1>6. ASSUME NEW r \in Requests, Handler(r)
      PROVE  SessionInv'
    BY <1>0, <1>6, QuietStep, PutSessionStep, PutEventsStep, RecordStep, PopSessionStep,
       PopEventsStep DEF Handler
<1> QED BY <1>0, <1>2, <1>3, <1>4, <1>5, <1>6, ArrivalStep DEF Next

LEMMA SessionCorrect == Spec => []SessionInv
BY SessionInit, SessionStep, PTL DEF Spec

\* Sessions and logs never drift apart, whatever the threads interleave.
THEOREM SessionEventsAgreeHolds == Spec => []SessionEventsAgree
<1>1. SessionInv => SessionEventsAgree  BY DEF SessionInv
<1> QED BY <1>1, SessionCorrect, PTL

\* A session that was closed stays closed.
THEOREM ClosedStaysClosedHolds == Spec => []ClosedStaysClosed
<1>1. SessionInv => ClosedStaysClosed  BY DEF SessionInv
<1> QED BY <1>1, SessionCorrect, PTL

(***************************************************************************)
(* The cache.  It is right as long as one request is handled at a time     *)
(* (with two threads the RuntimeCoreIdempotency run refutes it).           *)
(***************************************************************************)
OneThread == Threads = 1

Ended == {"idle", "done", "lost"}
Executing == {"append", "touch", "save_result", "save_stamp"}

Single == \A p, q \in Active : p = q

Times ==
    /\ \A k \in Keys : stamps[k] # None => stamps[k] <= clock
    /\ \A r \in Requests : seen[r] <= clock /\ ranAt[r] <= clock

\* The keys still to be removed are the expired ones; at the lookup none is left.
Swept ==
    \A r \in Requests :
        /\ pc[r] \in {"scanning", "sweep", "pop_stamp"} =>
              \A k \in Keys : k \in doomed[r] <=> Expired(k, seen[r])
        /\ pc[r] \in {"lookup", "replay"} => \A k \in Keys : ~Expired(k, seen[r])
        /\ pc[r] = "pop_stamp" => cursor[r] \in doomed[r] /\ results[cursor[r]] = None

\* What a request relies on at the labels it has reached.
Reached ==
    \A r \in Requests :
        /\ pc[r] \in {"lookup", "replay", "save_result", "save_stamp"} => key[r] # None
        /\ pc[r] = "replay" => results[key[r]] # None
        /\ pc[r] = "touch" => sid[r] \in sessions
        /\ pc[r] \in {"touch", "save_result", "save_stamp"} => r \in ran
        /\ r \in ran => pc[r] \in {"touch", "save_result", "save_stamp", "done"}

Outlived(q) == clock - ranAt[q] > TTL

\* An execution younger than the TTL is in the cache, or about to be put there.
Cached ==
    \A q \in ran : key[q] # None =>
        \/ Outlived(q)
        \/ pc[q] \in {"touch", "save_result"}
        \/ /\ results[key[q]] # None
           /\ \/ pc[q] = "save_stamp"
              \/ stamps[key[q]] # None /\ ranAt[q] <= stamps[key[q]]

\* A key is executed again only when its earlier executions are older than that.
Renewed ==
    \A r \in Requests : pc[r] \in Executing /\ key[r] # None =>
        \A q \in ran \ {r} : key[q] = key[r] => Outlived(q)

CacheInv ==
    /\ SessionInv
    /\ Single /\ Times /\ Swept /\ Reached /\ Cached /\ Renewed
    /\ ResultsAreStamped /\ Idempotent

Alone(r) == \A q \in Requests \ {r} : pc[q] \in Ended

LEMMA CacheInit == Init => CacheInv
<1> SUFFICES ASSUME Init PROVE CacheInv
    OBVIOUS
<1>1. SessionInv  BY SessionInit
<1>2. Single /\ Times /\ Reached /\ Swept
    BY DEF Init, Single, Active, Times, Reached, Swept
<1>3. Cached /\ Renewed /\ ResultsAreStamped /\ Idempotent
    BY DEF Init, Cached, Renewed, Executing, ResultsAreStamped, Idempotent
<1> QED BY <1>1, <1>2, <1>3 DEF CacheInv

\* A request that takes a step has the thread to itself.
LEMMA WorksAlone ==
    ASSUME CacheInv, NEW r \in Requests, r \in Active
    PROVE  Alone(r)
BY DEF CacheInv, Single, Alone, Active, Ended

LEMMA ArrivesAlone ==
    ASSUME OneThread, Cardinality(Active) < Threads
    PROVE  \A q \in Requests : pc[q] \in Ended
<1>1. IsFiniteSet(Active)
    <2>1. Active \subseteq Requests  BY DEF Active
    <2> QED BY <2>1, RuntimeAssumption, FS_Subset
<1>2. Cardinality(Active) \in Nat  BY <1>1, FS_CardinalityType
<1>3. Cardinality(Active) = 0  BY <1>2 DEF OneThread
<1>4. Active = {}  BY <1>1, <1>3, FS_EmptySet
<1> QED BY <1>4 DEF Active, Ended

\* One request moves, the others have ended.
LEMMA StaysSingle ==
    ASSUME NEW r \in Requests, Alone(r), \A q \in Requests \ {r} : pc'[q] = pc[q]
    PROVE  Single'
BY DEF Single, Active, Alone, Ended

\* A request outside the cache: it has not executed, and no step below reads the cache.
QuietLabels ==
    {"scan", "put_session", "put_events", "close_append", "pop_session", "pop_events", "done"}

LEMMA QuietKeepsCache ==
    ASSUME CacheInv, SessionInv', NEW r \in Requests, Alone(r), r \notin ran,
           \A q \in Requests \ {r} : pc'[q] = pc[q] /\ key'[q] = key[q],
           pc[r] # "save_stamp", pc'[r] \in QuietLabels,
           UNCHANGED <<results, stamps, scan, history, clock>>
    PROVE  CacheInv'
<1> USE DEF CacheInv, QuietLabels, Alone, Ended
<1>1. Single'  BY StaysSingle
<1>2. Times'  BY DEF Times, scan, history
<1>3. Swept'  BY DEF Swept, Expired, scan
<1>4. Reached'  BY DEF Reached, history
<1>5. \A q \in ran : q \in Requests /\ pc'[q] = pc[q] /\ key'[q] = key[q]
    BY DEF SessionInv, TypeOK
<1>6. Cached'  BY <1>5 DEF Cached, Outlived, history
<1>7. Renewed'  BY <1>5 DEF Renewed, Executing, history
<1>8. ResultsAreStamped'  BY DEF ResultsAreStamped
<1>9. Idempotent'  BY <1>5 DEF Idempotent, history
<1> QED BY <1>1, <1>2, <1>3, <1>4, <1>6, <1>7, <1>8, <1>9

LEMMA ArrivalKeepsCache ==
    ASSUME OneThread, CacheInv, SessionInv', NEW r \in Requests, Arrivals(r)
    PROVE  CacheInv'
<1>1. PICK o, s, k : Arrive(r, o, s, k)
    BY DEF Arrivals, Unauthorized, NotFound, TooLarge, StartInit, StartInvoke, Stream,
           StartClose
<1>2. \/ \E status : Reply(r, status)
      \/ \E label \in {"scan", "close_append"} : Goto(r, label)
    BY DEF Arrivals, Unauthorized, NotFound, TooLarge, StartInit, StartInvoke, Stream,
           StartClose
<1>3. Alone(r)
    BY <1>1, ArrivesAlone DEF Arrive, Alone
<1>4. /\ pc[r] = "idle" /\ UNCHANGED <<results, stamps, scan, history, clock>>
      /\ \A q \in Requests \ {r} : key'[q] = key[q]
    BY <1>1 DEF Arrive, dicts, env, CacheInv, SessionInv, TypeOK
<1>5. /\ \A q \in Requests \ {r} : pc'[q] = pc[q]
      /\ pc'[r] \in {"done", "scan", "close_append"}
    BY <1>2 DEF Reply, Goto, CacheInv, SessionInv, TypeOK
<1>6. r \notin ran
    BY <1>4 DEF CacheInv, Reached
<1> QED BY <1>3, <1>4, <1>5, <1>6, QuietKeepsCache DEF QuietLabels

LEMMA SessionsKeepCache ==
    ASSUME CacheInv, SessionInv', NEW r \in Requests,
           \/ ScanFails(r) \/ Replay(r) \/ AppendFails(r) \/ CloseAppend(r)
           \/ (\E s \in Sids : PutSession(r, s)) \/ PutEvents(r)
           \/ PopSession(r) \/ PopEvents(r)
    PROVE  CacheInv'
<1> USE DEF CacheInv
<1>1. /\ pc[r] \in {"scanning", "replay", "append", "close_append", "put_session", "put_events",
                     "pop_session", "pop_events"}
      /\ UNCHANGED <<results, stamps, key, scan, history, clock>>
    BY DEF ScanFails, Replay, AppendFails, CloseAppend, PutSession, PutEvents, PopSession,
           PopEvents, dicts, locals, env
<1>2. \/ \E status : Reply(r, status)
      \/ \E label \in {"put_events", "pop_session", "pop_events"} : Goto(r, label)
    BY DEF ScanFails, Replay, AppendFails, CloseAppend, PutSession, PutEvents, PopSession, PopEvents
<1>3. /\ \A q \in Requests \ {r} : pc'[q] = pc[q]
      /\ pc'[r] \in {"done", "put_events", "pop_session", "pop_events"}
    BY <1>2 DEF Reply, Goto, SessionInv, TypeOK
<1>4. r \notin ran /\ r \in Active
    BY <1>1 DEF Reached, Active
<1> QED BY <1>1, <1>3, <1>4, WorksAlone, QuietKeepsCache DEF QuietLabels

\* The labels after the cleanup, and what has been swept when a request gets there.
LEMMA EndOfSweep ==
    ASSUME CacheInv, SessionInv', NEW r \in Requests, r \in Active, r \notin ran, NEW rest,
           rest \subseteq Keys,
           UNCHANGED <<sid, key, history, clock, seen>>,
           pc[r] \in {"scanning", "pop_stamp"}, Goto(r, AfterScan(r, rest)), op[r] \in {"init", "invoke"},
           doomed'[r] = rest, \A k \in Keys : k \in rest <=> Expired(k, seen[r])',
           \A q \in Requests \ {r} : doomed'[q] = doomed[q] /\ seen'[q] = seen[q],
           \A k \in Keys : stamps'[k] # None => stamps'[k] = stamps[k],
           \A q \in ran : key[q] # None => Outlived(q) \/ (stamps'[key[q]] = stamps[key[q]] /\ results'[key[q]] = results[key[q]]),
           ResultsAreStamped'
    PROVE  CacheInv'
<1> USE DEF CacheInv
<1>1. Alone(r)  BY WorksAlone
<1>2. /\ \A q \in Requests \ {r} : pc'[q] = pc[q]
      /\ pc'[r] \in {"sweep", "put_session", "append", "lookup"}
      /\ pc'[r] \in {"lookup", "append"} => rest = {}
      /\ pc'[r] = "lookup" => key[r] # None
      /\ pc'[r] = "append" => key[r] = None
    BY AfterScanType DEF AfterScan, Goto, SessionInv, TypeOK
<1>3. Single'  BY <1>1, <1>2, StaysSingle
<1>4. Times'  BY DEF Times, history
<1>5. Swept'  BY <1>1, <1>2 DEF Swept, Alone, Ended
<1>6. Reached'  BY <1>1, <1>2 DEF Reached, Alone, Ended, history
<1>7. \A q \in ran : q \in Requests /\ pc'[q] = pc[q]
    BY <1>2 DEF SessionInv, TypeOK
<1>8. Cached'  BY <1>7 DEF Cached, Outlived, history
<1>9. Renewed'  BY <1>1, <1>2 DEF Renewed, Executing, Alone, Ended, history
<1>10. Idempotent'  BY DEF Idempotent, history
<1> QED BY <1>3, <1>4, <1>5, <1>6, <1>8, <1>9, <1>10

LEMMA CleanupKeepsCache ==
    ASSUME CacheInv, SessionInv', NEW r \in Requests, Cleanup(r)
    PROVE  CacheInv'
<1> USE DEF CacheInv, SessionInv
<1>1. /\ pc[r] \in CleanupLabels /\ r \in Active
      /\ UNCHANGED <<sid, key, history, clock>>
    BY DEF Cleanup, ScanStarts, ScanFails, ScanEnds, PopResult, PopStamp, CleanupLabels, Active,
           locals, env
<1>2. Alone(r) /\ r \notin ran /\ op[r] \in {"init", "invoke"}
    BY <1>1, WorksAlone DEF Reached, CleanupLabels, Phases
<1>3. \A q \in ran : q \in Requests /\ q # r /\ pc[q] \in Ended
    BY <1>2 DEF TypeOK, Alone
<1>4. CASE ScanStarts(r)
    <2>1. /\ pc'[r] = "scanning" /\ \A q \in Requests \ {r} : pc'[q] = pc[q]
          /\ UNCHANGED <<results, stamps>>
          /\ seen'[r] = clock /\ \A q \in Requests \ {r} : seen'[q] = seen[q]
          /\ doomed'[r] = {k \in Keys : Expired(k, clock)}
        BY <1>4 DEF ScanStarts, Goto, TypeOK, dicts
    <2>2. Single'  BY <1>2, <2>1, StaysSingle
    <2>3. Times'
        <3>1. clock \in Int  BY DEF TypeOK
        <3>2. clock <= clock  BY <3>1
        <3> QED BY <1>1, <2>1, <3>2 DEF Times, history
    <2>4. Swept'  BY <1>2, <2>1 DEF Swept, Expired, Alone, Ended
    <2>5. Reached'  BY <1>1, <1>2, <2>1 DEF Reached, Alone, Ended, history
    <2>6. Cached'  BY <1>1, <1>3, <2>1 DEF Cached, Outlived, history
    <2>7. Renewed'  BY <1>1, <1>2, <2>1 DEF Renewed, Executing, Alone, Ended, history
    <2>8. ResultsAreStamped'
        <3>1. \A q \in Requests : pc[q] # "save_stamp"
            BY <1>1, <1>2 DEF Alone, Ended, CleanupLabels
        <3> QED BY <2>1, <3>1 DEF ResultsAreStamped
    <2>9. Idempotent'  BY <1>1 DEF Idempotent, history
    <2> QED BY <2>2, <2>3, <2>4, <2>5, <2>6, <2>7, <2>8, <2>9
<1>5. CASE ScanFails(r)
    BY <1>5, SessionsKeepCache
<1>6. CASE ScanEnds(r)
    <2>1. PICK met \in SUBSET doomed[r] :
             /\ {k \in doomed[r] : Expired(k, seen[r])} \subseteq met
             /\ doomed' = [doomed EXCEPT ![r] = met]
             /\ Goto(r, AfterScan(r, met))
        BY <1>6 DEF ScanEnds
    <2>2. pc[r] = "scanning" /\ UNCHANGED <<results, stamps, seen>>
        BY <1>6 DEF ScanEnds, dicts
    <2>3. met \subseteq Keys /\ \A k \in Keys : k \in met <=> Expired(k, seen[r])
        BY <2>1, <2>2 DEF Swept, TypeOK
    <2>4. \A k \in Keys : k \in met <=> Expired(k, seen[r])'
        BY <2>2, <2>3 DEF Expired
    <2>5. doomed'[r] = met /\ \A q \in Requests \ {r} : doomed'[q] = doomed[q]
        BY <2>1 DEF TypeOK
    <2>6. ResultsAreStamped'
        <3>1. \A q \in Requests : pc[q] # "save_stamp"
            BY <1>2, <2>2 DEF Alone, Ended
        <3> QED BY <2>2, <3>1 DEF ResultsAreStamped
    <2> QED BY <1>1, <1>2, <2>1, <2>2, <2>3, <2>4, <2>5, <2>6, EndOfSweep
<1>7. ASSUME NEW k \in Keys, PopResult(r, k)
      PROVE  CacheInv'
    <2>1. /\ pc[r] = "sweep" /\ k \in doomed[r]
          /\ pc'[r] = "pop_stamp" /\ \A q \in Requests \ {r} : pc'[q] = pc[q]
          /\ results'[k] = None /\ \A j \in Keys \ {k} : results'[j] = results[j]
          /\ cursor'[r] = k
          /\ UNCHANGED <<stamps, seen, doomed>>
        BY <1>7 DEF PopResult, Goto, TypeOK
    <2>2. Expired(k, seen[r])  BY <2>1 DEF Swept
    <2>3. Single'  BY <1>2, <2>1, StaysSingle
    <2>4. Times'  BY <1>1, <2>1 DEF Times, history
    <2>5. Swept'  BY <1>2, <2>1 DEF Swept, Expired, Alone, Ended
    <2>6. Reached'  BY <1>1, <1>2, <2>1 DEF Reached, Alone, Ended, history
    <2>7. Cached'
        <3> SUFFICES ASSUME NEW q \in ran, key[q] # None, ~Outlived(q)
                     PROVE  /\ results'[key[q]] # None
                            /\ stamps[key[q]] # None /\ ranAt[q] <= stamps[key[q]]
            BY <1>1, <2>1 DEF Cached, Outlived, history
        <3>1. /\ results[key[q]] # None /\ key[q] \in Keys
              /\ stamps[key[q]] # None /\ ranAt[q] <= stamps[key[q]]
            BY <1>3 DEF Cached, Ended, TypeOK
        <3>2. CASE key[q] = k
            <4>1. /\ stamps[k] \in Int /\ seen[r] \in Int /\ clock \in Int /\ ranAt[q] \in Int /\ TTL \in Int
                BY <1>3, <2>2, RuntimeAssumption DEF TypeOK, Expired
            <4>2. seen[r] <= clock  BY DEF Times
            <4> QED BY <2>2, <3>1, <3>2, <4>1, <4>2 DEF Expired, Outlived
        <3> QED BY <2>1, <3>1, <3>2
    <2>8. Renewed'  BY <1>1, <1>2, <2>1 DEF Renewed, Executing, Alone, Ended, history
    <2>9. ResultsAreStamped'  BY <1>2, <2>1 DEF ResultsAreStamped, Alone, Ended
    <2>10. Idempotent'  BY <1>1 DEF Idempotent, history
    <2> QED BY <2>3, <2>4, <2>5, <2>6, <2>7, <2>8, <2>9, <2>10
<1>8. CASE PopStamp(r)
    <2> DEFINE rest == doomed[r] \ {cursor[r]}
    <2>1. /\ pc[r] = "pop_stamp" /\ Goto(r, AfterScan(r, rest))
          /\ stamps' = [stamps EXCEPT ![cursor[r]] = None]
          /\ doomed' = [doomed EXCEPT ![r] = rest]
          /\ UNCHANGED <<results, seen>>
        BY <1>8 DEF PopStamp
    <2>2. /\ cursor[r] \in doomed[r] /\ results[cursor[r]] = None /\ rest \subseteq Keys
          /\ cursor[r] \in Keys
        BY <2>1 DEF Swept, TypeOK
    <2>3. /\ stamps'[cursor[r]] = None /\ \A k \in Keys \ {cursor[r]} : stamps'[k] = stamps[k]
          /\ doomed'[r] = rest /\ \A q \in Requests \ {r} : doomed'[q] = doomed[q]
        BY <2>1, <2>2 DEF TypeOK
    <2>4. \A k \in Keys : k \in rest <=> Expired(k, seen[r])'
        BY <2>1, <2>3 DEF Swept, Expired
    <2>5. \A q \in ran : key[q] # None =>
             \/ Outlived(q)
             \/ stamps'[key[q]] = stamps[key[q]] /\ results'[key[q]] = results[key[q]]
        <3> SUFFICES ASSUME NEW q \in ran, key[q] # None, ~Outlived(q)
                     PROVE  key[q] \in Keys \ {cursor[r]}
            BY <2>1, <2>3
        <3> QED BY <1>3, <2>2 DEF Cached, Ended, TypeOK
    <2>6. ResultsAreStamped'
        <3>1. \A q \in Requests : pc[q] # "save_stamp"
            BY <1>2, <2>1 DEF Alone, Ended
        <3> QED BY <2>1, <2>2, <2>3, <3>1 DEF ResultsAreStamped
    <2>7. \A k \in Keys : stamps'[k] # None => stamps'[k] = stamps[k]
        BY <2>3
    <2> HIDE DEF rest
    <2> QED BY <1>1, <1>2, <2>1, <2>2, <2>3, <2>4, <2>5, <2>6, <2>7, EndOfSweep
<1> QED BY <1>4, <1>5, <1>6, <1>7, <1>8 DEF Cleanup

LEMMA LookupKeepsCache ==
    ASSUME CacheInv, SessionInv', NEW r \in Requests, Lookup(r)
    PROVE  CacheInv'
<1> USE DEF CacheInv, SessionInv
<1>1. /\ pc[r] = "lookup" /\ UNCHANGED <<dicts, locals, scan, history, clock>>
      /\ \A q \in Requests \ {r} : pc'[q] = pc[q]
      /\ \/ pc'[r] = "replay" /\ results[key[r]] # None
         \/ pc'[r] = "append" /\ results[key[r]] = None
    BY DEF Lookup, Goto, TypeOK, env
<1>2. r \notin ran /\ Alone(r)
    BY <1>1, WorksAlone DEF Active, Reached
<1>3. \A q \in ran : q \in Requests /\ q # r /\ pc[q] \in Ended /\ pc'[q] = pc[q]
    BY <1>1, <1>2 DEF TypeOK, Alone
<1>4. Single'  BY <1>1, <1>2, StaysSingle
<1>5. Times'  BY <1>1 DEF Times, dicts, scan, history
<1>6. Swept'  BY <1>1, <1>2 DEF Swept, Expired, Alone, Ended, dicts, scan
<1>7. Reached'  BY <1>1, <1>2 DEF Reached, Alone, Ended, dicts, locals, history
<1>8. Cached'  BY <1>1, <1>3 DEF Cached, Outlived, Ended, dicts, locals, history
<1>9. Renewed'
    <2>1. ASSUME NEW q \in ran, key[q] = key[r], pc'[r] = "append", key[r] # None
          PROVE  Outlived(q)
        BY <1>1, <1>3, <2>1 DEF Cached, Ended
    <2> QED BY <1>1, <1>2, <1>3, <2>1 DEF Renewed, Executing, Outlived, Alone, Ended, locals, history
<1>10. ResultsAreStamped'
    <2>1. \A q \in Requests : pc[q] # "save_stamp"
        BY <1>1, <1>2 DEF Alone, Ended
    <2> QED BY <1>1, <2>1 DEF ResultsAreStamped, dicts
<1>11. Idempotent'  BY <1>1 DEF Idempotent, locals, history
<1> QED BY <1>4, <1>5, <1>6, <1>7, <1>8, <1>9, <1>10, <1>11

LEMMA ExecutionKeepsCache ==
    ASSUME CacheInv, SessionInv', NEW r \in Requests, AppendEvent(r)
    PROVE  CacheInv'
<1> USE DEF CacheInv, SessionInv
<1>1. /\ pc[r] = "append" /\ HasLog(sid[r]) /\ pc'[r] = "touch"
      /\ \A q \in Requests \ {r} : pc'[q] = pc[q] /\ ranAt'[q] = ranAt[q]
      /\ ran' = ran \cup {r} /\ ranAt'[r] = clock
      /\ UNCHANGED <<sessions, results, stamps, locals, scan, clock>>
    BY DEF AppendEvent, Goto, TypeOK, env
<1>2. r \notin ran /\ Alone(r) /\ r \in Active
    BY <1>1, WorksAlone DEF Active, Reached
<1>3. \A q \in ran : q \in Requests /\ q # r /\ pc[q] \in Ended /\ pc'[q] = pc[q] /\ ranAt'[q] = ranAt[q]
    BY <1>1, <1>2 DEF TypeOK, Alone
<1>4. Single'  BY <1>1, <1>2, StaysSingle
<1>5. Times'
    <2>1. clock \in Int  BY DEF TypeOK
    <2>2. clock <= clock  BY <2>1
    <2> QED BY <1>1, <2>2 DEF Times, scan
<1>6. Swept'  BY <1>1, <1>2 DEF Swept, Expired, Alone, Ended, scan
<1>7. Reached'
    <2>1. sid[r] \in sessions
        <3>1. sid[r] \in Sids
            <4>1. op[r] = "invoke"  BY <1>1 DEF Phases, InvokeLabels
            <4>2. sid[r] \in used  BY <1>2, <4>1 DEF Phases
            <4> QED BY <4>2 DEF TypeOK
        <3>2. ~Closing(sid[r])  BY <1>1, <1>2 DEF Closing, Alone, Ended
        <3> QED BY <1>1, <3>1, <3>2 DEF SessionEventsAgree
    <2> QED BY <1>1, <1>2, <2>1 DEF Reached, Alone, Ended, locals
<1>8. Cached'  BY <1>1, <1>3 DEF Cached, Outlived, Ended, locals
<1>9. Renewed'
    <2>1. \A q \in ran \ {r} : key[q] = key[r] /\ key[r] # None => Outlived(q)
        BY <1>1 DEF Renewed, Executing
    <2> QED BY <1>1, <1>2, <1>3, <2>1 DEF Renewed, Executing, Outlived, Alone, Ended, locals
<1>10. ResultsAreStamped'
    <2>1. \A q \in Requests : pc[q] # "save_stamp"
        BY <1>1, <1>2 DEF Alone, Ended
    <2> QED BY <1>1, <2>1 DEF ResultsAreStamped
<1>11. Idempotent'
    <2>1. \A q \in ran \ {r} : key[q] = key[r] /\ key[r] # None => clock - ranAt[q] > TTL
        BY <1>1 DEF Renewed, Executing, Outlived
    <2> QED BY <1>1, <1>3, <2>1 DEF Idempotent, locals
<1> QED BY <1>4, <1>5, <1>6, <1>7, <1>8, <1>9, <1>10, <1>11

LEMMA SavingKeepsCache ==
    ASSUME CacheInv, SessionInv', NEW r \in Requests,
           Touch(r) \/ SaveResult(r) \/ SaveStamp(r)
    PROVE  CacheInv'
<1> USE DEF CacheInv, SessionInv
<1>1. /\ pc[r] \in {"touch", "save_result", "save_stamp"}
      /\ UNCHANGED <<sessions, locals, scan, history, clock>>
    BY DEF Touch, SaveResult, SaveStamp, dicts, env
<1>2. r \in ran /\ Alone(r)
    BY <1>1, WorksAlone DEF Active, Reached
<1>3. \A q \in Requests \ {r} : pc'[q] = pc[q] /\ pc[q] \in Ended
    BY <1>2 DEF Touch, SaveResult, SaveStamp, Reply, Goto, Alone, TypeOK
<1>4. Single'  BY <1>2, <1>3, StaysSingle
<1>5. \A q \in ran : q \in Requests
    BY DEF TypeOK
<1>6. \A q \in ran \ {r} : key[q] = key[r] /\ key[r] # None => Outlived(q)
    BY <1>1 DEF Renewed, Executing
<1>7. Renewed'  BY <1>1, <1>2, <1>3, <1>6 DEF Renewed, Executing, Outlived, Ended, locals, history
<1>8. Idempotent'  BY <1>1 DEF Idempotent, locals, history
<1>9. CASE Touch(r)
    <2>1. /\ pc[r] = "touch" /\ UNCHANGED <<results, stamps>>
          /\ \/ pc'[r] = "done" /\ key[r] = None
             \/ pc'[r] = "save_result" /\ key[r] # None
        BY <1>9 DEF Touch, Reply, Goto, TypeOK, Reached, dicts
    <2>2. Times'  BY <1>1, <2>1 DEF Times, scan, history
    <2>3. Swept'  BY <1>1, <1>3, <2>1 DEF Swept, Expired, Ended, scan
    <2>4. Reached'  BY <1>1, <1>2, <1>3, <2>1 DEF Reached, Ended, locals, history
    <2>5. Cached'  BY <1>1, <1>3, <1>5, <2>1 DEF Cached, Outlived, Ended, locals, history
    <2>6. ResultsAreStamped'
        <3>1. \A q \in Requests : pc[q] # "save_stamp"
            BY <1>3, <2>1 DEF Ended
        <3> QED BY <2>1, <3>1 DEF ResultsAreStamped
    <2> QED BY <1>4, <1>7, <1>8, <2>2, <2>3, <2>4, <2>5, <2>6
<1>10. CASE SaveResult(r)
    <2>1. pc[r] = "save_result" /\ key[r] \in Keys
        BY <1>10 DEF SaveResult, Reached, TypeOK
    <2>2. /\ pc'[r] = "save_stamp" /\ UNCHANGED stamps /\ key[r] # None
          /\ results'[key[r]] = r /\ \A k \in Keys \ {key[r]} : results'[k] = results[k]
          /\ r # None
        BY <1>10, <2>1, RuntimeAssumption DEF SaveResult, Goto, TypeOK
    <2>3. Times'  BY <1>1, <2>2 DEF Times, scan, history
    <2>4. Swept'  BY <1>1, <1>3, <2>2 DEF Swept, Expired, Ended, scan
    <2>5. Reached'  BY <1>1, <1>2, <1>3, <2>1, <2>2 DEF Reached, Ended, locals, history
    <2>6. Cached'
        <3>1. \A q \in ran : key[q] # None => key[q] \in Keys
            BY DEF TypeOK
        <3> QED BY <1>1, <1>3, <1>5, <1>6, <2>1, <2>2, <3>1 DEF Cached, Outlived, Ended, locals, history
    <2>7. ResultsAreStamped'
        <3>1. \A q \in Requests : pc[q] # "save_stamp"
            BY <1>3, <2>1 DEF Ended
        <3> QED BY <1>1, <2>2, <3>1 DEF ResultsAreStamped, locals
    <2> QED BY <1>4, <1>7, <1>8, <2>3, <2>4, <2>5, <2>6, <2>7
<1>11. CASE SaveStamp(r)
    <2>1. pc[r] = "save_stamp" /\ key[r] \in Keys /\ clock \in Int /\ clock # None
        BY <1>11, RuntimeAssumption DEF SaveStamp, Reached, TypeOK
    <2>2. /\ pc'[r] = "done" /\ UNCHANGED results
          /\ stamps'[key[r]] = clock /\ \A k \in Keys \ {key[r]} : stamps'[k] = stamps[k]
        BY <1>11, <2>1 DEF SaveStamp, Reply, Goto, TypeOK
    <2>3. Times'
        <3>1. clock <= clock  BY <2>1
        <3> QED BY <1>1, <2>2, <3>1 DEF Times, scan, history
    <2>4. Swept'  BY <1>1, <1>3, <2>2 DEF Swept, Ended
    <2>5. Reached'  BY <1>1, <1>2, <1>3, <2>2 DEF Reached, Ended, locals, history
    <2>6. Cached'
        <3>1. \A q \in ran : key[q] # None => key[q] \in Keys
            BY DEF TypeOK
        <3>2. Outlived(r) \/ key[r] = None \/ (results[key[r]] # None /\ ranAt[r] <= clock)
            BY <1>2, <2>1 DEF Cached, Times
        <3> QED BY <1>1, <1>3, <1>5, <1>6, <2>1, <2>2, <3>1, <3>2
                DEF Cached, Outlived, Ended, locals, history
    <2>7. ResultsAreStamped'
        BY <1>1, <1>3, <2>1, <2>2 DEF ResultsAreStamped, Ended
    <2> QED BY <1>4, <1>7, <1>8, <2>3, <2>4, <2>5, <2>6, <2>7
<1> QED BY <1>9, <1>10, <1>11

LEMMA CacheStep == OneThread /\ CacheInv /\ [Next]_vars => CacheInv'
<1> SUFFICES ASSUME OneThread, CacheInv, [Next]_vars PROVE CacheInv'
    OBVIOUS
<1> USE DEF CacheInv, SessionInv
<1>1. SessionInv'  BY SessionStep
<1>2. CASE UNCHANGED vars
    BY <1>1, <1>2 DEF vars, dicts, locals, scan, history, env, Single, Active, Times, Swept, Expired,
       Reached, Cached, Outlived, Renewed, ResultsAreStamped, Idempotent
<1>3. CASE Tick
    <2>1. /\ clock' = clock + 1 /\ clock \in Int
          /\ UNCHANGED <<dicts, pc, locals, scan, history>>
        BY <1>3 DEF Tick, TypeOK
    <2>2. Single' /\ Swept' /\ Reached' /\ ResultsAreStamped' /\ Idempotent'
        BY <2>1 DEF dicts, locals, scan, history, Single, Active, Swept, Expired, Reached,
           ResultsAreStamped, Idempotent
    <2>3. Times'
        <3>1. /\ \A k \in Keys : stamps[k] # None => stamps[k] \in Int
              /\ \A r \in Requests : seen[r] \in Int /\ ranAt[r] \in Int
            BY DEF TypeOK
        <3> QED BY <2>1, <3>1 DEF Times, dicts, scan, history
    <2>4. \A q \in ran : Outlived(q) => Outlived(q)'
        <3> TAKE q \in ran
        <3>1. ranAt[q] \in Int /\ TTL \in Int  BY RuntimeAssumption DEF TypeOK
        <3> QED BY <2>1, <3>1 DEF Outlived, history
    <2>5. Cached'  BY <2>1, <2>4 DEF Cached, dicts, locals, history
    <2>6. Renewed'  BY <2>1, <2>4 DEF Renewed, Executing, locals, history
    <2> QED BY <1>1, <2>2, <2>3, <2>5, <2>6
<1>4. CASE Shutdown \/ Crash
    <2>1. /\ ran' = {} /\ \A k \in Keys : results'[k] = None
          /\ \A k \in Keys : stamps'[k] \in {None, stamps[k]}
          /\ UNCHANGED <<scan, ranAt, clock>>
        BY <1>4 DEF Shutdown, Crash, ForgetSessions
    <2>2. \A r \in Requests : pc'[r] \in Ended
        BY <1>4 DEF Shutdown, Crash, Active, Ended
    <2>3. Single'  BY <2>2 DEF Single, Active, Ended
    <2>4. Times'  BY <2>1 DEF Times, scan
    <2>5. Swept' /\ Reached'  BY <2>1, <2>2 DEF Swept, Reached, Ended
    <2>6. Cached' /\ Renewed' /\ ResultsAreStamped' /\ Idempotent'
        BY <2>1, <2>2 DEF Cached, Renewed, Executing, ResultsAreStamped, Idempotent, Ended
    <2> QED BY <1>1, <2>3, <2>4, <2>5, <2>6
<1>5. ASSUME NEW r \in Requests, Handler(r)
      PROVE  CacheInv'
    BY <1>1, <1>5, CleanupKeepsCache, SessionsKeepCache, LookupKeepsCache, ExecutionKeepsCache,
       SavingKeepsCache DEF Handler
<1> QED BY <1>1, <1>2, <1>3, <1>4, <1>5, ArrivalKeepsCache DEF Next

LEMMA CacheCorrect == ASSUME OneThread PROVE Spec => []CacheInv
<1>1. CacheInv /\ [Next]_vars => CacheInv'  BY CacheStep
<1> QED BY <1>1, CacheInit, PTL DEF Spec

\* With one thread invokes are idempotent: executions of one key lie further
\* apart than the TTL, whatever expires, is swept or is forgotten in between.
THEOREM IdempotentHolds == ASSUME OneThread PROVE Spec => []Idempotent
<1>1. CacheInv => Idempotent  BY DEF CacheInv
<1> QED BY <1>1, CacheCorrect, PTL

\* No result is kept for ever.
THEOREM ResultsAreStampedHolds == ASSUME OneThread PROVE Spec => []ResultsAreStamped
<1>1. CacheInv => ResultsAreStamped  BY DEF CacheInv
<1> QED BY <1>1, CacheCorrect, PTL

\* A replayed result had not expired when the request swept the cache.
THEOREM NoStaleReplayHolds == ASSUME OneThread PROVE Spec => []NoStaleReplay
<1>1. CacheInv => NoStaleReplay
    <2> SUFFICES ASSUME CacheInv, NEW r \in Requests, pc[r] = "replay"
                 PROVE  /\ results[key[r]] # None /\ stamps[key[r]] # None
                        /\ seen[r] - stamps[key[r]] <= TTL
        BY DEF NoStaleReplay
    <2> USE DEF CacheInv, SessionInv
    <2>1. Alone(r)  BY WorksAlone DEF Active
    <2>2. key[r] \in Keys /\ results[key[r]] # None  BY DEF Reached, TypeOK
    <2>3. stamps[key[r]] # None
        BY <2>1, <2>2 DEF ResultsAreStamped, Alone, Ended
    <2>4. stamps[key[r]] \in Int /\ seen[r] \in Int /\ TTL \in Int
        BY <2>2, <2>3, RuntimeAssumption DEF TypeOK
    <2>5. ~Expired(key[r], seen[r])  BY <2>2 DEF Swept
    <2> QED BY <2>2, <2>3, <2>4, <2>5 DEF Expired
<1> QED BY <1>1, CacheCorrect, PTL
=============================================================================
