----------------------- MODULE RuntimeCore_refinement -----------------------
(***************************************************************************)
(* The runtime core implements SessionLog, for any number of threads: what *)
(* happens to the two dicts in several steps looks to the clients like one *)
(* step of the abstract specification, and the other steps like none.      *)
(***************************************************************************)
EXTENDS RuntimeCore_proofs

\* What is logged was recorded by a request that has arrived.
LoggedHaveArrived ==
    \A s \in Sids : \A i \in DOMAIN events[s] : pc[events[s][i]] # "idle"

\* A close that is about to remove a session has said so in its log.
ClosingIsLogged ==
    \A r \in Requests :
        pc[r] = "pop_session" =>
            \/ ~HasLog(sid[r])
            \/ \E i \in DOMAIN events[sid[r]] : events[sid[r]][i] = r

\* A session that init is still creating has no log yet.
CreatedIsUnlogged == \A r \in Requests : pc[r] = "put_events" => ~HasLog(sid[r])

LogInv == SessionInv /\ LoggedHaveArrived /\ ClosingIsLogged /\ CreatedIsUnlogged

LEMMA LogInvInit == Init => LogInv
<1> SUFFICES ASSUME Init PROVE LogInv
    OBVIOUS
<1>1. SessionInv  BY SessionInit
<1>2. \A s \in Sids : DOMAIN events[s] = {}  BY DEF Init
<1> QED BY <1>1, <1>2 DEF Init, LogInv, LoggedHaveArrived, ClosingIsLogged, CreatedIsUnlogged

(***************************************************************************)
(* The refinement mapping                                                  *)
(***************************************************************************)
LEMMA OpenIsAnnounced ==
    ASSUME LogInv
    PROVE  /\ OpenSessions \subseteq Sids
           /\ OpenSessions \subseteq used
           /\ OpenSessions \cap Unannounced = {}
<1> USE DEF LogInv
<1>1. OpenSessions \subseteq Sids  BY DEF OpenSessions, SessionInv, TypeOK
<1>2. OpenSessions \subseteq used  BY <1>1 DEF OpenSessions, SessionInv, UsedOnce
<1>3. OpenSessions \cap Unannounced = {}
    BY DEF OpenSessions, Unannounced, CreatedIsUnlogged
<1> QED BY <1>1, <1>2, <1>3

LEMMA EntryType == ASSUME NEW r \in Requests PROVE Entry(r) \in LogEntries
BY DEF Entry, LogEntries

\* The clients see nothing of a step that keeps what is open and its log.
LEMMA Unseen ==
    ASSUME TypeOK, OpenSessions' = OpenSessions, GoneSessions' = GoneSessions,
           \A s \in OpenSessions :
              /\ events'[s] = events[s]
              /\ \A i \in DOMAIN events[s] : op'[events[s][i]] = op[events[s][i]]
    PROVE  UNCHANGED Log!vars
<1>1. \A s \in OpenSessions : LogOf(s)' = LogOf(s)
    BY DEF LogOf, Entry
<1>2. ClientLog' = ClientLog
    BY <1>1 DEF ClientLog
<1> QED BY <1>2 DEF Log!vars

\* Requests that neither begin nor end the creation of a session.
LEMMA SameUnannounced ==
    ASSUME NEW r \in Requests, pc[r] # "put_events", pc'[r] # "put_events",
           \A q \in Requests \ {r} : pc'[q] = pc[q] /\ sid'[q] = sid[q]
    PROVE  Unannounced' = Unannounced
BY DEF Unannounced

LEMMA LogInit == Init => Log!Init
<1> SUFFICES ASSUME Init PROVE Log!Init
    OBVIOUS
<1>1. OpenSessions = {}  BY DEF Init, OpenSessions
<1>2. GoneSessions = {}  BY DEF Init, GoneSessions
<1>3. ClientLog = [s \in Sids |-> <<>>]  BY <1>1 DEF ClientLog
<1> QED BY <1>1, <1>2, <1>3 DEF Log!Init

(***************************************************************************)
(* Steps that change neither dict                                          *)
(***************************************************************************)
LEMMA QuietImplements ==
    ASSUME LogInv, NEW r \in Requests,
           UNCHANGED <<sessions, events, used>>,
           pc[r] # "put_events", pc'[r] \notin {"put_events", "pop_session", "idle"},
           \A q \in Requests \ {r} : pc'[q] = pc[q] /\ sid'[q] = sid[q] /\ op'[q] = op[q],
           pc[r] = "idle" \/ op'[r] = op[r]
    PROVE  /\ UNCHANGED Log!vars
           /\ LoggedHaveArrived' /\ ClosingIsLogged' /\ CreatedIsUnlogged'
<1> USE DEF LogInv
<1>1. OpenSessions' = OpenSessions /\ GoneSessions' = GoneSessions
    <2>1. Unannounced' = Unannounced  BY SameUnannounced
    <2>2. OpenSessions' = OpenSessions  BY DEF OpenSessions, HasLog
    <2> QED BY <2>1, <2>2 DEF GoneSessions
<1>2. \A s \in Sids : \A i \in DOMAIN events[s] : events[s][i] \in Requests
    <2> TAKE s \in Sids
    <2>1. events[s] \in Seq(Requests)  BY DEF SessionInv, TypeOK
    <2> QED BY <2>1
<1>3. UNCHANGED Log!vars
    <2>1. \A s \in OpenSessions : \A i \in DOMAIN events[s] : op'[events[s][i]] = op[events[s][i]]
        BY <1>2, OpenIsAnnounced DEF LoggedHaveArrived
    <2> QED BY <1>1, <2>1, Unseen DEF SessionInv
<1>4. LoggedHaveArrived'
    BY <1>2 DEF LoggedHaveArrived
<1>5. ClosingIsLogged' /\ CreatedIsUnlogged'
    BY DEF ClosingIsLogged, CreatedIsUnlogged, HasLog
<1> QED BY <1>3, <1>4, <1>5

LEMMA ArrivalImplements ==
    ASSUME LogInv, NEW r \in Requests, Arrivals(r)
    PROVE  /\ UNCHANGED Log!vars
           /\ LoggedHaveArrived' /\ ClosingIsLogged' /\ CreatedIsUnlogged'
<1> USE DEF LogInv, SessionInv
<1>1. PICK o, s, k : Arrive(r, o, s, k)
    BY DEF Arrivals, Unauthorized, NotFound, TooLarge, StartInit, StartInvoke, Stream,
           StartClose
<1>2. /\ pc[r] = "idle" /\ UNCHANGED <<sessions, events, used>>
      /\ \A q \in Requests \ {r} : op'[q] = op[q] /\ sid'[q] = sid[q]
    BY <1>1 DEF Arrive, dicts, env, TypeOK
<1>3. \E label \in {"done", "scan", "close_append"} : Goto(r, label)
    BY DEF Arrivals, Unauthorized, NotFound, TooLarge, StartInit, StartInvoke, Stream,
           StartClose, Reply
<1>4. /\ pc'[r] \in {"done", "scan", "close_append"}
      /\ \A q \in Requests \ {r} : pc'[q] = pc[q]
    BY <1>3 DEF Goto, TypeOK
<1> QED BY <1>2, <1>4, QuietImplements

LEMMA LocalImplements ==
    ASSUME LogInv, NEW r \in Requests,
           \/ Cleanup(r) \/ Lookup(r) \/ Replay(r) \/ AppendFails(r)
           \/ Touch(r) \/ SaveResult(r) \/ SaveStamp(r)
    PROVE  /\ UNCHANGED Log!vars
           /\ LoggedHaveArrived' /\ ClosingIsLogged' /\ CreatedIsUnlogged'
<1> USE DEF LogInv, SessionInv
<1>1. /\ UNCHANGED <<sessions, events, used, op, sid>>
      /\ pc[r] # "put_events"
    BY DEF Cleanup, ScanStarts, ScanFails, ScanEnds, PopResult, PopStamp, Lookup, Replay,
           AppendFails, Touch, SaveResult, SaveStamp, dicts, locals, env
<1>2. \E label \in Labels \ {"put_events", "pop_session", "idle"} : Goto(r, label)
    <2>1. ASSUME NEW rest
          PROVE  AfterScan(r, rest) \in Labels \ {"put_events", "pop_session", "idle"}
        BY AfterScanType DEF Labels
    <2> QED BY <2>1 DEF Cleanup, ScanStarts, ScanFails, ScanEnds, PopResult, PopStamp, Lookup,
            Replay, AppendFails, Touch, SaveResult, SaveStamp, Reply, Labels
<1>3. /\ pc'[r] \notin {"put_events", "pop_session", "idle"}
      /\ \A q \in Requests \ {r} : pc'[q] = pc[q]
    BY <1>2 DEF Goto, TypeOK
<1> QED BY <1>1, <1>3, QuietImplements

(***************************************************************************)
(* Steps that write one of the dicts                                       *)
(***************************************************************************)
LEMMA LoggedAreRequests ==
    ASSUME TypeOK
    PROVE  \A s \in Sids : \A i \in DOMAIN events[s] : events[s][i] \in Requests
<1> TAKE s \in Sids
<1>1. events[s] \in Seq(Requests)  BY DEF TypeOK
<1> QED BY <1>1

\* The session is in _sessions, but nobody can name it yet.
LEMMA PutSessionImplements ==
    ASSUME LogInv, NEW r \in Requests, NEW s \in Sids, PutSession(r, s)
    PROVE  /\ UNCHANGED Log!vars
           /\ LoggedHaveArrived' /\ ClosingIsLogged' /\ CreatedIsUnlogged'
<1> USE DEF LogInv, SessionInv
<1>1. /\ pc[r] = "put_session" /\ pc'[r] = "put_events" /\ sid'[r] = s
      /\ \A q \in Requests \ {r} : pc'[q] = pc[q] /\ sid'[q] = sid[q]
      /\ s \notin used /\ used' = used \cup {s} /\ sessions' = sessions \cup {s}
      /\ UNCHANGED <<events, op>>
    BY DEF PutSession, Goto, TypeOK
<1>2. ~HasLog(s)  BY <1>1 DEF UsedOnce
<1>3. OpenSessions' = OpenSessions
    BY <1>1, <1>2 DEF OpenSessions, HasLog
<1>4. GoneSessions' = GoneSessions
    <2>1. Unannounced' = Unannounced \cup {s}
        BY <1>1 DEF Unannounced
    <2> QED BY <1>1, <1>3, <2>1 DEF GoneSessions, Unannounced, Phases, UsedOnce, TypeOK
<1>5. UNCHANGED Log!vars
    BY <1>1, <1>3, <1>4, Unseen
<1>6. LoggedHaveArrived'  BY <1>1, LoggedAreRequests DEF LoggedHaveArrived
<1>7. ClosingIsLogged'  BY <1>1 DEF ClosingIsLogged, HasLog
<1>8. CreatedIsUnlogged'  BY <1>1, <1>2 DEF CreatedIsUnlogged, HasLog
<1> QED BY <1>5, <1>6, <1>7, <1>8

\* init's second write opens the session.
LEMMA PutEventsImplements ==
    ASSUME LogInv, NEW r \in Requests, PutEvents(r)
    PROVE  /\ Log!Next
           /\ LoggedHaveArrived' /\ ClosingIsLogged' /\ CreatedIsUnlogged'
<1> USE DEF LogInv, SessionInv
<1> DEFINE s == sid[r]
<1>1. /\ pc[r] = "put_events" /\ pc'[r] = "done" /\ r \in Active
      /\ s \in sessions /\ s \in Sids /\ s \in used
      /\ \A q \in Requests \ {r} : pc'[q] = pc[q]
      /\ events' = [events EXCEPT ![s] = <<r>>]
      /\ events'[s] = <<r>>
      /\ \A z \in Sids \ {s} : events'[z] = events[z]
      /\ UNCHANGED <<sessions, used, op, sid>>
    BY DEF PutEvents, Reply, Goto, locals, env, Phases, UsedOnce, Active, TypeOK
<1>2. \A q \in Requests \ {r} : q \in Active => sid[q] # s
    BY <1>1 DEF Private
<1>3. <<r>> # <<>>
    <2>1. Len(<<r>>) = 1 /\ Len(<<>>) = 0  OBVIOUS
    <2> QED BY <2>1
<1>4. s \notin OpenSessions /\ OpenSessions' = OpenSessions \cup {s}
    BY <1>1, <1>3 DEF OpenSessions, HasLog, CreatedIsUnlogged, TypeOK
<1>5. s \notin GoneSessions /\ GoneSessions' = GoneSessions
    <2>1. s \in Unannounced /\ Unannounced' = Unannounced \ {s}
        BY <1>1, <1>2 DEF Unannounced, Active
    <2> QED BY <1>1, <1>4, <2>1 DEF GoneSessions
<1>6. ClientLog' = [ClientLog EXCEPT ![s] = <<Entry(r)>>]
    <2>1. LogOf(s)' = <<Entry(r)>>
        <3>1. DOMAIN <<r>> = {1} /\ <<r>>[1] = r  OBVIOUS
        <3>2. DOMAIN <<Entry(r)>> = {1} /\ <<Entry(r)>>[1] = Entry(r)  OBVIOUS
        <3>3. Entry(r)' = Entry(r)  BY <1>1 DEF Entry
        <3>4. LogOf(s)' = [i \in {1} |-> Entry(r)]
            BY <1>1, <3>1, <3>3 DEF LogOf, Entry
        <3>5. <<Entry(r)>> = [i \in {1} |-> Entry(r)]
            BY <3>2
        <3> QED BY <3>4, <3>5
    <2>2. \A z \in Sids \ {s} : LogOf(z)' = LogOf(z)
        BY <1>1 DEF LogOf, Entry
    <2> QED BY <1>1, <1>4, <2>1, <2>2 DEF ClientLog
<1>7. Log!Open(s, Entry(r))
    BY <1>4, <1>5, <1>6 DEF Log!Open
<1>8. Log!Next
    BY <1>1, <1>7, EntryType DEF Log!Next
<1>9. LoggedHaveArrived'
    <2> SUFFICES ASSUME NEW z \in Sids, NEW i \in DOMAIN events'[z]
                 PROVE  pc'[events'[z][i]] # "idle"
        BY DEF LoggedHaveArrived
    <2>1. CASE z = s
        <3>1. DOMAIN <<r>> = {1} /\ <<r>>[1] = r  OBVIOUS
        <3> QED BY <1>1, <2>1, <3>1
    <2>2. CASE z # s
        BY <1>1, <2>2, LoggedAreRequests DEF LoggedHaveArrived
    <2> QED BY <2>1, <2>2
<1>10. ClosingIsLogged'
    <2>1. ASSUME NEW q \in Requests, pc'[q] = "pop_session"
          PROVE  pc[q] = "pop_session" /\ sid[q] \in Sids \ {s}
        <3>1. q # r /\ pc[q] = "pop_session" /\ q \in Active
            BY <1>1, <2>1 DEF Active
        <3>2. sid[q] \in used
            BY <3>1 DEF Phases, CloseLabels
        <3> QED BY <1>2, <3>1, <3>2 DEF TypeOK
    <2> QED BY <1>1, <2>1 DEF ClosingIsLogged, HasLog
<1>11. CreatedIsUnlogged'
    BY <1>1, <1>2 DEF CreatedIsUnlogged, HasLog, Active, Phases, TypeOK
<1> QED BY <1>8, <1>9, <1>10, <1>11

\* An entry is recorded in an open session, or in the log of one being removed.
LEMMA RecordImplements ==
    ASSUME LogInv, NEW r \in Requests, AppendEvent(r) \/ CloseAppend(r)
    PROVE  /\ [Log!Next]_(Log!vars)
           /\ LoggedHaveArrived' /\ ClosingIsLogged' /\ CreatedIsUnlogged'
<1> USE DEF LogInv, SessionInv
<1> DEFINE s == sid[r]
<1>1. /\ \/ pc[r] = "append" /\ pc'[r] = "touch" /\ op[r] = "invoke"
         \/ pc[r] = "close_append" /\ pc'[r] = "pop_session" /\ op[r] = "close"
      /\ r \in Active /\ HasLog(s)
      /\ \A q \in Requests \ {r} : pc'[q] = pc[q]
      /\ events' = [events EXCEPT ![s] = Append(@, r)]
      /\ UNCHANGED <<sessions, used, op, sid>>
    BY DEF AppendEvent, CloseAppend, Goto, locals, env, Phases, InvokeLabels, CloseLabels,
           Active, TypeOK
<1>2. s \in Sids
    BY <1>1 DEF Phases, TypeOK
<1>3. /\ \A z \in Sids : HasLog(z)' = HasLog(z)
      /\ \A z \in Sids \ {s} : events'[z] = events[z]
      /\ events'[s] = Append(events[s], r)
      /\ DOMAIN events'[s] = DOMAIN events[s] \cup {Len(events[s]) + 1}
      /\ \A i \in DOMAIN events[s] : events'[s][i] = events[s][i]
      /\ events'[s][Len(events[s]) + 1] = r
    <2>1. events[s] \in Seq(Requests)  BY <1>2 DEF TypeOK
    <2>2. events'[s] = Append(events[s], r)
        BY <1>1, <1>2 DEF TypeOK
    <2>3. /\ DOMAIN events'[s] = DOMAIN events[s] \cup {Len(events[s]) + 1}
          /\ \A i \in DOMAIN events[s] : events'[s][i] = events[s][i]
          /\ events'[s][Len(events[s]) + 1] = r
        BY <2>1, <2>2
    <2>4. \A z \in Sids : Append(events[z], r) # <<>>
        <3> TAKE z \in Sids
        <3>1. events[z] \in Seq(Requests)  BY DEF TypeOK
        <3> QED BY ONLY <3>1, r \in Requests, AppendProperties, Zenon
    <2>5. \A z \in Sids \ {s} : events'[z] = events[z]
        BY <1>1 DEF TypeOK
    <2>6. \A z \in Sids : HasLog(z)' = HasLog(z)
        BY <1>1, <1>2, <2>2, <2>4, <2>5 DEF HasLog
    <2> QED BY <2>2, <2>3, <2>5, <2>6
<1>4. OpenSessions' = OpenSessions /\ GoneSessions' = GoneSessions
    <2>1. OpenSessions' = OpenSessions
        BY <1>1, <1>3 DEF OpenSessions, TypeOK
    <2>2. Unannounced' = Unannounced
        BY <1>1 DEF Unannounced
    <2> QED BY <1>1, <2>1, <2>2 DEF GoneSessions
<1>5. \A z \in Sids \ {s} : LogOf(z)' = LogOf(z)
    BY <1>1, <1>3 DEF LogOf, Entry
<1>6. ASSUME s \in OpenSessions
      PROVE  Log!Next
    <2>1. LogOf(s)' = Append(LogOf(s), Entry(r))
        <3>1. events[s] \in Seq(Requests)  BY <1>2 DEF TypeOK
        <3>2. DOMAIN events[s] = 1..Len(events[s]) /\ Len(events[s]) \in Nat
            BY <3>1
        <3>3. \A q : Entry(q)' = Entry(q)
            BY <1>1 DEF Entry
        <3>4. \A i \in 1..Len(events[s]) : events[s][i] \in Requests
            BY <3>1, <3>2
        <3>5. LogOf(s) = [i \in 1..Len(events[s]) |-> Entry(events[s][i])]
            BY <3>2 DEF LogOf
        <3>6. LogOf(s) \in Seq(LogEntries) /\ Len(LogOf(s)) = Len(events[s])
            BY <3>2, <3>4, <3>5, EntryType
        <3>7. Append(LogOf(s), Entry(r)) =
                [i \in 1..(Len(events[s]) + 1) |->
                    IF i = Len(events[s]) + 1 THEN Entry(r) ELSE LogOf(s)[i]]
            BY <3>2, <3>6, EntryType
        <3>8. LogOf(s)' =
                [i \in 1..(Len(events[s]) + 1) |->
                    IF i = Len(events[s]) + 1 THEN Entry(r) ELSE LogOf(s)[i]]
            <4>1. DOMAIN events'[s] = 1..(Len(events[s]) + 1)
                BY <1>3, <3>2
            <4>2. LogOf(s)' = [i \in DOMAIN events'[s] |-> Entry(events'[s][i])]
                BY <1>1, <3>3 DEF LogOf, Entry
            <4>3. \A i \in 1..(Len(events[s]) + 1) :
                    Entry(events'[s][i]) =
                        (IF i = Len(events[s]) + 1 THEN Entry(r) ELSE LogOf(s)[i])
                BY <1>3, <3>2, <3>5
            <4> QED BY <4>1, <4>2, <4>3
        <3> QED BY <3>7, <3>8
    <2>2. ClientLog' = [ClientLog EXCEPT ![s] = Append(@, Entry(r))]
        <3>1. ClientLog[s] = LogOf(s)
            BY <1>2, <1>6 DEF ClientLog
        <3>2. ClientLog' = [z \in Sids |-> IF z \in OpenSessions THEN LogOf(z)' ELSE <<>>]
            BY <1>4 DEF ClientLog
        <3>3. ClientLog = [z \in Sids |-> IF z \in OpenSessions THEN LogOf(z) ELSE <<>>]
            BY DEF ClientLog
        <3>4. ClientLog'[s] = Append(ClientLog[s], Entry(r))
            <4>1. ClientLog'[s] = LogOf(s)'
                BY <1>1, <1>2, <1>6, <3>2
            <4> QED BY <2>1, <3>1, <4>1
        <3>5. \A z \in Sids \ {s} : ClientLog'[z] = ClientLog[z]
            BY <1>5, <3>2, <3>3
        <3> HIDE DEF s
        <3> QED BY <3>2, <3>3, <3>4, <3>5
    <2>3. Log!Record(s, Entry(r))
        BY <1>4, <1>6, <2>2 DEF Log!Record
    <2> QED BY <1>2, <2>3, EntryType DEF Log!Next
<1>7. ASSUME s \notin OpenSessions
      PROVE  UNCHANGED Log!vars
    <2>1. ClientLog' = ClientLog
        BY <1>4, <1>5, <1>7 DEF ClientLog
    <2> QED BY <1>4, <2>1 DEF Log!vars
<1>8. LoggedHaveArrived'
    <2> SUFFICES ASSUME NEW z \in Sids, NEW i \in DOMAIN events'[z]
                 PROVE  pc'[events'[z][i]] # "idle"
        BY DEF LoggedHaveArrived
    <2>1. CASE events'[z][i] = r
        BY <1>1, <2>1
    <2>2. CASE events'[z][i] # r
        <3>1. i \in DOMAIN events[z] /\ events'[z][i] = events[z][i]
            BY <1>3, <2>2
        <3> QED BY <1>1, <2>2, <3>1, LoggedAreRequests DEF LoggedHaveArrived
    <2> QED BY <2>1, <2>2
<1>9. ClosingIsLogged'
    <2> SUFFICES ASSUME NEW q \in Requests, pc'[q] = "pop_session"
                 PROVE  \/ ~HasLog(sid[q])'
                        \/ \E i \in DOMAIN events'[sid[q]] : events'[sid[q]][i] = q
        BY <1>1 DEF ClosingIsLogged
    <2>1. CASE q = r
        BY <1>3, <2>1
    <2>2. CASE q # r
        <3>1. pc[q] = "pop_session" /\ sid[q] \in Sids
            BY <1>1, <2>2 DEF Phases, Active, CloseLabels, TypeOK
        <3> QED BY <1>1, <1>3, <3>1 DEF ClosingIsLogged
    <2> QED BY <2>1, <2>2
<1>10. CreatedIsUnlogged'
    BY <1>1, <1>3 DEF CreatedIsUnlogged, Phases, TypeOK
<1> QED BY <1>6, <1>7, <1>8, <1>9, <1>10

\* close's first removal closes the session, unless another close did.
LEMMA PopSessionImplements ==
    ASSUME LogInv, NEW r \in Requests, PopSession(r)
    PROVE  /\ [Log!Next]_(Log!vars)
           /\ LoggedHaveArrived' /\ ClosingIsLogged' /\ CreatedIsUnlogged'
<1> USE DEF LogInv, SessionInv
<1>1. PICK s \in Sids : s = sid[r] /\ s \in used
    BY DEF PopSession, Phases, Active, CloseLabels, TypeOK
<1>2. /\ pc[r] = "pop_session" /\ pc'[r] = "pop_events" /\ op[r] = "close" /\ r \in Active
      /\ \A q \in Requests \ {r} : pc'[q] = pc[q]
      /\ sessions' = sessions \ {s}
      /\ UNCHANGED <<events, used, op, sid>>
    BY <1>1 DEF PopSession, Goto, locals, env, Phases, CloseLabels, Active, TypeOK
<1>3. Unannounced' = Unannounced /\ s \notin Unannounced
    BY <1>1, <1>2 DEF Unannounced, Private
<1>4. OpenSessions' = OpenSessions \ {s}
    BY <1>2 DEF OpenSessions, HasLog
<1>5. ASSUME s \in OpenSessions
      PROVE  Log!Close(s)
    <2>1. GoneSessions' = GoneSessions \cup {s}
        BY <1>1, <1>2, <1>3, <1>4 DEF GoneSessions
    <2>2. ClientLog' = [ClientLog EXCEPT ![s] = <<>>]
        <3>1. \A z \in Sids : LogOf(z)' = LogOf(z)
            BY <1>2 DEF LogOf, Entry
        <3> QED BY <1>4, <3>1 DEF ClientLog
    <2>3. \E i \in DOMAIN ClientLog[s] : ClientLog[s][i] \in {e \in LogEntries : e.closing}
        <3>1. ClientLog[s] = LogOf(s)
            BY <1>5 DEF ClientLog
        <3>2. PICK i \in DOMAIN events[s] : events[s][i] = r
            BY <1>1, <1>2, <1>5 DEF OpenSessions, ClosingIsLogged
        <3>3. i \in DOMAIN LogOf(s) /\ LogOf(s)[i] = Entry(r)
            BY <3>2 DEF LogOf
        <3>4. Entry(r).closing
            BY <1>2 DEF Entry
        <3> QED BY <3>1, <3>3, <3>4, EntryType
    <2> QED BY <1>4, <1>5, <2>1, <2>2, <2>3 DEF Log!Close
<1>6. ASSUME s \notin OpenSessions
      PROVE  UNCHANGED Log!vars
    <2>1. OpenSessions' = OpenSessions /\ GoneSessions' = GoneSessions
        BY <1>2, <1>3, <1>4, <1>6 DEF GoneSessions
    <2> QED BY <1>2, <2>1, Unseen
<1>7. [Log!Next]_(Log!vars)
    BY <1>5, <1>6 DEF Log!Next
<1>8. LoggedHaveArrived'
    BY <1>2, LoggedAreRequests DEF LoggedHaveArrived
<1>9. ClosingIsLogged' /\ CreatedIsUnlogged'
    BY <1>2 DEF ClosingIsLogged, CreatedIsUnlogged, HasLog
<1> QED BY <1>7, <1>8, <1>9

\* When its log goes, the session is closed already.
LEMMA PopEventsImplements ==
    ASSUME LogInv, NEW r \in Requests, PopEvents(r)
    PROVE  /\ UNCHANGED Log!vars
           /\ LoggedHaveArrived' /\ ClosingIsLogged' /\ CreatedIsUnlogged'
<1> USE DEF LogInv, SessionInv
<1>1. PICK s \in Sids : s = sid[r] /\ s \notin sessions
    BY DEF PopEvents, Phases, Active, CloseLabels, TypeOK
<1>2. /\ pc[r] = "pop_events" /\ pc'[r] = "done"
      /\ \A q \in Requests \ {r} : pc'[q] = pc[q]
      /\ events'[s] = <<>>
      /\ \A z \in Sids \ {s} : events'[z] = events[z]
      /\ UNCHANGED <<sessions, used, op, sid>>
    BY <1>1 DEF PopEvents, Reply, Goto, locals, env, TypeOK
<1>3. OpenSessions' = OpenSessions
    BY <1>1, <1>2 DEF OpenSessions, HasLog, TypeOK
<1>4. GoneSessions' = GoneSessions
    <2>1. Unannounced' = Unannounced  BY <1>2 DEF Unannounced
    <2> QED BY <1>2, <1>3, <2>1 DEF GoneSessions
<1>5. UNCHANGED Log!vars
    <2>1. \A z \in OpenSessions : events'[z] = events[z]
        BY <1>1, <1>2 DEF OpenSessions, TypeOK
    <2> QED BY <1>2, <1>3, <1>4, <2>1, Unseen
<1>6. LoggedHaveArrived'
    <2>1. DOMAIN <<>> = {}  OBVIOUS
    <2> QED BY <1>2, <2>1, LoggedAreRequests DEF LoggedHaveArrived
<1>7. ClosingIsLogged'
    <2> SUFFICES ASSUME NEW q \in Requests, pc'[q] = "pop_session"
                 PROVE  \/ ~HasLog(sid[q])'
                        \/ \E i \in DOMAIN events'[sid[q]] : events'[sid[q]][i] = q
        BY <1>2 DEF ClosingIsLogged
    <2>1. pc[q] = "pop_session" /\ sid[q] \in Sids
        BY <1>2 DEF Phases, Active, CloseLabels, TypeOK
    <2>2. CASE sid[q] = s
        BY <1>2, <2>2 DEF HasLog
    <2>3. CASE sid[q] # s
        BY <1>2, <2>1, <2>3 DEF ClosingIsLogged, HasLog
    <2> QED BY <2>2, <2>3
<1>8. CreatedIsUnlogged'
    <2> SUFFICES ASSUME NEW q \in Requests, pc'[q] = "put_events"
                 PROVE  ~HasLog(sid[q])'
        BY <1>2 DEF CreatedIsUnlogged
    <2>1. pc[q] = "put_events" /\ sid[q] \in Sids \ {s}
        BY <1>1, <1>2 DEF Phases, TypeOK
    <2> QED BY <1>2, <2>1 DEF CreatedIsUnlogged, HasLog
<1> QED BY <1>5, <1>6, <1>7, <1>8

\* The end of the process ends every session at once.
LEMMA RestartImplements ==
    ASSUME LogInv, ForgetSessions, pc' = [r \in Requests |-> IF r \in Active THEN "lost" ELSE pc[r]]
    PROVE  /\ Log!Restart
           /\ LoggedHaveArrived' /\ ClosingIsLogged' /\ CreatedIsUnlogged'
<1> USE DEF LogInv, SessionInv
<1>1. /\ sessions' = {} /\ \A s \in Sids : events'[s] = <<>>
      /\ UNCHANGED <<op, sid, used>>
    BY DEF ForgetSessions, locals
<1>2. OpenSessions' = {} /\ ClientLog' = [s \in Sids |-> <<>>]
    <2>1. OpenSessions' = {}  BY <1>1 DEF OpenSessions
    <2> QED BY <2>1 DEF ClientLog
<1>3. GoneSessions' = used
    <2>1. Unannounced' = {}  BY DEF Unannounced, Active
    <2> QED BY <1>1, <1>2, <2>1 DEF GoneSessions
<1>4. Log!Restart
    BY <1>2, <1>3, OpenIsAnnounced DEF Log!Restart, GoneSessions, TypeOK
<1>5. LoggedHaveArrived'
    <2>1. DOMAIN <<>> = {}  OBVIOUS
    <2> QED BY <1>1, <2>1 DEF LoggedHaveArrived
<1>6. ClosingIsLogged' /\ CreatedIsUnlogged'
    BY DEF ClosingIsLogged, CreatedIsUnlogged, Active
<1> QED BY <1>4, <1>5, <1>6

(***************************************************************************)
(* Every step                                                              *)
(***************************************************************************)
LEMMA HandlerImplements ==
    ASSUME LogInv, NEW r \in Requests, Handler(r)
    PROVE  /\ [Log!Next]_(Log!vars)
           /\ LoggedHaveArrived' /\ ClosingIsLogged' /\ CreatedIsUnlogged'
<1>1. ASSUME NEW s \in Sids, PutSession(r, s)
      PROVE  /\ UNCHANGED Log!vars
             /\ LoggedHaveArrived' /\ ClosingIsLogged' /\ CreatedIsUnlogged'
    BY <1>1, PutSessionImplements
<1>2. CASE \E s \in Sids : PutSession(r, s)
    BY <1>1, <1>2
<1>3. CASE PutEvents(r)
    BY <1>3, PutEventsImplements
<1>4. CASE AppendEvent(r) \/ CloseAppend(r)
    BY <1>4, RecordImplements
<1>5. CASE PopSession(r)
    BY <1>5, PopSessionImplements
<1>6. CASE PopEvents(r)
    BY <1>6, PopEventsImplements
<1>7. CASE \/ Cleanup(r) \/ Lookup(r) \/ Replay(r) \/ AppendFails(r)
           \/ Touch(r) \/ SaveResult(r) \/ SaveStamp(r)
    BY <1>7, LocalImplements
<1> QED BY <1>2, <1>3, <1>4, <1>5, <1>6, <1>7 DEF Handler

LEMMA LogStep == LogInv /\ [Next]_vars => LogInv' /\ [Log!Next]_(Log!vars)
<1> SUFFICES ASSUME LogInv, [Next]_vars PROVE LogInv' /\ [Log!Next]_(Log!vars)
    OBVIOUS
<1>1. SessionInv'
    BY SessionStep DEF LogInv
<1>2. ASSUME UNCHANGED <<sessions, events, used, op, sid, pc>>
      PROVE  /\ UNCHANGED Log!vars
             /\ LoggedHaveArrived' /\ ClosingIsLogged' /\ CreatedIsUnlogged'
    <2>1. OpenSessions' = OpenSessions /\ GoneSessions' = GoneSessions
        BY <1>2 DEF OpenSessions, GoneSessions, Unannounced, HasLog
    <2>2. UNCHANGED Log!vars
        BY <1>2, <2>1, Unseen DEF LogInv, SessionInv
    <2> QED BY <1>2, <2>2 DEF LogInv, LoggedHaveArrived, ClosingIsLogged, CreatedIsUnlogged, HasLog
<1>3. CASE UNCHANGED vars \/ Tick
    BY <1>1, <1>2, <1>3 DEF vars, dicts, locals, env, Tick, LogInv
<1>4. CASE Shutdown \/ Crash
    <2>1. ForgetSessions /\ pc' = [r \in Requests |-> IF r \in Active THEN "lost" ELSE pc[r]]
        BY <1>4 DEF Shutdown, Crash, LogInv, SessionInv, TypeOK
    <2> QED BY <1>1, <2>1, RestartImplements DEF LogInv, Log!Next
<1>5. ASSUME NEW r \in Requests, Arrivals(r)
      PROVE  LogInv' /\ [Log!Next]_(Log!vars)
    BY <1>1, <1>5, ArrivalImplements DEF LogInv
<1>6. ASSUME NEW r \in Requests, Handler(r)
      PROVE  LogInv' /\ [Log!Next]_(Log!vars)
    BY <1>1, <1>6, HandlerImplements DEF LogInv
<1> QED BY <1>3, <1>4, <1>5, <1>6 DEF Next

\* However the dict operations of any number of threads interleave, the sessions
\* of the service look to its clients as if they were opened, recorded in and
\* closed in one step each.
THEOREM ImplementsSessionLogHolds == Spec => ImplementsSessionLog
BY LogInvInit, LogInit, LogStep, PTL DEF Spec, ImplementsSessionLog, Log!Spec

(***************************************************************************)
(* Logs and answers.  An event is in one log once, and there only for as   *)
(* long as its request goes on to be accepted, or its session is gone.     *)
(***************************************************************************)
\* Invokes that have recorded their event and not failed.
Recorded(r) ==
    /\ op[r] = "invoke"
    /\ pc[r] \in {"touch", "save_result", "save_stamp"} \/ answer[r] = "accepted"

LoggedRightly(q, s) ==
    \/ op[q] = "init" /\ pc[q] = "done"
    \/ op[q] = "close" /\ pc[q] \in {"pop_session", "pop_events", "done"}
    \/ Recorded(q)
    \/ op[q] = "invoke" /\ pc[q] = "done" /\ s \notin sessions

LogsAreTrue ==
    \A s \in Sids : \A i \in DOMAIN events[s] :
        /\ events[s][i] \in Requests
        /\ sid[events[s][i]] = s
        /\ LoggedRightly(events[s][i], s)
        /\ \A j \in DOMAIN events[s] : events[s][j] = events[s][i] => j = i

RecordedAreLogged ==
    \A r \in Requests : Recorded(r) =>
        /\ sid[r] \in Sids \cap used
        /\ sid[r] \notin Unannounced
        /\ sid[r] \in sessions => \E i \in DOMAIN events[sid[r]] : events[sid[r]][i] = r

TrueLogInv == SessionInv /\ LogsAreTrue /\ RecordedAreLogged

LEMMA TrueLogInit == Init => TrueLogInv
<1> SUFFICES ASSUME Init PROVE TrueLogInv
    OBVIOUS
<1>1. SessionInv  BY SessionInit
<1>2. \A s \in Sids : DOMAIN events[s] = {}  BY DEF Init
<1>3. \A r \in Requests : ~Recorded(r)  BY DEF Init, Recorded
<1> QED BY <1>1, <1>2, <1>3 DEF TrueLogInv, LogsAreTrue, RecordedAreLogged

\* A step that changes no log and moves a request that has not ended.
LEMMA QuietKeepsLogs ==
    ASSUME TrueLogInv, NEW r \in Requests, UNCHANGED <<sessions, events, used>>,
           \A q \in Requests \ {r} :
              pc'[q] = pc[q] /\ answer'[q] = answer[q] /\ op'[q] = op[q] /\ sid'[q] = sid[q],
           pc[r] \notin {"put_events", "pop_session", "pop_events", "done"},
           pc'[r] # "put_events",
           Recorded(r) => /\ op'[r] = op[r] /\ sid'[r] = sid[r]
                          /\ Recorded(r)' \/ (pc'[r] = "done" /\ sid[r] \notin sessions),
           Recorded(r)' => Recorded(r)
    PROVE  LogsAreTrue' /\ RecordedAreLogged'
<1> USE DEF TrueLogInv
<1>1. Unannounced' = Unannounced
    BY SameUnannounced
<1>2. LogsAreTrue'
    <2> SUFFICES ASSUME NEW s \in Sids, NEW i \in DOMAIN events[s]
                 PROVE  sid'[events[s][i]] = s /\ LoggedRightly(events[s][i], s)'
        BY DEF LogsAreTrue
    <2>1. events[s][i] \in Requests /\ sid[events[s][i]] = s /\ LoggedRightly(events[s][i], s)
        BY DEF LogsAreTrue
    <2>2. CASE events[s][i] = r
        <3>1. Recorded(r)  BY <2>1, <2>2 DEF LoggedRightly
        <3>2. op[r] = "invoke"  BY <3>1 DEF Recorded
        <3> QED BY <2>1, <2>2, <3>1, <3>2 DEF LoggedRightly
    <2>3. CASE events[s][i] # r
        BY <2>1, <2>3 DEF LoggedRightly, Recorded
    <2> QED BY <2>2, <2>3
<1>3. RecordedAreLogged'
    <2> SUFFICES ASSUME NEW q \in Requests, Recorded(q)'
                 PROVE  Recorded(q) /\ sid'[q] = sid[q]
        BY <1>1 DEF RecordedAreLogged
    <2>1. CASE q = r  BY <2>1
    <2>2. CASE q # r  BY <2>2 DEF Recorded
    <2> QED BY <2>1, <2>2
<1> QED BY <1>2, <1>3

LEMMA ArrivalKeepsLogs ==
    ASSUME TrueLogInv, NEW r \in Requests, Arrivals(r)
    PROVE  LogsAreTrue' /\ RecordedAreLogged'
<1> USE DEF TrueLogInv, SessionInv
<1>1. PICK o, s, k : Arrive(r, o, s, k)
    BY DEF Arrivals, Unauthorized, NotFound, TooLarge, StartInit, StartInvoke, Stream,
           StartClose
<1>2. /\ pc[r] = "idle" /\ UNCHANGED <<sessions, events, used>>
      /\ \A q \in Requests \ {r} : op'[q] = op[q] /\ sid'[q] = sid[q]
    BY <1>1 DEF Arrive, dicts, env, TypeOK
<1>3. \/ \E status \in {"200", "401", "404", "413"} : Reply(r, status)
      \/ \E label \in {"scan", "close_append"} : Goto(r, label) /\ UNCHANGED answer
    BY DEF Arrivals, Unauthorized, NotFound, TooLarge, StartInit, StartInvoke, Stream,
           StartClose
<1>4. answer[r] = "none"
    BY <1>2 DEF Unanswered
<1>5. /\ pc'[r] \in {"done", "scan", "close_append"} /\ answer'[r] # "accepted"
      /\ \A q \in Requests \ {r} : pc'[q] = pc[q] /\ answer'[q] = answer[q]
    BY <1>3, <1>4 DEF Reply, Goto, TypeOK
<1>6. ~Recorded(r) /\ ~Recorded(r)'
    BY <1>2, <1>4, <1>5 DEF Recorded
<1> QED BY <1>2, <1>5, <1>6, QuietKeepsLogs

LEMMA LocalKeepsLogs ==
    ASSUME TrueLogInv, NEW r \in Requests,
           \/ Cleanup(r) \/ Lookup(r) \/ Replay(r) \/ AppendFails(r)
           \/ Touch(r) \/ SaveResult(r) \/ SaveStamp(r)
    PROVE  LogsAreTrue' /\ RecordedAreLogged'
<1> USE DEF TrueLogInv, SessionInv
<1>1. /\ UNCHANGED <<sessions, events, used, op, sid>>
      /\ pc[r] \in CleanupLabels \cup InvokeLabels \cup {"close_append"}
    BY DEF Cleanup, ScanStarts, ScanFails, ScanEnds, PopResult, PopStamp, Lookup, Replay,
           AppendFails, Touch, SaveResult, SaveStamp, dicts, locals, env, CleanupLabels, InvokeLabels
<1>2. answer[r] = "none"
    BY <1>1 DEF Unanswered, CleanupLabels, InvokeLabels
<1>3. ASSUME Cleanup(r) \/ Lookup(r) \/ Replay(r) \/ AppendFails(r)
      PROVE  /\ pc[r] \notin {"touch", "save_result", "save_stamp"}
             /\ \/ \E status \in {"replayed", "500"} : Reply(r, status)
                \/ /\ UNCHANGED answer
                   /\ \E label \in {"scanning", "sweep", "pop_stamp", "put_session", "append",
                                    "lookup", "replay"} : Goto(r, label)
    <2>1. \A rest : AfterScan(r, rest) \in {"sweep", "put_session", "append", "lookup"}
        BY AfterScanType
    <2> QED BY <1>3, <2>1 DEF Cleanup, ScanStarts, ScanFails, ScanEnds, PopResult, PopStamp, Lookup,
               Replay, AppendFails
<1>4. ASSUME Cleanup(r) \/ Lookup(r) \/ Replay(r) \/ AppendFails(r)
      PROVE  /\ \A q \in Requests \ {r} : pc'[q] = pc[q] /\ answer'[q] = answer[q]
             /\ pc'[r] # "put_events" /\ ~Recorded(r) /\ ~Recorded(r)'
    BY <1>2, <1>3, <1>4 DEF Reply, Goto, TypeOK, Recorded
<1>5. ASSUME Touch(r) \/ SaveResult(r) \/ SaveStamp(r)
      PROVE  /\ pc[r] \in {"touch", "save_result", "save_stamp"}
             /\ \/ Reply(r, "accepted")
                \/ Reply(r, "500") /\ sid[r] \notin sessions
                \/ /\ UNCHANGED answer
                   /\ \E label \in {"save_result", "save_stamp"} : Goto(r, label)
    BY <1>5 DEF Touch, SaveResult, SaveStamp
<1>6. ASSUME Touch(r) \/ SaveResult(r) \/ SaveStamp(r)
      PROVE  /\ \A q \in Requests \ {r} : pc'[q] = pc[q] /\ answer'[q] = answer[q]
             /\ pc'[r] # "put_events" /\ Recorded(r)
             /\ Recorded(r)' \/ (pc'[r] = "done" /\ sid[r] \notin sessions)
    <2>1. op[r] = "invoke"  BY <1>5, <1>6 DEF Phases, InvokeLabels
    <2> QED BY <1>1, <1>5, <1>6, <2>1 DEF Reply, Goto, TypeOK, Recorded
<1>7. pc[r] \notin {"put_events", "pop_session", "pop_events", "done"}
    BY <1>1 DEF CleanupLabels, InvokeLabels
<1>8. CASE Cleanup(r) \/ Lookup(r) \/ Replay(r) \/ AppendFails(r)
    BY <1>1, <1>4, <1>7, <1>8, QuietKeepsLogs
<1>9. CASE Touch(r) \/ SaveResult(r) \/ SaveStamp(r)
    BY <1>1, <1>6, <1>7, <1>9, QuietKeepsLogs
<1> QED BY <1>8, <1>9

LEMMA CreationKeepsLogs ==
    ASSUME TrueLogInv, NEW r \in Requests,
           (\E s \in Sids : PutSession(r, s)) \/ PutEvents(r)
    PROVE  LogsAreTrue' /\ RecordedAreLogged'
<1> USE DEF TrueLogInv, SessionInv
<1>1. ASSUME NEW s \in Sids, PutSession(r, s)
      PROVE  LogsAreTrue' /\ RecordedAreLogged'
    <2>1. /\ pc[r] = "put_session" /\ pc'[r] = "put_events" /\ sid'[r] = s /\ op[r] = "init"
          /\ \A q \in Requests \ {r} : pc'[q] = pc[q] /\ sid'[q] = sid[q]
          /\ s \notin used /\ used' = used \cup {s} /\ sessions' = sessions \cup {s}
          /\ UNCHANGED <<events, op, answer>>
        BY <1>1 DEF PutSession, Goto, history, Phases, TypeOK
    <2>2. \A q \in Requests : q # r => Recorded(q)' = Recorded(q)
        BY <2>1 DEF Recorded
    <2>3. ~Recorded(r) /\ ~Recorded(r)'
        BY <2>1 DEF Recorded
    <2>4. LogsAreTrue'
        <3> SUFFICES ASSUME NEW z \in Sids, NEW i \in DOMAIN events[z]
                     PROVE  sid'[events[z][i]] = z /\ LoggedRightly(events[z][i], z)'
            BY <2>1 DEF LogsAreTrue
        <3>1. events[z][i] \in Requests /\ sid[events[z][i]] = z /\ LoggedRightly(events[z][i], z)
            BY DEF LogsAreTrue
        <3>2. events[z][i] # r
            BY <2>1, <2>3, <3>1 DEF LoggedRightly
        <3>3. z \in used
            <4>1. HasLog(z)  BY <3>1 DEF HasLog, TypeOK
            <4> QED BY <4>1 DEF UsedOnce
        <3> QED BY <2>1, <2>2, <3>1, <3>2, <3>3 DEF LoggedRightly
    <2>5. RecordedAreLogged'
        <3>1. Unannounced' \subseteq Unannounced \cup {s}
            BY <2>1 DEF Unannounced
        <3> QED BY <2>1, <2>2, <2>3, <3>1 DEF RecordedAreLogged
    <2> QED BY <2>4, <2>5
<1>2. ASSUME PutEvents(r)
      PROVE  LogsAreTrue' /\ RecordedAreLogged'
    <2>1. /\ pc[r] = "put_events" /\ pc'[r] = "done" /\ op[r] = "init"
          /\ sid[r] \in sessions /\ sid[r] \in Sids
          /\ answer'[r] = "200"
          /\ \A q \in Requests \ {r} : pc'[q] = pc[q] /\ answer'[q] = answer[q]
          /\ events'[sid[r]] = <<r>>
          /\ \A z \in Sids \ {sid[r]} : events'[z] = events[z]
          /\ UNCHANGED <<sessions, used, op, sid>>
        BY <1>2 DEF PutEvents, Reply, Goto, locals, env, Phases, TypeOK
    <2>2. \A q \in Requests : Recorded(q)' = Recorded(q)
        BY <2>1 DEF Recorded
    <2>3. LogsAreTrue'
        <3>1. ASSUME NEW z \in Sids \ {sid[r]}, NEW i \in DOMAIN events[z]
              PROVE  LoggedRightly(events[z][i], z)'
            <4>1. events[z][i] \in Requests /\ sid[events[z][i]] = z /\ LoggedRightly(events[z][i], z)
                BY DEF LogsAreTrue
            <4>2. events[z][i] # r  BY <3>1, <4>1
            <4> QED BY <2>1, <2>2, <4>1, <4>2 DEF LoggedRightly
        <3>2. LoggedRightly(r, sid[r])'
            BY <2>1 DEF LoggedRightly
        <3>3. DOMAIN <<r>> = {1} /\ <<r>>[1] = r
            OBVIOUS
        <3> QED BY <2>1, <3>1, <3>2, <3>3 DEF LogsAreTrue
    <2>4. RecordedAreLogged'
        <3>1. sid[r] \in Unannounced /\ Unannounced' \subseteq Unannounced
            BY <2>1 DEF Unannounced
        <3> QED BY <2>1, <2>2, <3>1 DEF RecordedAreLogged
    <2> QED BY <2>3, <2>4
<1> QED BY <1>1, <1>2

\* An invoke or a close adds its event, for the first time.
LEMMA RecordingKeepsLogs ==
    ASSUME TrueLogInv, NEW r \in Requests, AppendEvent(r) \/ CloseAppend(r)
    PROVE  LogsAreTrue' /\ RecordedAreLogged'
<1> USE DEF TrueLogInv, SessionInv
<1>1. /\ \/ pc[r] = "append" /\ pc'[r] = "touch" /\ op[r] = "invoke"
         \/ pc[r] = "close_append" /\ pc'[r] = "pop_session" /\ op[r] = "close"
      /\ HasLog(sid[r])
      /\ \A q \in Requests \ {r} : pc'[q] = pc[q]
      /\ events' = [events EXCEPT ![sid[r]] = Append(@, r)]
      /\ UNCHANGED <<sessions, used, op, sid, answer>>
    BY DEF AppendEvent, CloseAppend, Goto, locals, env, Phases, InvokeLabels, CloseLabels, TypeOK
<1>a. r \in Active /\ sid[r] \in Sids \cap used
    <2>1. r \in Active  BY <1>1 DEF Active
    <2>2. sid[r] \in used  BY <1>1, <2>1 DEF Phases
    <2> QED BY <2>1, <2>2 DEF TypeOK
<1>2. ~Recorded(r) /\ answer[r] = "none"
    BY <1>1 DEF Recorded, Unanswered
<1>3. \A q \in Requests \ {r} : Recorded(q)' = Recorded(q)
    BY <1>1 DEF Recorded
<1>4. \A z \in Sids : \A i \in DOMAIN events[z] : events[z][i] # r
    BY <1>1, <1>2 DEF LogsAreTrue, LoggedRightly
<1> DEFINE old == events[sid[r]]
           new == Append(old, r)
<1>5. /\ events'[sid[r]] = new
      /\ \A z \in Sids \ {sid[r]} : events'[z] = events[z]
    BY <1>1, <1>a DEF TypeOK
<1>6. /\ DOMAIN new = DOMAIN old \cup {Len(old) + 1}
      /\ Len(old) + 1 \notin DOMAIN old
      /\ new[Len(old) + 1] = r
      /\ \A i \in DOMAIN old : new[i] = old[i]
    <2>1. old \in Seq(Requests)  BY <1>a DEF TypeOK
    <2> HIDE DEF old
    <2>2. DOMAIN new = 1 .. Len(old) + 1 /\ DOMAIN old = 1 .. Len(old) /\ Len(old) \in Nat
        BY <2>1
    <2> QED BY <2>1, <2>2
<1> HIDE DEF old, new
<1>7. LogsAreTrue'
    <2>1. ASSUME NEW z \in Sids, NEW i \in DOMAIN events[z], NEW q, q = events[z][i]
          PROVE  q \in Requests /\ q # r /\ sid'[q] = z /\ LoggedRightly(q, z)'
        <3>1. q \in Requests /\ sid[q] = z /\ LoggedRightly(q, z) /\ q # r
            BY <1>4, <2>1 DEF LogsAreTrue
        <3> QED BY <1>1, <1>3, <3>1 DEF LoggedRightly
    <2>2. LoggedRightly(r, sid[r])'
        BY <1>1 DEF LoggedRightly, Recorded
    <2>3. ASSUME NEW i \in DOMAIN new, NEW q, q = new[i]
          PROVE  q \in Requests /\ sid'[q] = sid[r] /\ LoggedRightly(q, sid[r])'
        <3>1. CASE i \in DOMAIN old
            <4>1. i \in DOMAIN events[sid[r]] /\ q = events[sid[r]][i]
                BY <1>6, <2>3, <3>1 DEF old
            <4> QED BY <1>1, <1>a, <2>1, <4>1
        <3>2. CASE i \notin DOMAIN old
            <4>1. q = r  BY <1>6, <2>3, <3>2
            <4> QED BY <1>1, <2>2, <4>1
        <3> QED BY <3>1, <3>2
    <2>4. \A i, j \in DOMAIN new : new[j] = new[i] => j = i
        <3>1. \A i \in DOMAIN old : old[i] # r
            BY <1>4, <1>a DEF old
        <3>2. \A i, j \in DOMAIN old : old[j] = old[i] => j = i
            BY <1>a DEF LogsAreTrue, old
        <3> QED BY <1>6, <3>1, <3>2
    <2>5. \A z \in Sids \ {sid[r]} : \A i, j \in DOMAIN events[z] : events[z][j] = events[z][i] => j = i
        BY DEF LogsAreTrue
    <2>6. ASSUME NEW z \in Sids, NEW i \in DOMAIN events'[z], NEW q, q = events'[z][i]
          PROVE  q \in Requests /\ sid'[q] = z /\ LoggedRightly(q, z)'
        <3>1. CASE z = sid[r]
            <4>1. i \in DOMAIN new /\ q = new[i]  BY <1>5, <2>6, <3>1
            <4>2. q \in Requests /\ sid'[q] = sid[r] /\ LoggedRightly(q, sid[r])'  BY <2>3, <4>1
            <4>3. sid'[r] = sid[r]  BY <1>1
            <4> QED BY <1>1, <3>1, <4>2 DEF LoggedRightly
        <3>2. CASE z # sid[r]
            <4>1. events'[z] = events[z]  BY <1>5, <3>2
            <4> QED BY <2>1, <2>6, <4>1
        <3> QED BY <3>1, <3>2
    <2>7. \A z \in Sids : \A i, j \in DOMAIN events'[z] : events'[z][j] = events'[z][i] => j = i
        BY <1>5, <2>4, <2>5
    <2> QED BY <2>6, <2>7 DEF LogsAreTrue
<1>8. RecordedAreLogged'
    <2>1. Unannounced' = Unannounced
        BY <1>1, SameUnannounced
    <2>2. sid[r] \notin Unannounced
        <3> SUFFICES ASSUME NEW p \in Requests, pc[p] = "put_events", sid[p] = sid[r]
                     PROVE  FALSE
            BY DEF Unannounced
        <3>1. p = r  BY <1>a DEF Private
        <3> QED BY <1>1, <3>1
    <2>3. ASSUME NEW q \in Requests, q # r, Recorded(q)
          PROVE  /\ sid[q] \in Sids \cap used /\ sid[q] \notin Unannounced
                 /\ sid[q] \in sessions => \E i \in DOMAIN events'[sid[q]] : events'[sid[q]][i] = q
        <3>1. /\ sid[q] \in Sids \cap used /\ sid[q] \notin Unannounced
              /\ sid[q] \in sessions => \E i \in DOMAIN events[sid[q]] : events[sid[q]][i] = q
            BY <2>3 DEF RecordedAreLogged
        <3>2. CASE sid[q] = sid[r]
            BY <1>5, <1>6, <3>1, <3>2 DEF old
        <3>3. CASE sid[q] # sid[r]
            BY <1>5, <3>1, <3>3
        <3> QED BY <3>1, <3>2, <3>3
    <2>4. \E i \in DOMAIN events'[sid[r]] : events'[sid[r]][i] = r
        BY <1>5, <1>6
    <2> QED BY <1>1, <1>3, <1>a, <2>1, <2>2, <2>3, <2>4 DEF RecordedAreLogged
<1> QED BY <1>7, <1>8

LEMMA RemovalKeepsLogs ==
    ASSUME TrueLogInv, NEW r \in Requests, PopSession(r) \/ PopEvents(r)
    PROVE  LogsAreTrue' /\ RecordedAreLogged'
<1> USE DEF TrueLogInv, SessionInv
<1>1. /\ pc[r] \in {"pop_session", "pop_events"} /\ UNCHANGED <<used, op, sid>>
      /\ pc[r] = "pop_session" => PopSession(r)
      /\ pc[r] = "pop_events" => PopEvents(r)
    BY DEF PopSession, PopEvents, locals, env
<1>a. op[r] = "close" /\ sid[r] \in Sids /\ (pc[r] = "pop_events" => sid[r] \notin sessions)
    BY <1>1, RuntimeAssumption DEF Phases, CloseLabels, Active, TypeOK
<1>b. /\ pc'[r] \in {"pop_events", "done"} /\ sessions' \subseteq sessions
      /\ \A q \in Requests \ {r} : pc'[q] = pc[q] /\ answer'[q] = answer[q]
      /\ \/ UNCHANGED events
         \/ /\ sid[r] \notin sessions' /\ events'[sid[r]] = << >>
            /\ \A z \in Sids \ {sid[r]} : events'[z] = events[z]
    <2>1. CASE pc[r] = "pop_session"
        BY <1>1, <2>1 DEF PopSession, Goto, TypeOK
    <2>2. CASE pc[r] = "pop_events"
        BY <1>1, <1>a, <2>2 DEF PopEvents, Reply, Goto, TypeOK
    <2> QED BY <1>1, <2>1, <2>2
<1>2. \A q \in Requests : Recorded(q)' = Recorded(q)
    BY <1>1, <1>a, <1>b DEF Recorded
<1>3. \A z \in Sids : DOMAIN events'[z] = {} \/ events'[z] = events[z]
    BY <1>a, <1>b
<1>4. LogsAreTrue'
    <2>1. ASSUME NEW z \in Sids, NEW i \in DOMAIN events[z], NEW q, q = events[z][i]
          PROVE  LoggedRightly(q, z)'
        <3>1. q \in Requests /\ LoggedRightly(q, z)
            BY <2>1 DEF LogsAreTrue
        <3>2. CASE q = r
            BY <1>1, <1>a, <1>b, <3>2 DEF LoggedRightly
        <3>3. CASE q # r
            <4>1. pc'[q] = pc[q]  BY <1>b, <3>1, <3>3
            <4> QED BY <1>1, <1>2, <1>b, <3>1, <4>1 DEF LoggedRightly
        <3> QED BY <3>2, <3>3
    <2> QED BY <1>1, <1>3, <2>1 DEF LogsAreTrue
<1>5. RecordedAreLogged'
    <2>1. Unannounced' = Unannounced
        BY <1>1, <1>b, SameUnannounced
    <2> QED BY <1>1, <1>2, <1>a, <1>b, <2>1 DEF RecordedAreLogged
<1> QED BY <1>4, <1>5

LEMMA TrueLogStep == TrueLogInv /\ [Next]_vars => TrueLogInv'
<1> SUFFICES ASSUME TrueLogInv, [Next]_vars PROVE LogsAreTrue' /\ RecordedAreLogged'
    BY SessionStep DEF TrueLogInv
<1> USE DEF TrueLogInv
<1>1. ASSUME UNCHANGED <<sessions, events, used, op, sid, pc, answer>>
      PROVE  LogsAreTrue' /\ RecordedAreLogged'
    <2>1. Unannounced' = Unannounced  BY <1>1 DEF Unannounced
    <2>2. \A q \in Requests : Recorded(q)' = Recorded(q)
        BY <1>1 DEF Recorded
    <2> QED BY <1>1, <2>1, <2>2 DEF LogsAreTrue, LoggedRightly, RecordedAreLogged
<1>2. CASE UNCHANGED vars
    BY <1>1, <1>2 DEF vars, dicts, locals, env
<1>3. CASE Tick
    BY <1>1, <1>3 DEF Tick, dicts, locals
<1>4. CASE Shutdown \/ Crash
    <2>1. /\ sessions' = {} /\ \A s \in Sids : DOMAIN events'[s] = {}
          /\ UNCHANGED <<op, sid, answer, used>>
        BY <1>4 DEF Shutdown, Crash, ForgetSessions, locals
    <2>2. \A q \in Requests : pc'[q] \in {"lost", pc[q]} /\ pc'[q] # "put_events"
        BY <1>4 DEF Shutdown, Crash, Active
    <2>3. \A q \in Requests : Recorded(q)' => Recorded(q)
        BY <2>1, <2>2 DEF Recorded
    <2>4. Unannounced' = {}  BY <2>2 DEF Unannounced
    <2> QED BY <2>1, <2>3, <2>4 DEF LogsAreTrue, RecordedAreLogged
<1> QED BY <1>2, <1>3, <1>4, ArrivalKeepsLogs, LocalKeepsLogs, CreationKeepsLogs, RecordingKeepsLogs,
        RemovalKeepsLogs DEF Next, Handler

LEMMA TrueLogCorrect == Spec => []TrueLogInv
BY TrueLogInit, TrueLogStep, PTL DEF Spec

\* The log of an open session is true about its invokes, whatever the threads
\* interleave.
THEOREM LogMatchesAnswersHolds == Spec => []LogMatchesAnswers
<1>1. TrueLogInv => LogMatchesAnswers
    <2> SUFFICES ASSUME TrueLogInv, NEW r \in Requests,
                        op[r] = "invoke", sid[r] \in sessions, pc[r] = "done", NEW s \in Sids
                 PROVE  Occurrences(r, s) = (IF answer[r] = "accepted" /\ s = sid[r] THEN 1 ELSE 0)
        BY DEF LogMatchesAnswers
    <2> DEFINE places == {i \in DOMAIN events[s] : events[s][i] = r}
    <2>1. CASE answer[r] = "accepted" /\ s = sid[r]
        <3>1. PICK i \in places : TRUE
            BY <2>1 DEF TrueLogInv, RecordedAreLogged, Recorded
        <3>2. places = {i}
            BY <3>1 DEF TrueLogInv, LogsAreTrue
        <3> QED BY <2>1, <3>2, FS_Singleton DEF Occurrences
    <2>2. CASE ~(answer[r] = "accepted" /\ s = sid[r])
        <3>1. places = {}
            BY <2>2 DEF TrueLogInv, LogsAreTrue, LoggedRightly, Recorded
        <3> QED BY <2>2, <3>1, FS_EmptySet DEF Occurrences
    <2> QED BY <2>1, <2>2
<1> QED BY <1>1, TrueLogCorrect, PTL
=============================================================================
