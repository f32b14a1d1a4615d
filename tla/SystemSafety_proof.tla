------------------------- MODULE SystemSafety_proof -------------------------
(***************************************************************************)
(* Proofs of the safety properties of ReliableSystem. Each part has the    *)
(* invariant its property needs beyond IInv: LeasesApart for journals and  *)
(* heartbeats, ReportsAwaited for reports, DelaysWaited for delays,        *)
(* LeasesRenewed for leases and FetchesCounted for fetches.                *)
(***************************************************************************)
EXTENDS ReliableSystem_proof

(* A lease is taken at most once and held in at most one journal: a grant  *)
(* that is still on the wire has not been taken.                           *)
LeasesApart ==
    /\ taken \subseteq 1..lastLease
    /\ \A a \in WithJournal : journal[a].leaseId \in taken
    /\ \A a, b \in WithJournal : a # b => journal[a].leaseId # journal[b].leaseId
    /\ \A p \in Grants : p.grant.leaseId \notin taken
    /\ \A p, q \in Grants : p # q => p.grant.leaseId # q.grant.leaseId

(* A step adds at most one grant to the wire, by making the claim.         *)
LEMMA GrantFate ==
    ASSUME IInv, [Next]_vars
    PROVE  \/ Grants' \subseteq Grants
           \/ \E p : /\ GrantedNow(p)
                     /\ Grants' = Grants \cup {p}
                     /\ UNCHANGED <<localVars, ghostVars>>
<1>1. CASE TableStep \/ UNCHANGED vars
      BY <1>1 DEF TableStep, vars, agentVars, netVars, Grants
<1>2. CASE \E a \in Agents : AgentStep(a)
      BY <1>2, MessageFate DEF IInv, Grants
<1>3. CASE WireStep
  <2>1. WireFate
        BY <1>3, WireStepFate DEF IInv
  <2>2. ASSUME NEW r \in requests, NEW p \in Reply, Answered(r, p)
        PROVE  \/ Grants' \subseteq Grants
               \/ GrantedNow(p) /\ Grants' = Grants \cup {p}
    <3>1. CASE p.status = 200 /\ r.awaited
      <4>1. GrantedNow(p) /\ replies' = replies \cup {p}
            BY <2>2, <3>1 DEF Answered, Answers
      <4>2. Grants' = Grants \cup {p}
            BY <3>1, <4>1 DEF Grants
      <4>3. QED
            BY <4>1, <4>2
    <3>2. CASE ~(p.status = 200 /\ r.awaited)
      <4>1. replies' = replies \/ (replies' = replies \cup {p} /\ p.status # 200)
            BY <2>2, <3>2 DEF Answered
      <4>2. QED
            BY <4>1 DEF Grants
    <3>3. QED
          BY <3>1, <3>2
  <2>3. ASSUME NEW r, NEW p, Abandoned(r, p) \/ Voided(r, p)
        PROVE  Grants' \subseteq Grants
        BY <2>3 DEF Abandoned, Voided, Grants
  <2>4. QED
        BY <2>1, <2>2, <2>3 DEF WireFate
<1>4. QED
      BY <1>1, <1>2, <1>3, StepCases DEF IInv

(* What a step of the system does to the journal of one agent.             *)
LEMMA WorkFate ==
    ASSUME IInv, [Next]_vars
    PROVE  \/ UNCHANGED <<localVars, taken>>
           \/ \E a \in Agents :
                 /\ AgentStep(a) /\ UNCHANGED storeVars
                 /\ \A b \in Agents \ {a} : journal'[b] = journal[b] /\ pc'[b] = pc[b]
                 /\ \/ /\ journal'[a] = journal[a] \/ Progresses(a) \/ Drops(a)
                       /\ taken' = taken
                    \/ \E p \in Grants : Takes(a, p)
<1>1. TypeOK /\ Shape /\ AgentTypeOK
      BY DEF IInv, TypeOK, AgentTypeOK
<1>2. ASSUME NEW a \in Agents, AgentStep(a)
      PROVE  /\ \A b \in Agents \ {a} : journal'[b] = journal[b] /\ pc'[b] = pc[b]
             /\ \/ /\ journal'[a] = journal[a] \/ Progresses(a) \/ Drops(a)
                   /\ taken' = taken
                \/ \E p \in Grants : Takes(a, p)
      BY <1>1, <1>2, Others, JournalFate
<1>3. QED
      BY <1>1, <1>2, StepCases, WireStepFate
      DEF TableStep, WireFate, vars, agentVars, ghostVars

(* Every step keeps the leases apart.                                      *)
LEMMA LeasesApartStep ==
    ASSUME IInv, LeasesApart, [Next]_vars
    PROVE  LeasesApart'
<1>1. /\ lastLease \in Nat /\ lastLease' \in Nat /\ lastLease <= lastLease'
      /\ TypeOK /\ Shape
      BY TableOKStep, StoreStep, LastLeaseGrows DEF IInv, TypeOK, StoreTypeOK
<1>2. taken \subseteq 1..lastLease'
      BY <1>1 DEF LeasesApart
<1>3. CASE UNCHANGED <<localVars, taken>> /\ Grants' \subseteq Grants
      BY <1>2, <1>3 DEF LeasesApart, localVars, WithJournal
<1>4. ASSUME NEW p, GrantedNow(p), Grants' = Grants \cup {p}, UNCHANGED <<localVars, ghostVars>>
      PROVE  LeasesApart'
  <2>1. p.grant.leaseId \notin taken /\ p.grant.leaseId = lastLease + 1
        BY <1>1, <1>4 DEF GrantedNow, LeasesApart
  <2>2. ASSUME NEW q \in Grants
        PROVE  q.grant.leaseId # p.grant.leaseId
    <3>1. q.grant.leaseId <= lastLease /\ q.grant.leaseId \in LeaseId
          BY <1>1 DEF IInv, Provenance, FromClaim, Shape, Grants, TypeOK, Reply, Grant
    <3>2. QED
          BY <1>1, <2>1, <3>1 DEF LeaseId
  <2>3. UNCHANGED <<journal, taken>>
        BY <1>4 DEF localVars, ghostVars
  <2>4. \A q \in Grants' : q.grant.leaseId \notin taken
        BY <1>4, <2>1 DEF LeasesApart
  <2>5. \A q, s \in Grants' : q # s => q.grant.leaseId # s.grant.leaseId
        BY <1>4, <2>2 DEF LeasesApart
  <2>6. QED
        BY <1>2, <2>3, <2>4, <2>5 DEF LeasesApart, WithJournal
<1>5. ASSUME NEW a \in Agents, AgentStep(a),
             \A b \in Agents \ {a} : journal'[b] = journal[b],
             journal'[a] = journal[a] \/ Progresses(a) \/ Drops(a),
             taken' = taken, Grants' \subseteq Grants
      PROVE  LeasesApart'
  <2>1. \A b \in Agents : journal'[b] # Null =>
            journal[b] # Null /\ journal'[b].leaseId = journal[b].leaseId
        BY <1>5 DEF Progresses, Drops, SameWork
  <2>2. QED
        BY <1>2, <1>5, <2>1 DEF LeasesApart, WithJournal
<1>6. ASSUME NEW a \in Agents,
             \A b \in Agents \ {a} : journal'[b] = journal[b],
             NEW p \in Grants, Takes(a, p)
      PROVE  LeasesApart'
  <2> DEFINE l == p.grant.leaseId
  <2>1. Grants' = Grants \ {p} /\ taken' = taken \cup {l} /\ journal'[a].leaseId = l
        BY <1>6 DEF Takes, SameWork, Grants
  <2>2. l \in 1..lastLease'
        BY <1>1, <1>6 DEF Takes, IInv, Provenance, FromClaim, Grant, LeaseId
  <2>3. \A b \in Agents \ {a} : journal'[b] # Null =>
            /\ journal[b] # Null /\ journal'[b].leaseId = journal[b].leaseId
            /\ journal'[b].leaseId \in taken /\ journal'[b].leaseId # l
        BY <1>6 DEF LeasesApart, WithJournal
  <2>4. taken' \subseteq 1..lastLease'
        BY <1>2, <2>1, <2>2
  <2>5. \A b, c \in WithJournal' : b # c => journal'[b].leaseId # journal'[c].leaseId
        BY <2>1, <2>3 DEF LeasesApart, WithJournal
  <2>6. \A q \in Grants' : q.grant.leaseId \notin taken'
        BY <2>1 DEF LeasesApart
  <2>7. \A b \in WithJournal' : journal'[b].leaseId \in taken'
        BY <2>1, <2>3 DEF WithJournal
  <2>8. \A q, s \in Grants' : q # s => q.grant.leaseId # s.grant.leaseId
        BY <2>1 DEF LeasesApart
  <2>9. QED
        BY <2>4, <2>5, <2>6, <2>7, <2>8 DEF LeasesApart
<1>7. ASSUME NEW a \in Agents, AgentStep(a)
      PROVE  Grants' \subseteq Grants
      BY <1>1, <1>7, MessageFate DEF Grants
<1>8. QED
      BY <1>3, <1>4, <1>5, <1>6, <1>7, GrantFate, WorkFate

(* So they are at the start.                                               *)
LEMMA LeasesApartInit == Init => LeasesApart
BY DEF Init, AgentInit, LeasesApart, WithJournal, Grants

(* No two agents ever hold a journal of the same lease (agent.ts saves one *)
(* per granted claim), and a lease once taken off the wire never comes to  *)
(* an agent again.                                                         *)
THEOREM LeasesStayApart == Spec => []LeasesApart
BY LeasesApartInit, LeasesApartStep, SystemInvariant, PTL DEF Spec

(* A journal never disagrees with the table: its command exists, while its *)
(* lease is the row's the row names this agent and the same type, start    *)
(* and end, and no other journal has that lease (JournalsMatchTable).      *)
THEOREM JournalsAlwaysMatch == Spec => []JournalsMatchTable
<1>1. ASSUME IInv, LeasesApart
      PROVE  JournalsMatchTable
  <2>1. ASSUME NEW a \in WithJournal, commands[journal[a].commandId].leaseId = journal[a].leaseId
        PROVE  commands[journal[a].commandId].scheduledEndAt = journal[a].scheduledEndAt
    <3> DEFINE j == journal[a]
               row == commands[j.commandId]
    <3>1. FromClaim(a, j) /\ j \in AgentJournal
          BY <1>1 DEF IInv, Provenance, TypeOK, WithJournal
    <3>2. j.commandId \in Created /\ row.leaseId # Null
          BY <2>1, <3>1, NullAssumption DEF FromClaim, AgentJournal, Created, LeaseId
    <3>3. RowConsistent(row)
          BY <1>1, <3>2 DEF IInv, TableOK, RowsConsistent
    <3>4. row.scheduledEndAt = ScheduledEnd(row.payload, row.startedAt)
          BY <3>2, <3>3 DEF RowConsistent
    <3>5. QED
          BY <2>1, <3>1, <3>4 DEF FromClaim
  <2>2. QED
        BY <1>1, <2>1 DEF JournalsMatchTable, LeasesApart, IInv, Provenance, FromClaim
<1>2. QED
      BY <1>1, SystemInvariant, LeasesStayApart, PTL

(* The interval of heartbeat-manager.ts always beats for the journal in    *)
(* hand, through recovery, reports and lost leases.                        *)
THEOREM HeartbeatsMatchJournal == Spec => []HeartbeatMatchesJournal
<1>1. IInv => HeartbeatMatchesJournal
      BY DEF IInv, Shape, Position, HeartbeatMatchesJournal, WithJournal
<1>2. QED
      BY <1>1, SystemInvariant, PTL

-----------------------------------------------------------------------------
(* The report r is of the journal its agent is waiting with, and has not   *)
(* been answered.                                                          *)
AwaitsReport(r) ==
    /\ pc[r.agent] = "reporting"
    /\ journal[r.agent] # Null
    /\ r.commandId = journal[r.agent].commandId
    /\ r.leaseId = journal[r.agent].leaseId
    /\ r.result = ResultOf(journal[r.agent])
    /\ AwaitingAnswer(r.agent, "complete") = {}

(* The reply p is the only answer to the report its agent waits with.      *)
AnswersReport(p) ==
    /\ pc[p.request.agent] = "reporting"
    /\ journal[p.request.agent] # Null
    /\ p.request.leaseId = journal[p.request.agent].leaseId
    /\ p.request.result = ResultOf(journal[p.request.agent])
    /\ AwaitingAnswer(p.request.agent, "complete") = {p}

(* Every report somebody waits for, and every answer to one, is of the     *)
(* journal that agent holds.                                               *)
ReportsAwaited ==
    /\ \A r \in requests : r.op = "complete" /\ r.awaited => AwaitsReport(r)
    /\ \A p \in replies : p.request.op = "complete" => AnswersReport(p)

(* What may happen to an agent that has sent its report.                   *)
LEMMA ReportingFate ==
    ASSUME TypeOK, Shape, NEW a \in Agents, AgentStep(a), pc[a] = "reporting"
    PROVE  \/ /\ pc'[a] = "reporting" /\ journal'[a] = journal[a]
              /\ \A p \in replies \ replies' : p.request.op # "complete"
              /\ \A r \in requests' \ requests : r.op # "complete"
           \/ Disconnect(a) /\ pc'[a] # "reporting"
           \/ /\ requests' = requests /\ pc'[a] # "reporting"
              /\ \E p \in AwaitingAnswer(a, "complete") : replies' = replies \ {p}
<1> USE DEF mode, netVars, ghostVars
<1>0. AgentTypeOK /\ Position(a)
      BY DEF TypeOK, AgentTypeOK, Shape
<1>1. CASE Stop(a)
      BY <1>1 DEF Stop
<1>2. CASE Crash(a)
      BY <1>0, <1>2 DEF Crash, GoTo, AgentTypeOK
<1>3. CASE Beat(a, now)
      BY <1>3 DEF Beat, Send
<1>4. CASE \E p \in replies : BeatAnswered(a, p)
      BY <1>4 DEF BeatAnswered, AwaitingAnswer
<1>5. CASE \E p \in replies, deleted \in BOOLEAN : ReportAnswered(a, p, deleted)
      BY <1>0, <1>5 DEF ReportAnswered, GoTo, AgentTypeOK
<1>6. ~(\/ StartFresh(a) \/ StartUnread(a) \/ RecoverSavedResult(a, now) \/ RecoverDelay(a, now)
        \/ LoopEnds(a) \/ Poll(a) \/ Report(a) \/ ExecuteHttpGetJson(a) \/ FetchUrl(a)
        \/ HeadersArrive(a) \/ FetchSettles(a) \/ BodyEnds(a) \/ WaitElapsed(a, now)
        \/ SaveDelayResult(a))
      BY DEF StartFresh, StartUnread, RecoverSavedResult, RecoverDelay, LoopEnds, Poll, Report,
             ExecuteHttpGetJson, FetchUrl, HeadersArrive, FetchSettles, BodyEnds, WaitElapsed,
             SaveDelayResult
<1>7. ~(\/ \E deleted \in BOOLEAN :
             DiscardJournal(a, deleted) \/ LeaseCheckFails(a, deleted) \/ JournalNotSaved(a, deleted)
        \/ \E date \in Int : ExecuteDelay(a, now, date)
        \/ \E p \in replies : ClaimRefused(a, p) \/ ClaimNotSaved(a, p) \/ ClaimGranted(a, p, now))
      BY DEF DiscardJournal, LeaseCheckFails, JournalNotSaved, ExecuteDelay, ClaimRefused,
             ClaimNotSaved, ClaimGranted
<1>8. QED
      BY <1>1, <1>2, <1>3, <1>4, <1>5, <1>6, <1>7 DEF AgentStep

(* An agent waits for one report at a time.                                *)
LEMMA ReportsDiffer ==
    ASSUME TypeOK, ReportsAwaited, NEW r \in requests, NEW q \in requests,
           r.op = "complete", q.op = "complete", r.agent = q.agent, r.awaited, q.awaited
    PROVE  r = q
<1>1. r \in Request /\ q \in Request
      BY DEF TypeOK
<1>2. /\ r.commandId = q.commandId /\ r.leaseId = q.leaseId /\ r.result = q.result
      BY DEF ReportsAwaited, AwaitsReport
<1>3. r.awaited = TRUE /\ q.awaited = TRUE
      BY <1>1 DEF Request
<1>4. QED
      BY <1>1, <1>2, <1>3 DEF Request

(* The wire keeps reports and answers apart,                               *)
LEMMA ReportsOnTheWire ==
    ASSUME TypeOK, ReportsAwaited, WireFate
    PROVE  ReportsAwaited'
<1>1. requests \subseteq Request /\ replies \subseteq Reply
      BY DEF TypeOK
<1>2. pc' = pc /\ journal' = journal
      BY DEF WireFate, localVars
<1>3. ASSUME NEW r \in requests, NEW p \in Reply, p.request = r,
             r.awaited, requests' \subseteq (requests \ {r}) \cup {[r EXCEPT !.awaited = FALSE]},
             replies' = replies \cup {p}
      PROVE  ReportsAwaited'
  <2>1. ASSUME NEW q \in requests', q.op = "complete", q.awaited
        PROVE  AwaitsReport(q)'
    <3>1. q \in requests /\ q # r
          BY <1>1, <1>3, <2>1, Orphaned
    <3>2. AwaitsReport(q)
          BY <2>1, <3>1 DEF ReportsAwaited
    <3>3. ~(p.request.agent = q.agent /\ p.request.op = "complete")
          BY <1>3, <2>1, <3>1, ReportsDiffer
    <3>4. AwaitingAnswer(q.agent, "complete")' = {}
          BY <1>3, <3>2, <3>3 DEF AwaitsReport, AwaitingAnswer
    <3>5. QED
          BY <1>2, <3>2, <3>4 DEF AwaitsReport
  <2>2. ASSUME NEW s \in replies, s.request.op = "complete"
        PROVE  AnswersReport(s)'
    <3>1. AnswersReport(s)
          BY <2>2 DEF ReportsAwaited
    <3>2. ~(r.op = "complete" /\ r.agent = s.request.agent)
          BY <1>3, <2>2 DEF ReportsAwaited, AwaitsReport, AwaitingAnswer
    <3>3. AwaitingAnswer(s.request.agent, "complete")' = {s}
          BY <1>3, <3>1, <3>2 DEF AnswersReport, AwaitingAnswer
    <3>4. QED
          BY <1>2, <3>1, <3>3 DEF AnswersReport
  <2>3. ASSUME r.op = "complete"
        PROVE  AnswersReport(p)'
    <3>1. AwaitsReport(r)
          BY <1>3, <2>3 DEF ReportsAwaited
    <3>2. AwaitingAnswer(r.agent, "complete")' = {p}
          BY <1>3, <2>3, <3>1 DEF AwaitsReport, AwaitingAnswer
    <3>3. QED
          BY <1>2, <1>3, <3>1, <3>2 DEF AwaitsReport, AnswersReport
  <2>4. QED
        BY <1>3, <2>1, <2>2, <2>3 DEF ReportsAwaited
<1>4. ASSUME NEW r \in requests, requests' = requests \ {r}, replies' = replies
      PROVE  ReportsAwaited'
      BY <1>2, <1>4 DEF ReportsAwaited, AwaitsReport, AnswersReport, AwaitingAnswer
<1>5. ASSUME NEW q \in replies, NEW p \in Reply, Voided(q, p)
      PROVE  ReportsAwaited'
  <2>1. p.request = q.request /\ requests' = requests /\ replies' = (replies \ {q}) \cup {p}
        BY <1>5 DEF Voided
  <2>2. ASSUME NEW r \in requests, r.op = "complete", r.awaited
        PROVE  AwaitsReport(r)'
    <3>1. AwaitsReport(r)
          BY <2>2 DEF ReportsAwaited
    <3>2. AwaitingAnswer(r.agent, "complete")' = {}
          BY <2>1, <3>1 DEF AwaitsReport, AwaitingAnswer
    <3>3. QED
          BY <1>2, <3>1, <3>2 DEF AwaitsReport
  <2>3. ASSUME NEW s \in replies', s.request.op = "complete"
        PROVE  AnswersReport(s)'
    <3> DEFINE old == IF s = p THEN q ELSE s
    <3>1. old \in replies /\ old.request = s.request
          BY <2>1, <2>3
    <3>2. AnswersReport(old)
          BY <2>3, <3>1 DEF ReportsAwaited
    <3>3. AwaitingAnswer(s.request.agent, "complete") = {old}
          BY <3>1, <3>2 DEF AnswersReport
    <3>4. AwaitingAnswer(s.request.agent, "complete")' = {s}
      <4>1. ASSUME NEW x \in replies', x.request.agent = s.request.agent, x.request.op = "complete"
            PROVE  x = s
        <5>1. CASE x = p
          <6>1. q \in AwaitingAnswer(s.request.agent, "complete")
                BY <1>5, <2>1, <4>1, <5>1 DEF AwaitingAnswer
          <6>2. old = q
                BY <3>3, <6>1
          <6>3. QED
                BY <2>1, <2>3, <5>1, <6>2
        <5>2. CASE x # p
          <6>1. x \in AwaitingAnswer(s.request.agent, "complete") /\ x # q
                BY <2>1, <4>1, <5>2 DEF AwaitingAnswer
          <6>2. QED
                BY <3>3, <6>1
        <5>3. QED
              BY <5>1, <5>2
      <4>2. QED
            BY <2>3, <4>1 DEF AwaitingAnswer
    <3>5. QED
          BY <1>2, <3>1, <3>2, <3>4 DEF AnswersReport
  <2>4. QED
        BY <2>1, <2>2, <2>3 DEF ReportsAwaited
<1>6. ASSUME NEW r \in requests, NEW p \in Reply, Answered(r, p)
      PROVE  ReportsAwaited'
      BY <1>3, <1>4, <1>6 DEF Answered, Answers
<1>7. ASSUME NEW r \in requests, NEW p \in Reply, Abandoned(r, p)
      PROVE  ReportsAwaited'
      BY <1>3, <1>7 DEF Abandoned
<1>8. QED
      BY <1>5, <1>6, <1>7 DEF WireFate

(* so does every step of an agent,                                         *)
LEMMA ReportsAndAgent ==
    ASSUME IInv, ReportsAwaited, NEW a \in Agents, AgentStep(a)
    PROVE  ReportsAwaited'
<1>1. TypeOK /\ Shape /\ AgentTypeOK /\ requests \subseteq Request /\ replies \subseteq Reply
      BY DEF IInv, TypeOK, AgentTypeOK
<1>2. /\ replies' \subseteq replies
      /\ \A p \in replies \ replies' : p.request.agent = a
      /\ \/ requests' = requests
         \/ \E r \in Request : NewRequest(a, r) /\ requests' = requests \cup {r}
         \/ Disconnect(a)
      BY <1>1, MessageFate
<1>3. \A b \in Agents \ {a} : pc'[b] = pc[b] /\ journal'[b] = journal[b]
      BY <1>1, Others
<1>4. ASSUME NEW r \in requests', r.awaited
      PROVE  r \in requests \/ NewRequest(a, r)
  <2>1. CASE Disconnect(a)
    <3>1. PICK q \in requests : r = IF q.agent = a THEN [q EXCEPT !.awaited = FALSE] ELSE q
          BY <2>1 DEF Disconnect
    <3>2. QED
          BY <1>1, <1>4, <3>1, Orphaned
  <2>2. QED
        BY <1>2, <2>1
<1>5. ASSUME Disconnect(a), NEW r \in requests', r.awaited
      PROVE  r.agent # a
  <2>1. PICK q \in requests : r = IF q.agent = a THEN [q EXCEPT !.awaited = FALSE] ELSE q
        BY <1>5 DEF Disconnect
  <2>2. QED
        BY <1>1, <1>5, <2>1, Orphaned
<1>6. ASSUME NEW r \in requests', r.op = "complete", r.awaited
      PROVE  AwaitsReport(r)'
  <2>1. CASE r \in requests /\ r.agent # a
    <3>1. AwaitsReport(r) /\ r.agent \in Agents
          BY <1>1, <1>6, <2>1 DEF ReportsAwaited, Request
    <3>2. AwaitingAnswer(r.agent, "complete")' = {}
          BY <1>2, <3>1 DEF AwaitsReport, AwaitingAnswer
    <3>3. QED
          BY <1>3, <2>1, <3>1, <3>2 DEF AwaitsReport
  <2>2. CASE r \in requests /\ r.agent = a
    <3>1. AwaitsReport(r)
          BY <1>6, <2>2 DEF ReportsAwaited
    <3>2. ~Disconnect(a)
          BY <1>5, <1>6, <2>2
    <3>3. pc'[a] = "reporting" /\ journal'[a] = journal[a]
          BY <1>1, <2>2, <3>1, <3>2, ReportingFate DEF AwaitsReport
    <3>4. AwaitingAnswer(r.agent, "complete")' = {}
          BY <1>2, <3>1 DEF AwaitsReport, AwaitingAnswer
    <3>5. QED
          BY <2>2, <3>1, <3>3, <3>4 DEF AwaitsReport
  <2>3. CASE NewRequest(a, r)
    <3>1. /\ r.agent = a /\ pc[a] = "saved" /\ pc'[a] = "reporting" /\ replies' = replies
          /\ journal[a] # Null /\ journal' = journal
          /\ r.commandId = journal[a].commandId
          /\ r.leaseId = journal[a].leaseId
          /\ r.result = ResultOf(journal[a])
          BY <1>6, <2>3 DEF NewRequest
    <3>2. AwaitingAnswer(a, "complete") = {}
          BY <3>1 DEF ReportsAwaited, AnswersReport, AwaitingAnswer
    <3>3. QED
          BY <3>1, <3>2 DEF AwaitsReport, AwaitingAnswer
  <2>4. QED
        BY <1>4, <1>6, <2>1, <2>2, <2>3
<1>7. ASSUME NEW p \in replies', p.request.op = "complete"
      PROVE  AnswersReport(p)'
  <2>1. p \in replies /\ AnswersReport(p) /\ p.request.agent \in Agents
        BY <1>1, <1>2, <1>7 DEF ReportsAwaited, Reply, Request
  <2>2. AwaitingAnswer(p.request.agent, "complete")' = {p}
        BY <1>2, <1>7, <2>1 DEF AnswersReport, AwaitingAnswer
  <2>3. CASE p.request.agent # a
        BY <1>3, <2>1, <2>2, <2>3 DEF AnswersReport
  <2>4. CASE p.request.agent = a
    <3>1. ~Disconnect(a)
          BY <1>7, <2>4 DEF Disconnect
    <3>2. ASSUME NEW q \in AwaitingAnswer(a, "complete"), replies' = replies \ {q}
          PROVE  FALSE
          BY <1>7, <2>1, <2>4, <3>2 DEF AnswersReport
    <3>3. pc'[a] = "reporting" /\ journal'[a] = journal[a]
          BY <1>1, <2>1, <2>4, <3>1, <3>2, ReportingFate DEF AnswersReport
    <3>4. QED
          BY <2>1, <2>2, <2>4, <3>3 DEF AnswersReport
  <2>5. QED
        BY <2>3, <2>4
<1>8. QED
      BY <1>6, <1>7 DEF ReportsAwaited

(* and so does every step.                                                 *)
LEMMA ReportsAwaitedStep ==
    ASSUME IInv, ReportsAwaited, [Next]_vars
    PROVE  ReportsAwaited'
<1>1. CASE UNCHANGED agentVars
      BY <1>1 DEF agentVars, localVars, netVars, ReportsAwaited, AwaitsReport, AnswersReport,
                  AwaitingAnswer
<1>2. CASE WireStep
      BY <1>2, WireStepFate, ReportsOnTheWire DEF IInv
<1>3. CASE \E a \in Agents : AgentStep(a)
      BY <1>3, ReportsAndAgent
<1>4. QED
      BY <1>1, <1>2, <1>3, StepCases DEF IInv, TableStep, vars

(* Nothing has been reported at the start.                                 *)
LEMMA ReportsAwaitedInit == Init => ReportsAwaited
BY DEF Init, AgentInit, ReportsAwaited

(* The answer on which an agent deletes its journal (agent.ts,             *)
(* completeCommand) is the answer to the report of that very journal,      *)
(* whatever was lost or given up on before.                                *)
THEOREM ReportsAreAwaited == Spec => []ReportsAwaited
BY ReportsAwaitedInit, ReportsAwaitedStep, SystemInvariant, PTL DEF Spec

(* An agent reports a result only out of a journal that holds it: the save *)
(* is never overtaken by the request (ReportIsSaved).                      *)
THEOREM ReportsAreSaved == Spec => []ReportIsSaved
<1>1. ASSUME IInv, ReportsAwaited
      PROVE  ReportIsSaved
  <2>1. \A r \in requests : r.agent \in Agents
        BY <1>1 DEF IInv, TypeOK, Request
  <2>2. QED
        BY <1>1, <2>1 DEF ReportIsSaved, ReportsAwaited, AwaitsReport, IInv, Shape, Position, WithJournal
<1>2. QED
      BY <1>1, SystemInvariant, ReportsAreAwaited, PTL

(* The report of the journal j settled, and its deletion failed then.      *)
Reported(j) == \E r \in leftOver : r.leaseId = j.leaseId /\ r.result = ResultOf(j)

(* An agent comes back to asking for work with a journal on disk only if   *)
(* it had one before, or could not delete it, or could not read it.        *)
ReturnsWith(a) ==
    pc'[a] \in {"idle", "claiming"} =>
        \/ journal'[a] = Null
        \/ pc[a] \in {"idle", "claiming"} /\ journal'[a] = journal[a]
        \/ Fault("read")
        \/ /\ Fault("delete")
           /\ journal'[a] = journal[a]
           /\ journal[a].stage = "RESULT_SAVED" =>
                 \E r \in leftOver' : r.leaseId = journal[a].leaseId /\ r.result = ResultOf(journal[a])

(* Starting an agent: the only way past a journal is to delete it.         *)
LEMMA StartReturns ==
    ASSUME AgentTypeOK, NEW a \in Agents, AgentStarts(a)
    PROVE  AgentStep(a) /\ UNCHANGED storeVars /\ ReturnsWith(a)
<1>1. AgentStep(a) /\ UNCHANGED storeVars
      BY DEF AgentStarts, StartAgent, AgentStep
<1> SUFFICES ReturnsWith(a)
    BY <1>1
<1>2. CASE StartFresh(a)
      BY <1>2 DEF StartFresh, ReturnsWith
<1>3. CASE RecoverSavedResult(a, now) \/ RecoverDelay(a, now)
      BY <1>3 DEF RecoverSavedResult, RecoverDelay, Resume, GoTo, ReturnsWith, AgentTypeOK
<1>4. CASE DiscardJournal(a, TRUE)
      BY <1>4 DEF DiscardJournal, DeleteJournal, ReturnsWith, AgentTypeOK
<1>5. QED
      BY <1>1, <1>2, <1>3, <1>4 DEF AgentStarts, StartAgent

(* So does the loop: it deletes the journal before it polls again.         *)
LEMMA LoopReturns ==
    ASSUME TypeOK, NEW a \in Agents, AgentRuns(a)
    PROVE  AgentStep(a) /\ UNCHANGED storeVars /\ ReturnsWith(a)
<1> USE DEF ReturnsWith
<1>0. AgentTypeOK
      BY DEF TypeOK, AgentTypeOK
<1>1. PICK skew \in -MaxClockSkewMs..MaxClockSkewMs : LoopStep(a, now, now + skew)
      BY DEF AgentRuns
<1>2. AgentStep(a) /\ UNCHANGED storeVars
  <2>1. /\ now + skew \in Int
        /\ now - MaxClockSkewMs <= now + skew /\ now + skew <= now + MaxClockSkewMs
        BY SkewAssumption DEF TypeOK, StoreTypeOK, Time
  <2>2. QED
        BY <1>1, <2>1 DEF AgentRuns, LoopStep, AgentStep
<1> SUFFICES ReturnsWith(a)
    BY <1>2
<1>3. CASE Poll(a) \/ LoopEnds(a)
      BY <1>0, <1>3 DEF Poll, LoopEnds, GoTo, AgentTypeOK
<1>4. CASE ExecuteDelay(a, now, now + skew) \/ ExecuteHttpGetJson(a) \/ FetchUrl(a) \/ HeadersArrive(a)
      BY <1>0, <1>4 DEF ExecuteDelay, ExecuteHttpGetJson, FetchUrl, HeadersArrive, GoTo, AgentTypeOK
<1>5. CASE FetchSettles(a) \/ WaitElapsed(a, now) \/ SaveDelayResult(a) \/ Report(a)
      BY <1>0, <1>5
      DEF FetchSettles, SaveHttpSnapshot, WaitElapsed, SaveDelayResult, Report, GoTo, AgentTypeOK
<1>6. CASE LeaseCheckFails(a, TRUE)
      BY <1>0, <1>6 DEF LeaseCheckFails, GiveUp, DeleteJournal, AgentTypeOK
<1>7. CASE \E p \in replies : ClaimRefused(a, p)
      BY <1>0, <1>7 DEF ClaimRefused
<1>8. CASE \E p \in replies : ClaimGranted(a, p, now)
      BY <1>0, <1>8 DEF ClaimGranted, GoTo, AgentTypeOK
<1>9. CASE \E p \in replies : ReportAnswered(a, p, TRUE)
      BY <1>0, <1>9 DEF ReportAnswered, DeleteJournal, AgentTypeOK
<1>10. QED
       BY <1>1, <1>2, <1>3, <1>4, <1>5, <1>6, <1>7, <1>8, <1>9 DEF LoopStep

(* A failed deletion leaves what is unfinished, or what was just reported. *)
LEMMA DeletionFails ==
    ASSUME TypeOK, Shape, ReportsAwaited, NEW a \in Agents, DeleteFails(a)
    PROVE  /\ journal'[a] = journal[a]
           /\ journal[a].stage = "RESULT_SAVED" =>
                 \E r \in leftOver' : r.leaseId = journal[a].leaseId /\ r.result = ResultOf(journal[a])
<1>0. AgentTypeOK /\ Position(a)
      BY DEF TypeOK, AgentTypeOK, Shape
<1>1. CASE DiscardJournal(a, FALSE)
      BY <1>1 DEF DiscardJournal, DeleteJournal
<1>2. CASE LeaseCheckFails(a, FALSE) \/ JournalNotSaved(a, FALSE)
      BY <1>0, <1>2
      DEF LeaseCheckFails, JournalNotSaved, GiveUp, DeleteJournal, Position, Working
<1>3. ASSUME NEW p \in replies, ReportAnswered(a, p, FALSE)
      PROVE  /\ journal'[a] = journal[a]
             /\ \E r \in leftOver' : r.leaseId = journal[a].leaseId /\ r.result = ResultOf(journal[a])
  <2>1. /\ p.request \in leftOver' /\ journal' = journal
        /\ p.request.agent = a /\ p.request.op = "complete"
        BY <1>3 DEF ReportAnswered, RecordLeftOver, DeleteJournal, AwaitingAnswer
  <2>2. AnswersReport(p)
        BY <2>1 DEF ReportsAwaited
  <2>3. QED
        BY <2>1, <2>2 DEF AnswersReport
<1>4. QED
      BY <1>1, <1>2, <1>3 DEF DeleteFails

(* And whatever else fails leaves no journal that could be read.           *)
LEMMA FaultReturns ==
    ASSUME TypeOK, Shape, ReportsAwaited, NEW a \in Agents, AgentFaults(a)
    PROVE  AgentStep(a) /\ UNCHANGED storeVars /\ ReturnsWith(a)
<1> USE DEF ReturnsWith
<1>0. AgentTypeOK
      BY DEF TypeOK, AgentTypeOK
<1>1. AgentStep(a) /\ UNCHANGED storeVars
      BY DEF AgentFaults, SaveFails, DeleteFails, AgentStep
<1> SUFFICES ReturnsWith(a)
    BY <1>1
<1>2. CASE DeleteFails(a) /\ Fault("delete")
      BY <1>2, DeletionFails
<1>3. CASE Crash(a) \/ Stop(a)
      BY <1>0, <1>3 DEF Crash, Stop, GoTo, AgentTypeOK
<1>4. CASE JournalNotSaved(a, TRUE)
      BY <1>0, <1>4 DEF JournalNotSaved, GiveUp, DeleteJournal, AgentTypeOK
<1>5. CASE \E p \in replies : ClaimNotSaved(a, p)
      BY <1>5 DEF ClaimNotSaved
<1>6. QED
      BY <1>1, <1>2, <1>3, <1>4, <1>5 DEF AgentFaults, SaveFails

(* The steps of the system, and with what each agent comes back.           *)
LEMMA ReturnCases ==
    ASSUME TypeOK, Shape, ReportsAwaited, [Next]_vars
    PROVE  \/ UNCHANGED <<localVars, ghostVars>>
           \/ \E a \in Agents : AgentStep(a) /\ UNCHANGED storeVars /\ ReturnsWith(a)
<1>0. AgentTypeOK
      BY DEF TypeOK, AgentTypeOK
<1>1. CASE UNCHANGED vars
      BY <1>1 DEF vars, agentVars
<1>2. CASE TimePasses \/ Starts \/ StartFails \/ Stops \/ \E c \in Commands : Submit(c)
      BY <1>2 DEF TimePasses, Starts, StartFails, Stops, Submit, agentVars
<1>3. CASE NetworkFault \/ \E r \in requests : Handle(r) \/ Refused(r)
      BY <1>3 DEF NetworkFault, Refused, Handle, RequestLost, RequestAbandoned, ReplyLost
<1>4. ASSUME NEW a \in Agents, AgentBeats(a) \/ AgentHears(a) \/ TargetEnds(a)
      PROVE  AgentStep(a) /\ UNCHANGED storeVars /\ ReturnsWith(a)
  <2>1. AgentStep(a) /\ UNCHANGED storeVars
        BY <1>4 DEF AgentBeats, AgentHears, TargetEnds, AgentStep
  <2> SUFFICES ReturnsWith(a)
      BY <2>1
  <2>2. CASE AgentBeats(a) \/ AgentHears(a)
        BY <2>2 DEF AgentBeats, AgentHears, Beat, BeatAnswered, ReturnsWith
  <2>3. CASE TargetEnds(a)
        BY <1>0, <2>3 DEF TargetEnds, BodyEnds, SaveHttpSnapshot, GoTo, ReturnsWith, AgentTypeOK
  <2>4. QED
        BY <1>4, <2>1, <2>2, <2>3
<1>5. QED
      BY <1>0, <1>1, <1>2, <1>3, <1>4, StartReturns, LoopReturns, FaultReturns DEF Next

(* What was left over stays on record.                                     *)
LEMMA LeftOverGrows ==
    ASSUME NEW a \in Agents, AgentStep(a)
    PROVE  leftOver \subseteq leftOver'
<1> USE DEF ghostVars
<1>1. CASE StartFresh(a) \/ StartUnread(a) \/ RecoverSavedResult(a, now) \/ RecoverDelay(a, now)
      BY <1>1 DEF StartFresh, StartUnread, RecoverSavedResult, RecoverDelay, Resume
<1>2. CASE \E deleted \in BOOLEAN :
               DiscardJournal(a, deleted) \/ LeaseCheckFails(a, deleted) \/ JournalNotSaved(a, deleted)
      BY <1>2 DEF DiscardJournal, LeaseCheckFails, JournalNotSaved, GiveUp
<1>3. CASE Stop(a) \/ LoopEnds(a) \/ Crash(a) \/ Poll(a) \/ Report(a) \/ Beat(a, now)
      BY <1>3 DEF Stop, LoopEnds, Crash, Poll, Report, Beat
<1>4. CASE \E date \in Int : ExecuteDelay(a, now, date)
      BY <1>4 DEF ExecuteDelay
<1>5. CASE ExecuteHttpGetJson(a) \/ FetchUrl(a) \/ HeadersArrive(a) \/ WaitElapsed(a, now)
           \/ SaveDelayResult(a)
      BY <1>5 DEF ExecuteHttpGetJson, FetchUrl, HeadersArrive, WaitElapsed, SaveDelayResult
<1>6. CASE FetchSettles(a) \/ BodyEnds(a)
      BY <1>6 DEF FetchSettles, BodyEnds, SaveHttpSnapshot
<1>7. CASE \E p \in replies : \/ ClaimRefused(a, p) \/ ClaimNotSaved(a, p) \/ ClaimGranted(a, p, now)
                              \/ BeatAnswered(a, p)
      BY <1>7 DEF ClaimRefused, ClaimNotSaved, ClaimGranted, BeatAnswered
<1>8. CASE \E p \in replies, deleted \in BOOLEAN : ReportAnswered(a, p, deleted)
      BY <1>8 DEF ReportAnswered, RecordLeftOver
<1>9. QED
      BY <1>1, <1>2, <1>3, <1>4, <1>5, <1>6, <1>7, <1>8 DEF AgentStep

(* A saved result an agent asks for work with has been reported, unless a  *)
(* journal could not be read.                                              *)
LeftOversReported ==
    \A a \in WithJournal :
        pc[a] \in {"idle", "claiming"} /\ journal[a].stage = "RESULT_SAVED" =>
            Reported(journal[a]) \/ "read" \in Faulted

(* Every step keeps that.                                                  *)
LEMMA LeftOversReportedStep ==
    ASSUME IInv, ReportsAwaited, LeftOversReported, [Next]_vars
    PROVE  LeftOversReported'
<1>1. TypeOK /\ Shape /\ AgentTypeOK
      BY DEF IInv, TypeOK, AgentTypeOK
<1>2. "read" \in Faulted => "read" \in Faulted'
      BY <1>1, FaultsGrow DEF Faulted, FaultKinds, TypeOK
<1>3. CASE UNCHANGED <<localVars, ghostVars>>
      BY <1>2, <1>3 DEF LeftOversReported, Reported, WithJournal, localVars, ghostVars
<1>4. ASSUME NEW a \in Agents, AgentStep(a), ReturnsWith(a), NEW b \in Agents,
             journal'[b] # Null, pc'[b] \in {"idle", "claiming"},
             journal'[b].stage = "RESULT_SAVED", "read" \notin Faulted'
      PROVE  \E r \in leftOver' : r.leaseId = journal'[b].leaseId /\ r.result = ResultOf(journal'[b])
  <2>1. ~Fault("read")
        BY <1>1, <1>4 DEF Fault, Faulted, FaultKinds, TypeOK
  <2>2. CASE /\ pc[b] \in {"idle", "claiming"}
             /\ journal'[b] = journal[b]
    <3>1. Reported(journal[b])
          BY <1>2, <1>4, <2>2 DEF LeftOversReported, WithJournal
    <3>2. QED
          BY <1>4, <2>2, <3>1, LeftOverGrows DEF Reported
  <2>3. CASE b = a
        BY <1>4, <2>1, <2>2, <2>3 DEF ReturnsWith
  <2>4. CASE b # a
        BY <1>1, <1>4, <2>2, <2>4, Others
  <2>5. QED
        BY <2>3, <2>4
<1>5. QED
      BY <1>1, <1>3, <1>4, ReturnCases DEF LeftOversReported, Reported, WithJournal

(* A saved result leaves the journal only with the answer to the report of *)
(* exactly its lease in hand, or when that report was settled before and   *)
(* the deletion failed: no crash, stop, recovery or later claim drops or   *)
(* replaces it unreported, unless a journal could not be read at a start   *)
(* (SavedResultKept).                                                      *)
THEOREM SavedResultsKept == Spec => SavedResultKept
<1>1. Init => LeftOversReported
      BY DEF Init, AgentInit, LeftOversReported, WithJournal
<1>2. IInv /\ ReportsAwaited /\ LeftOversReported /\ [Next]_vars => LeftOversReported'
      BY LeftOversReportedStep
<1>3. ASSUME IInv, ReportsAwaited, LeftOversReported, [Next]_vars,
             NEW a \in WithJournal, journal[a].stage = "RESULT_SAVED", journal'[a] # journal[a]
      PROVE  \/ /\ journal'[a] = Null
                /\ \E p \in AwaitingAnswer(a, "complete") :
                      p.request.leaseId = journal[a].leaseId
             \/ \E r \in leftOver :
                   r.leaseId = journal[a].leaseId /\ r.result = ResultOf(journal[a])
             \/ "read" \in Faulted
  <2>1. a \in Agents
        BY <1>3 DEF WithJournal
  <2>2. ASSUME Drops(a)
        PROVE  /\ journal'[a] = Null
               /\ \E p \in AwaitingAnswer(a, "complete") :
                     p.request.leaseId = journal[a].leaseId
    <3>1. PICK p \in AwaitingAnswer(a, "complete") : TRUE
          BY <1>3, <2>2 DEF Drops
    <3>2. p.request.leaseId = journal[a].leaseId
          BY <1>3, <3>1 DEF ReportsAwaited, AnswersReport, AwaitingAnswer
    <3>3. QED
          BY <2>2, <3>1, <3>2 DEF Drops
  <2>3. ASSUME NEW p \in Grants, Takes(a, p)
        PROVE  Reported(journal[a]) \/ "read" \in Faulted
        BY <1>3, <2>3 DEF Takes, LeftOversReported
  <2>4. Drops(a) \/ \E p \in Grants : Takes(a, p)
        BY <1>3, <2>1, WorkFate DEF localVars, Progresses
  <2>5. QED
        BY <2>2, <2>3, <2>4 DEF Reported
<1>4. IInv /\ ReportsAwaited /\ LeftOversReported /\ [Next]_vars =>
          [\A a \in WithJournal :
              journal[a].stage = "RESULT_SAVED" /\ journal'[a] # journal[a] =>
                  \/ /\ journal'[a] = Null
                     /\ \E p \in AwaitingAnswer(a, "complete") :
                           p.request.leaseId = journal[a].leaseId
                  \/ \E r \in leftOver :
                        r.leaseId = journal[a].leaseId /\ r.result = ResultOf(journal[a])
                  \/ "read" \in Faulted]_vars
      BY <1>3
<1>5. QED
      BY <1>1, <1>2, <1>4, SystemInvariant, ReportsAreAwaited, PTL DEF Spec, SavedResultKept

-----------------------------------------------------------------------------
(* A row becomes COMPLETED only by a report under its current lease.       *)
LEMMA Completion ==
    ASSUME IInv, [Next]_vars, NEW c \in Commands,
           commands'[c] # Null, commands'[c].status = "COMPLETED"
    PROVE  \/ commands'[c] = commands[c]
           \/ \E r \in requests :
                 /\ r.op = "complete" /\ r.commandId = c
                 /\ IsCurrentLease(c, r.agent, r.leaseId)
                 /\ commands'[c] = Finished(commands[c], "COMPLETED", r.result)
<1>0. StoreTypeOK /\ TypeOK /\ (commands[c] # Null => commands[c] \in Row)
      BY DEF IInv, TypeOK, StoreTypeOK
<1>1. CASE UNCHANGED storeVars
      BY <1>1 DEF storeVars
<1>2. CASE TableStep
  <2>1. ASSUME NEW listening \in BOOLEAN, ServerStart(listening)
        PROVE  commands'[c] = commands[c]
    <3>1. c \in ExpiredLeases => commands[c] \in Row
          BY <1>0 DEF ExpiredLeases, InStatus, Created
    <3>2. c \in ExpiredLeases => commands'[c].status = "PENDING"
          BY <2>1, <3>1 DEF ServerStart, Requeued, Row
    <3>3. QED
          BY <2>1, <3>2 DEF ServerStart
  <2>2. ASSUME NEW d \in Commands, NEW payload \in CommandPayload, CreateCommand(d, payload)
        PROVE  commands'[c] = commands[c]
    <3>1. c = d => commands'[c].status = "PENDING"
          BY <1>0, <2>2 DEF CreateCommand, StoreTypeOK
    <3>2. QED
          BY <1>0, <2>2, <3>1 DEF CreateCommand, StoreTypeOK
  <2>3. QED
        BY <1>2, <2>1, <2>2 DEF TableStep, Tick, ServerStop
<1>3. ASSUME NEW r \in requests, NEW d \in Commands, ClaimCommand(d, r.agent, MaxLeaseMs)
      PROVE  commands'[c] = commands[c]
  <2>1. commands[d] \in Row
        BY <1>0, <1>3 DEF ClaimCommand, OldestPending, InStatus, Created, StoreTypeOK
  <2>2. c = d => commands'[c].status = "RUNNING"
        BY <1>0, <1>3, <2>1 DEF ClaimCommand, Claimed, StoreTypeOK, Row
  <2>3. QED
        BY <1>0, <1>3, <2>2 DEF ClaimCommand, StoreTypeOK
<1>4. ASSUME NEW r \in requests,
             Heartbeat(r.commandId, r.agent, r.leaseId, HeartbeatExtendMs)
      PROVE  commands'[c] = commands[c]
  <2>1. c = r.commandId => commands'[c].status = "RUNNING"
        BY <1>0, <1>4 DEF Heartbeat, IsCurrentLease, InStatus, Created, StoreTypeOK, Row
  <2>2. QED
        BY <1>0, <1>4, <2>1 DEF Heartbeat, StoreTypeOK
<1>5. ASSUME NEW r \in requests, r.op = "complete",
             CompleteCommand(r.commandId, r.agent, r.leaseId, r.result)
      PROVE  \/ commands'[c] = commands[c]
             \/ /\ r.op = "complete" /\ r.commandId = c
                /\ IsCurrentLease(c, r.agent, r.leaseId)
                /\ commands'[c] = Finished(commands[c], "COMPLETED", r.result)
      BY <1>0, <1>5 DEF CompleteCommand, StoreTypeOK
<1>6. ASSUME NEW r \in requests, Handle(r)
      PROVE  \/ commands'[c] = commands[c]
             \/ /\ r.op = "complete" /\ r.commandId = c
                /\ IsCurrentLease(c, r.agent, r.leaseId)
                /\ commands'[c] = Finished(commands[c], "COMPLETED", r.result)
      BY <1>1, <1>3, <1>4, <1>5, <1>6
      DEF Handle, HandleClaim, HandleHeartbeat, HandleComplete, LeaseConflict, storeVars
<1>7. QED
      BY <1>0, <1>1, <1>2, <1>6, StepCases DEF WireStep, vars

(* A COMPLETED row holds the result of its own payload, found out under    *)
(* the lease the row carries: no late or repeated report of another claim  *)
(* is ever stored (ResultMatchesLease).                                    *)
THEOREM ResultsMatchLeases == Spec => []ResultMatchesLease
<1>1. Init => ResultMatchesLease
      BY DEF Init, StoreInit, ResultMatchesLease, InStatus, Created
<1>2. ASSUME IInv, ResultMatchesLease, [Next]_vars
      PROVE  ResultMatchesLease'
  <2>1. ASSUME NEW c \in Commands, commands'[c] # Null, commands'[c].status = "COMPLETED"
        PROVE  commands'[c].result = Outcome(commands'[c].payload, commands'[c].leaseId)
    <3>1. CASE commands'[c] = commands[c]
          BY <1>2, <2>1, <3>1 DEF ResultMatchesLease, InStatus, Created, Outcome
    <3>2. ASSUME NEW r \in requests, r.op = "complete", r.commandId = c,
                 IsCurrentLease(c, r.agent, r.leaseId),
                 commands'[c] = Finished(commands[c], "COMPLETED", r.result)
          PROVE  commands'[c].result = Outcome(commands'[c].payload, commands'[c].leaseId)
      <4>1. commands[c] \in Row /\ commands[c].leaseId = r.leaseId
            BY <1>2, <3>2 DEF IInv, TypeOK, StoreTypeOK, IsCurrentLease, InStatus, Created
      <4>2. /\ commands'[c].result = r.result
            /\ commands'[c].payload = commands[c].payload
            /\ commands'[c].leaseId = r.leaseId
            BY <3>2, <4>1 DEF Finished, Row
      <4>3. r.result = Outcome(commands[c].payload, r.leaseId)
            BY <1>2, <3>2 DEF IInv, Provenance, ReportFromClaim
      <4>4. QED
            BY <4>2, <4>3
    <3>3. QED
          BY <1>2, <2>1, <3>1, <3>2, Completion
  <2>2. QED
        BY <2>1 DEF ResultMatchesLease, InStatus, Created, Outcome
<1>3. QED
      BY <1>1, <1>2, SystemInvariant, PTL DEF Spec

-----------------------------------------------------------------------------
(* The delay executor looks at the clock and waits for the rest, or finds  *)
(* that nothing is left.                                                   *)
Waits(a) ==
    \E date \in Int :
        /\ now - MaxClockSkewMs <= date /\ date <= now + MaxClockSkewMs
        /\ journal[a] # Null /\ journal[a].type = "DELAY"
        /\ SameWork(journal'[a], journal[a]) /\ journal'[a].stage # "RESULT_SAVED"
        /\ \/ pc'[a] = "elapsed" /\ journal[a].scheduledEndAt - date <= 0
           \/ /\ pc'[a] = "waiting"
              /\ wakeAt'[a] = now + TimeoutDelay(journal[a].scheduledEndAt - date)

(* The wait goes on, is over, or was left by the end of the process.       *)
Resumes(a) ==
    /\ journal'[a] = journal[a]
    /\ \/ pc[a] = "waiting" /\ pc'[a] = "elapsed" /\ wakeAt[a] <= now
       \/ pc'[a] = pc[a] /\ wakeAt'[a] = wakeAt[a]
       \/ pc'[a] \notin {"waiting", "elapsed"}

(* What a step of an agent does to the DELAY it works on.                  *)
LEMMA DelayFate ==
    ASSUME TypeOK, Shape, NEW a \in Agents, AgentStep(a),
           journal'[a] # Null, journal'[a].type = "DELAY"
    PROVE  \/ Waits(a)
           \/ Resumes(a)
           \/ pc[a] = "elapsed" /\ pc'[a] = "saved" /\ journal[a] # Null /\ SameWork(journal'[a], journal[a])
           \/ pc'[a] \notin {"waiting", "elapsed"} /\ journal'[a].stage # "RESULT_SAVED"
<1> USE DEF mode, netVars, ghostVars
<1>0. AgentTypeOK /\ Position(a)
      BY DEF TypeOK, AgentTypeOK, Shape
<1>1. CASE StartFresh(a) \/ StartUnread(a) \/ RecoverSavedResult(a, now) \/ RecoverDelay(a, now)
      BY <1>0, <1>1 DEF StartFresh, StartUnread, RecoverSavedResult, RecoverDelay, Resume, GoTo,
                        AgentTypeOK, Resumes
<1>2. CASE \E deleted \in BOOLEAN : DiscardJournal(a, deleted)
      BY <1>0, <1>2 DEF DiscardJournal, DeleteJournal, GoTo, AgentTypeOK, Resumes
<1>3. CASE \E deleted \in BOOLEAN : LeaseCheckFails(a, deleted)
      BY <1>0, <1>3 DEF LeaseCheckFails, GiveUp, DeleteJournal, GoTo, AgentTypeOK, Resumes
<1>4. CASE \E deleted \in BOOLEAN : JournalNotSaved(a, deleted)
      BY <1>0, <1>4 DEF JournalNotSaved, GiveUp, DeleteJournal, GoTo, AgentTypeOK, Resumes
<1>5. CASE \/ Stop(a) \/ LoopEnds(a) \/ Crash(a) \/ Poll(a) \/ Report(a) \/ Beat(a, now)
           \/ FetchUrl(a) \/ HeadersArrive(a) \/ WaitElapsed(a, now)
      BY <1>0, <1>5 DEF Stop, LoopEnds, Crash, Poll, Report, Beat, FetchUrl, HeadersArrive,
                        WaitElapsed, GoTo, AgentTypeOK, Resumes
<1>6. ASSUME NEW date \in Int, ExecuteDelay(a, now, date),
             now - MaxClockSkewMs <= date, date <= now + MaxClockSkewMs
      PROVE  Waits(a)
  <2>1. /\ SameWork(journal'[a], journal[a]) /\ journal'[a].stage = "IN_PROGRESS"
        /\ journal[a] # Null /\ journal[a].type = "DELAY"
        BY <1>0, <1>6, StageStep DEF ExecuteDelay, HasJournal, JournalStage
  <2>2. \/ pc'[a] = "elapsed" /\ journal[a].scheduledEndAt - date <= 0
        \/ /\ pc'[a] = "waiting"
           /\ wakeAt'[a] = now + TimeoutDelay(journal[a].scheduledEndAt - date)
        BY <1>0, <1>6 DEF ExecuteDelay, GoTo, AgentTypeOK
  <2>3. QED
        BY <1>6, <2>1, <2>2 DEF Waits
<1>7. CASE ExecuteHttpGetJson(a)
  <2>1. journal'[a].stage = "IN_PROGRESS" /\ pc'[a] = "executing"
        BY <1>0, <1>7, StageStep DEF ExecuteHttpGetJson, HasJournal, JournalStage, GoTo, AgentTypeOK
  <2>2. QED
        BY <2>1
<1>8. CASE SaveDelayResult(a)
  <2>1. /\ SameWork(journal'[a], journal[a]) /\ journal[a] # Null
        /\ pc[a] = "elapsed" /\ pc'[a] = "saved"
        BY <1>0, <1>8, StageStep DEF SaveDelayResult, JournalStage, Position, Working, GoTo, AgentTypeOK
  <2>2. QED
        BY <2>1
<1>9. ~(FetchSettles(a) \/ BodyEnds(a))
  <2>1. SUFFICES ASSUME FetchSettles(a) \/ BodyEnds(a)
                 PROVE  FALSE
        OBVIOUS
  <2>2. SaveHttpSnapshot(a) /\ journal[a] # Null /\ journal[a].type = "HTTP_GET_JSON"
        BY <1>0, <2>1 DEF FetchSettles, BodyEnds, Position, Working
  <2>3. QED
        BY <1>0, <2>2, SnapshotStep DEF SameWork
<1>10. CASE \E p \in replies : ClaimRefused(a, p) \/ ClaimNotSaved(a, p) \/ BeatAnswered(a, p)
       BY <1>0, <1>10 DEF ClaimRefused, ClaimNotSaved, BeatAnswered, GoTo, AgentTypeOK, Resumes
<1>11. ASSUME NEW p \in replies, ClaimGranted(a, p, now)
       PROVE  pc'[a] \notin {"waiting", "elapsed"} /\ journal'[a].stage # "RESULT_SAVED"
  <2>1. journal'[a].stage = "CLAIMED"
        BY <1>11, GrantStep DEF Takes
  <2>2. QED
        BY <1>0, <1>11, <2>1 DEF ClaimGranted, GoTo, AgentTypeOK
<1>12. CASE \E p \in replies, deleted \in BOOLEAN : ReportAnswered(a, p, deleted)
       BY <1>0, <1>12 DEF ReportAnswered, DeleteJournal, GoTo, AgentTypeOK, Resumes
<1>13. QED
       BY <1>1, <1>2, <1>3, <1>4, <1>5, <1>6, <1>7, <1>8, <1>9, <1>10, <1>11, <1>12 DEF AgentStep

(* A DELAY whose rest setTimeout can hold, whatever the skew.              *)
Short(c) ==
    /\ commands[c].payload.type = "DELAY"
    /\ commands[c].payload.ms + MaxClockSkewMs <= MaxTimeoutMs

(* An agent that has finished waiting is past the scheduled end, but for   *)
(* the skew of its clock.                                                  *)
Waited(a) ==
    /\ pc[a] = "waiting" => journal[a].scheduledEndAt <= wakeAt[a] + MaxClockSkewMs
    /\ pc[a] = "elapsed" \/ journal[a].stage = "RESULT_SAVED" =>
          journal[a].scheduledEndAt <= now + MaxClockSkewMs

(* So is a report that the row would still accept.                         *)
ReportInTime(r) ==
    Short(r.commandId) /\ commands[r.commandId].leaseId = r.leaseId =>
        commands[r.commandId].scheduledEndAt <= now + MaxClockSkewMs

(* The inductive invariant behind DelayNotEarly: it follows the scheduled  *)
(* end from the wait into the journal, the report and the row.             *)
DelaysWaited ==
    /\ \A a \in WithJournal : Short(journal[a].commandId) => Waited(a)
    /\ \A r \in requests : r.op = "complete" => ReportInTime(r)
    /\ DelayNotEarly

(* Every step keeps the waits long enough.                                 *)
LEMMA WaitingStep ==
    ASSUME IInv, DelaysWaited, [Next]_vars,
           NEW a \in Agents, journal'[a] # Null, Short(journal[a].commandId)'
    PROVE  Waited(a)'
<1> DEFINE j == journal[a]
           k == journal'[a]
<1>1. /\ TypeOK /\ Shape /\ StoreTypeOK /\ TypeOK' /\ StoreTypeOK' /\ AgentTypeOK
      /\ [StoreNext]_storeVars /\ Position(a)
      BY TypeOKStep, StoreStep, TableOKStep DEF IInv, TypeOK, AgentTypeOK, Shape
<1>2. now \in Int /\ now' \in Int /\ now <= now' /\ MaxClockSkewMs \in Nat
      BY <1>1, ClockGrows, SkewAssumption DEF StoreTypeOK, Time
<1>3. FromClaim(a, journal[a])' /\ k \in AgentJournal
      BY <1>1, JournalsStep DEF TypeOK
<1>4. k.type = "DELAY"
      BY <1>3 DEF Short, FromClaim
<1>5. ASSUME j # Null, SameWork(k, j)
      PROVE  /\ Waited(a) /\ FromClaim(a, j) /\ Short(j.commandId)
             /\ j \in AgentJournal /\ j.type = "DELAY"
             /\ j.scheduledEndAt \in Int /\ k.scheduledEndAt = j.scheduledEndAt
  <2>1. FromClaim(a, j) /\ j \in AgentJournal /\ JournalComplete(j)
        BY <1>1, <1>5 DEF IInv, Provenance, WithJournal, Shape, TypeOK
  <2>2. j.commandId \in Created
        BY <2>1 DEF FromClaim, AgentJournal, Created
  <2>3. Short(j.commandId)
        BY <1>1, <1>5, <2>2, CreatedStays DEF Short, SameWork
  <2>4. j.type = "DELAY" /\ j.scheduledEndAt \in Int /\ k.scheduledEndAt = j.scheduledEndAt
        BY <1>4, <1>5, <2>1 DEF SameWork, JournalComplete, AgentJournal, Time
  <2>5. QED
        BY <1>5, <2>1, <2>3, <2>4 DEF DelaysWaited, WithJournal
<1>6. j # Null => SameWork(j, j)
      BY DEF SameWork
<1>7. CASE UNCHANGED localVars
  <2>1. k = j /\ pc' = pc /\ wakeAt' = wakeAt
        BY <1>7 DEF localVars
  <2>2. QED
        BY <1>2, <1>5, <1>6, <2>1 DEF Waited
<1>8. ASSUME AgentStep(a), now' = now, pc'[a] = "waiting" => wakeAt'[a] \in Int
      PROVE  Waited(a)'
  <2>1. CASE Waits(a)
    <3>1. PICK date \in Int :
            /\ now - MaxClockSkewMs <= date /\ date <= now + MaxClockSkewMs
            /\ j # Null /\ SameWork(k, j) /\ k.stage # "RESULT_SAVED"
            /\ \/ pc'[a] = "elapsed" /\ j.scheduledEndAt - date <= 0
               \/ /\ pc'[a] = "waiting"
                  /\ wakeAt'[a] = now + TimeoutDelay(j.scheduledEndAt - date)
          BY <2>1 DEF Waits
    <3>2. /\ FromClaim(a, j) /\ Short(j.commandId) /\ j \in AgentJournal
          /\ j.scheduledEndAt \in Int /\ k.scheduledEndAt = j.scheduledEndAt
          BY <1>5, <3>1
    <3>3. j.scheduledEndAt - date <= MaxTimeoutMs
      <4>1. /\ commands[j.commandId].payload \in CommandPayload
            /\ j.startedAt \in Int /\ j.startedAt <= now
            BY <1>1, <3>2 DEF FromClaim, StoreTypeOK, AgentJournal, Row, Time
      <4>2. /\ commands[j.commandId].payload.ms \in Int
            /\ j.scheduledEndAt = j.startedAt + commands[j.commandId].payload.ms
            BY <3>2, <4>1, ScheduledEndOfDelay DEF Short, FromClaim
      <4>3. commands[j.commandId].payload.ms + MaxClockSkewMs <= MaxTimeoutMs
            BY <3>2 DEF Short
      <4>4. MaxTimeoutMs \in Int
            BY TimeoutAssumption
      <4>5. QED
            BY <1>2, <3>1, <3>2, <4>1, <4>2, <4>3, <4>4
    <3>4. CASE pc'[a] = "waiting"
      <4>1. wakeAt'[a] = now + (j.scheduledEndAt - date)
            BY <3>1, <3>2, <3>3, <3>4, TimeoutAssumption DEF TimeoutDelay
      <4>2. k.scheduledEndAt <= wakeAt'[a] + MaxClockSkewMs
            BY <1>2, <3>1, <3>2, <4>1
      <4>3. QED
            BY <3>1, <3>4, <4>2 DEF Waited
    <3>5. CASE pc'[a] = "elapsed"
      <4>1. k.scheduledEndAt <= now' + MaxClockSkewMs
            BY <1>2, <1>8, <3>1, <3>2, <3>5
      <4>2. QED
            BY <3>1, <3>5, <4>1 DEF Waited
    <3>6. QED
          BY <3>1, <3>4, <3>5
  <2>2. CASE Resumes(a)
    <3>1. k = j /\ j # Null /\ Waited(a) /\ j.scheduledEndAt \in Int
          BY <1>5, <1>6, <2>2 DEF Resumes
    <3>2. pc[a] = "waiting" => wakeAt[a] \in Int
          BY <1>1 DEF Position, TypeOK, Time
    <3>3. CASE pc[a] = "waiting" /\ pc'[a] = "elapsed" /\ wakeAt[a] <= now
          BY <1>2, <1>8, <3>1, <3>2, <3>3 DEF Waited
    <3>4. CASE pc'[a] = pc[a] /\ wakeAt'[a] = wakeAt[a]
          BY <1>8, <3>1, <3>4 DEF Waited
    <3>5. CASE pc'[a] \notin {"waiting", "elapsed"}
          BY <1>8, <3>1, <3>5 DEF Waited
    <3>6. QED
          BY <2>2, <3>3, <3>4, <3>5 DEF Resumes
  <2>3. CASE pc[a] = "elapsed" /\ pc'[a] = "saved" /\ j # Null /\ SameWork(k, j)
        BY <1>5, <1>8, <2>3 DEF Waited
  <2>4. CASE pc'[a] \notin {"waiting", "elapsed"} /\ k.stage # "RESULT_SAVED"
        BY <2>4 DEF Waited
  <2>5. QED
        BY <1>1, <1>4, <1>8, <2>1, <2>2, <2>3, <2>4, DelayFate
<1>9. pc'[a] = "waiting" => wakeAt'[a] \in Int
      BY <1>1, ShapeStep DEF Shape, Position, TypeOK, Time
<1>10. ASSUME NEW b \in Agents, b # a, AgentStep(b)
       PROVE  Waited(a)'
  <2>1. k = j /\ pc'[a] = pc[a] /\ wakeAt'[a] = wakeAt[a]
        BY <1>1, <1>10, Others
  <2>2. QED
        BY <1>2, <1>5, <1>6, <2>1 DEF Waited
<1>11. QED
       BY <1>1, <1>7, <1>8, <1>9, <1>10, StepCases, WireStepFate
       DEF TableStep, WireFate, vars, agentVars, storeVars

(* A row that keeps its lease keeps its schedule.                          *)
LEMMA ScheduleStays ==
    ASSUME IInv, [Next]_vars, NEW c \in Created, NEW l \in LeaseId,
           commands'[c].leaseId = l, l <= lastLease
    PROVE  /\ commands[c].leaseId = l
           /\ commands'[c].payload = commands[c].payload
           /\ commands'[c].startedAt = commands[c].startedAt
           /\ commands'[c].agentId = commands[c].agentId
           /\ commands'[c].scheduledEndAt = commands[c].scheduledEndAt
           /\ commands[c].scheduledEndAt = ScheduledEnd(commands[c].payload, commands[c].startedAt)
<1>1. /\ StoreTypeOK /\ StoreTypeOK' /\ RowsConsistent /\ RowsConsistent'
      /\ [StoreNext]_storeVars /\ lastLease \in Nat
      BY TableOKStep, StoreStep DEF IInv, TypeOK, TableOK, StoreTypeOK
<1>2. l # Null /\ l \in Nat /\ c \in Commands /\ commands[c] # Null
      BY NullAssumption DEF LeaseId, Created
<1>3. commands'[c] # Null /\ commands'[c].payload = commands[c].payload
      BY <1>1, CreatedStays
<1>4. commands[c].leaseId = l
      BY <1>1, <1>2, <1>3, LeaseFate
<1>5. /\ commands'[c].startedAt = commands[c].startedAt
      /\ commands'[c].agentId = commands[c].agentId
      BY <1>1, <1>2, <1>4, HolderStays
<1>6. /\ commands[c].scheduledEndAt = ScheduledEnd(commands[c].payload, commands[c].startedAt)
      BY <1>1, <1>2, <1>4 DEF RowsConsistent, RowConsistent, Created
<1>7. /\ commands'[c].scheduledEndAt = ScheduledEnd(commands'[c].payload, commands'[c].startedAt)
      BY <1>1, <1>2, <1>3, <1>4 DEF RowsConsistent, RowConsistent, Created
<1>8. QED
      BY <1>3, <1>4, <1>5, <1>6, <1>7

(* Every step keeps the reports in time,                                   *)
LEMMA ReportInTimeStep ==
    ASSUME IInv, DelaysWaited, [Next]_vars, NEW r \in requests', r.op = "complete"
    PROVE  ReportInTime(r)'
<1>1. SUFFICES ASSUME Short(r.commandId)', commands'[r.commandId].leaseId = r.leaseId
               PROVE  commands'[r.commandId].scheduledEndAt <= now' + MaxClockSkewMs
      BY DEF ReportInTime
<1>2. /\ TypeOK /\ Shape /\ StoreTypeOK /\ StoreTypeOK' /\ [StoreNext]_storeVars
      /\ now \in Int /\ now' \in Int /\ now <= now' /\ MaxClockSkewMs \in Nat
      BY TableOKStep, StoreStep, ClockGrows, SkewAssumption DEF IInv, TypeOK, StoreTypeOK, Time
<1>3. ASSUME NEW q \in requests, q.op = "complete", SameRequest(r, q)
      PROVE  commands'[r.commandId].scheduledEndAt <= now' + MaxClockSkewMs
  <2> DEFINE c == q.commandId
  <2>1. /\ c \in Created /\ q.leaseId \in LeaseId /\ q.leaseId <= lastLease
        /\ c = r.commandId /\ q.leaseId = r.leaseId /\ ReportInTime(q)
        BY <1>2, <1>3 DEF IInv, Provenance, ReportFromClaim, SameRequest, DelaysWaited, LeaseId, StoreTypeOK
  <2>2. /\ commands[c].leaseId = q.leaseId /\ commands'[c].payload = commands[c].payload
        /\ commands'[c].startedAt = commands[c].startedAt
        /\ commands'[c].scheduledEndAt = commands[c].scheduledEndAt
        /\ commands[c].scheduledEndAt = ScheduledEnd(commands[c].payload, commands[c].startedAt)
        BY <1>1, <2>1, ScheduleStays
  <2>3. Short(c)
        BY <1>1, <2>1, <2>2 DEF Short
  <2>4. commands[c].scheduledEndAt \in Int
    <3>1. commands[c] \in Row /\ commands[c].leaseId # Null
          BY <1>2, <2>1, <2>2, NullAssumption DEF StoreTypeOK, Created, LeaseId
    <3>2. commands[c].startedAt # Null
          BY <2>1, <3>1 DEF IInv, TableOK, RowsConsistent, RowConsistent
    <3>3. commands[c].payload \in CommandPayload /\ commands[c].startedAt \in Int
          BY <3>1, <3>2 DEF Row, Time
    <3>4. QED
          BY <2>2, <2>3, <3>3, ScheduledEndOfDelay DEF Short
  <2>5. commands[c].scheduledEndAt <= now + MaxClockSkewMs
        BY <2>1, <2>2, <2>3 DEF ReportInTime
  <2>6. QED
        BY <1>2, <2>1, <2>2, <2>4, <2>5
<1>4. ASSUME NEW a \in Agents, NewRequest(a, r), UNCHANGED storeVars
      PROVE  commands'[r.commandId].scheduledEndAt <= now' + MaxClockSkewMs
  <2>1. /\ pc[a] = "saved" /\ journal[a] # Null
        /\ r.commandId = journal[a].commandId /\ r.leaseId = journal[a].leaseId
        BY <1>4 DEF NewRequest
  <2>2. /\ FromClaim(a, journal[a]) /\ journal[a] \in AgentJournal
        /\ journal[a].stage = "RESULT_SAVED"
        BY <1>2, <2>1 DEF IInv, Provenance, WithJournal, Shape, Position, TypeOK
  <2>3. commands' = commands /\ now' = now
        BY <1>4 DEF storeVars
  <2>4. Short(r.commandId)
        BY <1>1, <2>3 DEF Short
  <2>5. journal[a].scheduledEndAt <= now + MaxClockSkewMs
        BY <2>1, <2>2, <2>4 DEF DelaysWaited, WithJournal, Waited
  <2>6. commands[r.commandId].startedAt = journal[a].startedAt
        BY <1>1, <2>1, <2>2, <2>3 DEF FromClaim
  <2>7. r.commandId \in Created /\ journal[a].leaseId \in LeaseId /\ journal[a].leaseId <= lastLease
        BY <2>1, <2>2 DEF FromClaim, AgentJournal, Created
  <2>8. commands[r.commandId].scheduledEndAt =
            ScheduledEnd(commands[r.commandId].payload, commands[r.commandId].startedAt)
        BY <1>1, <2>1, <2>7, ScheduleStays
  <2>9. QED
        BY <2>1, <2>2, <2>3, <2>5, <2>6, <2>8 DEF FromClaim
<1>5. SameRequest(r, r)
      BY DEF SameRequest
<1>6. CASE \E q \in requests : SameRequest(r, q)
  <2>1. PICK q \in requests : SameRequest(r, q)
        BY <1>6
  <2>2. q.op = "complete"
        BY <2>1 DEF SameRequest
  <2>3. QED
        BY <1>3, <2>1, <2>2
<1>7. QED
      BY <1>4, <1>5, <1>6, RequestFate

(* and so the rows.                                                        *)
LEMMA DelayNotEarlyStep ==
    ASSUME IInv, DelaysWaited, [Next]_vars
    PROVE  DelayNotEarly'
<1>1. SUFFICES ASSUME NEW c \in Commands, commands'[c] # Null,
                      commands'[c].status = "COMPLETED", Short(c)'
               PROVE  commands'[c].scheduledEndAt <= now' + MaxClockSkewMs
      BY DEF DelayNotEarly, InStatus, Created, Short
<1>2. /\ StoreTypeOK /\ StoreTypeOK' /\ [StoreNext]_storeVars /\ RowsConsistent
      /\ now \in Int /\ now' \in Int /\ now <= now' /\ MaxClockSkewMs \in Nat
      BY TableOKStep, StoreStep, ClockGrows, SkewAssumption
      DEF IInv, TypeOK, TableOK, StoreTypeOK, Time
<1>3. ASSUME commands[c] # Null, commands[c].status # "PENDING",
             commands'[c].scheduledEndAt = commands[c].scheduledEndAt,
             commands[c].scheduledEndAt <= now + MaxClockSkewMs
      PROVE  commands'[c].scheduledEndAt <= now' + MaxClockSkewMs
  <2>1. /\ c \in Created /\ commands[c] \in Row
        /\ commands'[c].payload = commands[c].payload
        BY <1>2, <1>3, CreatedStays DEF Created, StoreTypeOK
  <2>2. /\ commands[c].startedAt # Null
        /\ commands[c].scheduledEndAt = ScheduledEnd(commands[c].payload, commands[c].startedAt)
        BY <1>2, <1>3, <2>1 DEF RowsConsistent, RowConsistent
  <2>3. /\ commands[c].payload \in CommandPayload /\ commands[c].startedAt \in Int
        /\ commands[c].payload.type = "DELAY"
        BY <1>1, <2>1, <2>2 DEF Row, Time, Short
  <2>4. commands[c].scheduledEndAt \in Int
        BY <2>2, <2>3, ScheduledEndOfDelay
  <2>5. QED
        BY <1>2, <1>3, <2>4
<1>4. CASE commands'[c] = commands[c]
  <2>1. commands[c] # Null /\ commands[c].status = "COMPLETED" /\ Short(c)
        BY <1>1, <1>4 DEF Short
  <2>2. commands[c].scheduledEndAt <= now + MaxClockSkewMs
        BY <2>1 DEF DelaysWaited, DelayNotEarly, InStatus, Created, Short
  <2>3. QED
        BY <1>3, <1>4, <2>1, <2>2
<1>5. ASSUME NEW r \in requests, r.op = "complete", r.commandId = c,
             IsCurrentLease(c, r.agent, r.leaseId),
             commands'[c] = Finished(commands[c], "COMPLETED", r.result)
      PROVE  commands'[c].scheduledEndAt <= now' + MaxClockSkewMs
  <2>1. /\ commands[c] # Null /\ commands[c].status = "RUNNING" /\ commands[c] \in Row
        /\ commands[c].leaseId = r.leaseId
        BY <1>2, <1>5 DEF IsCurrentLease, InStatus, Created, StoreTypeOK
  <2>2. /\ commands'[c].payload = commands[c].payload
        /\ commands'[c].scheduledEndAt = commands[c].scheduledEndAt
        BY <1>5, <2>1 DEF Finished, Row
  <2>3. Short(c)
        BY <1>1, <2>2 DEF Short
  <2>4. commands[c].scheduledEndAt <= now + MaxClockSkewMs
        BY <1>5, <2>1, <2>3 DEF DelaysWaited, ReportInTime
  <2>5. QED
        BY <1>3, <2>1, <2>2, <2>4
<1>6. QED
      BY <1>1, <1>4, <1>5, Completion

(* DelaysWaited is inductive, given IInv.                                  *)
LEMMA DelaysWaitedStep == IInv /\ DelaysWaited /\ [Next]_vars => DelaysWaited'
<1> SUFFICES ASSUME IInv, DelaysWaited, [Next]_vars PROVE DelaysWaited'
    OBVIOUS
<1>1. ASSUME NEW a \in WithJournal', Short(journal[a].commandId)'
      PROVE  Waited(a)'
      BY <1>1, WaitingStep DEF WithJournal
<1>2. QED
      BY <1>1, ReportInTimeStep, DelayNotEarlyStep DEF DelaysWaited

(* A DELAY within setTimeout's range is never COMPLETED before its         *)
(* scheduled end by more than the clock skew, across crashes, recoveries   *)
(* and claims by other agents (DelayNotEarly).                             *)
THEOREM DelaysNeverEarly == Spec => []DelayNotEarly
<1>1. Init => DelaysWaited
      BY DEF Init, StoreInit, AgentInit, DelaysWaited, WithJournal, DelayNotEarly, InStatus, Created
<1>2. DelaysWaited => DelayNotEarly
      BY DEF DelaysWaited
<1>3. QED
      BY <1>1, <1>2, DelaysWaitedStep, SystemInvariant, PTL DEF Spec

-----------------------------------------------------------------------------
(* What makes a step end in a RUNNING row.                                 *)
LEMMA RunningFate ==
    ASSUME IInv, [Next]_vars, NEW c \in Commands,
           commands'[c] # Null, commands'[c].status = "RUNNING"
    PROVE  \/ commands'[c] = commands[c]
           \/ \E r \in requests :
                 /\ r.op = "heartbeat" /\ r.commandId = c
                 /\ Heartbeat(c, r.agent, r.leaseId, HeartbeatExtendMs)
           \/ commands'[c].leaseId = lastLease + 1
<1>0. StoreTypeOK /\ TypeOK /\ (commands[c] # Null => commands[c] \in Row)
      BY DEF IInv, TypeOK, StoreTypeOK
<1>1. CASE UNCHANGED storeVars
      BY <1>1 DEF storeVars
<1>2. CASE TableStep
  <2>1. ASSUME NEW listening \in BOOLEAN, ServerStart(listening)
        PROVE  commands'[c] = commands[c]
    <3>1. c \in ExpiredLeases => commands[c] \in Row
          BY <1>0 DEF ExpiredLeases, InStatus, Created
    <3>2. c \in ExpiredLeases => commands'[c].status = "PENDING"
          BY <2>1, <3>1 DEF ServerStart, Requeued, Row
    <3>3. QED
          BY <2>1, <3>2 DEF ServerStart
  <2>2. ASSUME NEW d \in Commands, NEW payload \in CommandPayload, CreateCommand(d, payload)
        PROVE  commands'[c] = commands[c]
    <3>1. c = d => commands'[c].status = "PENDING"
          BY <1>0, <2>2 DEF CreateCommand, StoreTypeOK
    <3>2. QED
          BY <1>0, <2>2, <3>1 DEF CreateCommand, StoreTypeOK
  <2>3. QED
        BY <1>2, <2>1, <2>2 DEF TableStep, Tick, ServerStop
<1>3. ASSUME NEW r \in requests, NEW d \in Commands, ClaimCommand(d, r.agent, MaxLeaseMs)
      PROVE  commands'[c] = commands[c] \/ commands'[c].leaseId = lastLease + 1
  <2>1. commands[d] \in Row
        BY <1>0, <1>3 DEF ClaimCommand, OldestPending, InStatus, Created, StoreTypeOK
  <2>2. c = d => commands'[c].leaseId = lastLease + 1
        BY <1>0, <1>3, <2>1 DEF ClaimCommand, Claimed, FreshLease, StoreTypeOK, Row
  <2>3. QED
        BY <1>0, <1>3, <2>2 DEF ClaimCommand, StoreTypeOK
<1>4. ASSUME NEW r \in requests,
             Heartbeat(r.commandId, r.agent, r.leaseId, HeartbeatExtendMs)
      PROVE  commands'[c] = commands[c] \/ r.commandId = c
      BY <1>0, <1>4 DEF Heartbeat, StoreTypeOK
<1>5. ASSUME NEW r \in requests,
             CompleteCommand(r.commandId, r.agent, r.leaseId, r.result)
      PROVE  commands'[c] = commands[c]
  <2>1. c = r.commandId => commands'[c].status = "COMPLETED"
        BY <1>0, <1>5 DEF CompleteCommand, IsCurrentLease, InStatus, Created, Finished, StoreTypeOK, Row
  <2>2. QED
        BY <1>0, <1>5, <2>1 DEF CompleteCommand, StoreTypeOK
<1>6. ASSUME NEW r \in requests, Handle(r)
      PROVE  \/ commands'[c] = commands[c]
             \/ /\ r.op = "heartbeat" /\ r.commandId = c
                /\ Heartbeat(c, r.agent, r.leaseId, HeartbeatExtendMs)
             \/ commands'[c].leaseId = lastLease + 1
      BY <1>1, <1>3, <1>4, <1>5, <1>6
      DEF Handle, HandleClaim, HandleHeartbeat, HandleComplete, LeaseConflict, storeVars
<1>7. QED
      BY <1>0, <1>1, <1>2, <1>6, StepCases DEF WireStep, vars

(* A lease that is still current keeps its expiry, or was extended by a    *)
(* heartbeat that named it.                                                *)
LEMMA ExpiryFate ==
    ASSUME IInv, [Next]_vars, NEW c, NEW a, NEW l \in LeaseId, l <= lastLease,
           IsCurrentLease(c, a, l)'
    PROVE  /\ IsCurrentLease(c, a, l)
           /\ commands'[c].startedAt = commands[c].startedAt
           /\ \/ commands'[c].leaseExpiresAt = commands[c].leaseExpiresAt
              \/ /\ \E r \in requests : r.op = "heartbeat" /\ r.leaseId = l
                 /\ commands'[c].leaseExpiresAt = now + HeartbeatExtendMs
                 /\ now' = now
<1>1. /\ c \in Commands /\ commands'[c] # Null /\ commands'[c].status = "RUNNING"
      /\ commands'[c].agentId = a /\ commands'[c].leaseId = l
      BY DEF IsCurrentLease, InStatus, Created
<1>2. l \in Nat /\ lastLease \in Nat /\ StoreTypeOK
      BY DEF LeaseId, IInv, TypeOK, StoreTypeOK
<1>3. commands'[c].leaseId # lastLease + 1
      BY <1>1, <1>2
<1>4. CASE commands'[c] = commands[c]
      BY <1>1, <1>4 DEF IsCurrentLease, InStatus, Created
<1>5. ASSUME NEW r \in requests, r.op = "heartbeat",
             Heartbeat(c, r.agent, r.leaseId, HeartbeatExtendMs)
      PROVE  /\ IsCurrentLease(c, a, l)
             /\ commands'[c].startedAt = commands[c].startedAt
             /\ commands'[c].leaseExpiresAt = now + HeartbeatExtendMs
             /\ now' = now /\ r.leaseId = l
  <2>1. /\ commands[c] \in Row /\ IsCurrentLease(c, r.agent, r.leaseId)
        /\ commands'[c] = [commands[c] EXCEPT !.leaseExpiresAt = now + HeartbeatExtendMs]
        /\ now' = now
        BY <1>1, <1>2, <1>5 DEF Heartbeat, IsCurrentLease, InStatus, Created, StoreTypeOK
  <2>2. /\ commands'[c].startedAt = commands[c].startedAt
        /\ commands'[c].leaseExpiresAt = now + HeartbeatExtendMs
        /\ commands'[c].agentId = commands[c].agentId
        /\ commands'[c].leaseId = commands[c].leaseId
        BY <2>1 DEF Row
  <2>3. QED
        BY <1>1, <2>1, <2>2 DEF IsCurrentLease
<1>6. QED
      BY <1>1, <1>3, <1>4, <1>5, RunningFate

(* The request r is a heartbeat of the interval of a.                      *)
BeatOf(a, r) ==
    /\ r.op = "heartbeat" /\ r.agent = a
    /\ r.commandId = timer[a].commandId
    /\ r.leaseId = timer[a].leaseId

(* The lease expires when the claim said it would.                         *)
Unextended(c) == commands[c].leaseExpiresAt = commands[c].startedAt + MaxLeaseMs

(* Why the lease of an armed interval still has time: it was never         *)
(* extended, so it is as the claim left it; the last extension reaches     *)
(* past the beat after next; a heartbeat is on its way; or one was         *)
(* answered otherwise than 204, and is about to be heard.                  *)
Renewal(a) ==
    \/ Unextended(timer[a].commandId)
    \/ commands[timer[a].commandId].leaseExpiresAt >= timer[a].next + 2 * HeartbeatIntervalMs
    \/ \E r \in requests : BeatOf(a, r)
    \/ \E p \in AwaitingAnswer(a, "heartbeat") : p.status # 204

(* An armed interval fires within one period, and unless the agent is      *)
(* recovering its lease is looked after.                                   *)
Beating(a) ==
    timer[a] # Null =>
        /\ timer[a].next <= now + HeartbeatIntervalMs
        /\ ~recovering[a] /\ IsCurrentLease(timer[a].commandId, a, timer[a].leaseId) => Renewal(a)

(* A grant nobody has read yet has not been extended.                      *)
GrantUnextended(p) ==
    /\ commands[p.grant.commandId].leaseId = p.grant.leaseId
    /\ commands[p.grant.commandId].status = "RUNNING"
    => Unextended(p.grant.commandId)

(* The inductive invariant behind BeatsKeepLease.                          *)
LeasesRenewed ==
    /\ \A a \in Agents : Beating(a)
    /\ \A r \in requests : r.op = "heartbeat" => r.leaseId \in taken
    /\ \A p \in Grants : GrantUnextended(p)

(* What a step of an agent does to its armed heartbeat interval.           *)
LEMMA TimerFate ==
    ASSUME TypeOK, Shape, NEW a \in Agents, AgentStep(a), timer'[a] # Null
    PROVE  \/ /\ timer'[a] = timer[a] /\ recovering'[a] = recovering[a]
              /\ \A p \in replies \ replies' : p.request.op = "heartbeat" => p.status = 204
           \/ /\ timer[a] # Null
              /\ timer'[a].commandId = timer[a].commandId
              /\ timer'[a].leaseId = timer[a].leaseId
              /\ timer'[a].next = now + HeartbeatIntervalMs
              /\ \E r \in requests' : BeatOf(a, r)
           \/ recovering'[a] /\ timer'[a].next = now + HeartbeatIntervalMs
           \/ \E p \in Grants : Takes(a, p)
<1> USE DEF mode, netVars, ghostVars
<1>0. AgentTypeOK /\ Position(a)
      BY DEF TypeOK, AgentTypeOK, Shape
<1>1. CASE StartFresh(a) \/ StartUnread(a)
      BY <1>1 DEF StartFresh, StartUnread
<1>2. CASE RecoverSavedResult(a, now) \/ RecoverDelay(a, now)
      BY <1>0, <1>2 DEF RecoverSavedResult, RecoverDelay, Resume, StartHeartbeat, AgentTypeOK
<1>3. CASE \E deleted \in BOOLEAN : DiscardJournal(a, deleted)
      BY <1>3 DEF DiscardJournal
<1>4. ~\E deleted \in BOOLEAN : LeaseCheckFails(a, deleted) \/ JournalNotSaved(a, deleted)
      BY <1>0 DEF LeaseCheckFails, JournalNotSaved, GiveUp, StopHeartbeat, AgentTypeOK
<1>5. ~(Stop(a) \/ Crash(a))
      BY <1>0 DEF Stop, Crash, StopHeartbeat, AgentTypeOK
<1>6. ~LoopEnds(a)
      BY <1>0 DEF LoopEnds, Position, Working
<1>7. CASE Poll(a) \/ FetchUrl(a) \/ HeadersArrive(a) \/ WaitElapsed(a, now)
      BY <1>7 DEF Poll, FetchUrl, HeadersArrive, WaitElapsed
<1>8. CASE Report(a)
      BY <1>0, <1>8 DEF Report, StopHeartbeat, AgentTypeOK
<1>9. CASE Beat(a, now)
  <2> DEFINE r == [op |-> "heartbeat", agent |-> a, commandId |-> timer[a].commandId,
                   leaseId |-> timer[a].leaseId, result |-> Null, awaited |-> TRUE]
  <2>1. r \in requests' /\ timer[a] # Null
        BY <1>9 DEF Beat, Send
  <2>2. BeatOf(a, r)
        BY DEF BeatOf
  <2>3. timer[a] \in Timer
        BY <1>0, <2>1 DEF AgentTypeOK
  <2>4. timer'[a] = [timer[a] EXCEPT !.next = now + HeartbeatIntervalMs]
        BY <1>0, <1>9 DEF Beat, AgentTypeOK
  <2>5. /\ timer'[a].commandId = timer[a].commandId
        /\ timer'[a].leaseId = timer[a].leaseId
        /\ timer'[a].next = now + HeartbeatIntervalMs
        BY <2>3, <2>4 DEF Timer
  <2>6. QED
        BY <2>1, <2>2, <2>5
<1>10. CASE \E date \in Int : ExecuteDelay(a, now, date)
      BY <1>10 DEF ExecuteDelay
<1>11. CASE ExecuteHttpGetJson(a) \/ SaveDelayResult(a) \/ FetchSettles(a) \/ BodyEnds(a)
      BY <1>11 DEF ExecuteHttpGetJson, SaveDelayResult, FetchSettles, BodyEnds, SaveHttpSnapshot
<1>12. CASE \E p \in replies : ClaimRefused(a, p) \/ ClaimNotSaved(a, p)
      BY <1>12 DEF ClaimRefused, ClaimNotSaved, AwaitingAnswer
<1>13. ASSUME NEW p \in replies, ClaimGranted(a, p, now)
       PROVE  \E q \in Grants : Takes(a, q)
  <2>1. Takes(a, p)
        BY <1>13, GrantStep
  <2>2. p \in Grants
        BY <2>1 DEF Takes
  <2>3. QED
        BY <2>1, <2>2
<1>14. CASE \E p \in replies : BeatAnswered(a, p)
  <2>1. PICK p \in replies : BeatAnswered(a, p)
        BY <1>14
  <2>2. p.status = 204
        BY <1>0, <2>1 DEF BeatAnswered, StopHeartbeat, AgentTypeOK
  <2>3. QED
        BY <2>1, <2>2 DEF BeatAnswered
<1>15. ~\E p \in replies, deleted \in BOOLEAN : ReportAnswered(a, p, deleted)
      BY <1>0 DEF ReportAnswered, StopHeartbeat, AgentTypeOK
<1>16. QED
       BY <1>1, <1>2, <1>3, <1>4, <1>5, <1>6, <1>7, <1>8, <1>9, <1>10, <1>11, <1>12, <1>13,
          <1>14, <1>15 DEF AgentStep

(* An answer that ends the interval is waiting to be heard.                *)
Denied(a) == \E p \in AwaitingAnswer(a, "heartbeat") : p.status # 204

(* It waits until the agent hears it.                                      *)
LEMMA DenialFate ==
    ASSUME IInv, [Next]_vars, NEW a \in Agents, Denied(a),
           AgentStep(a) /\ UNCHANGED storeVars =>
               \A p \in replies \ replies' : p.request.op = "heartbeat" => p.status = 204
    PROVE  Denied(a)'
<1>1. PICK p \in replies : p.request.agent = a /\ p.request.op = "heartbeat" /\ p.status # 204
      BY DEF Denied, AwaitingAnswer
<1>2. TypeOK /\ Shape
      BY DEF IInv
<1>3. CASE p \in replies'
      BY <1>1, <1>3 DEF Denied, AwaitingAnswer
<1>4. CASE p \notin replies'
  <2>1. ASSUME NEW b \in Agents, AgentStep(b), UNCHANGED storeVars
        PROVE  FALSE
        BY <1>1, <1>2, <1>4, <2>1, MessageFate
  <2>2. WireFate
        BY <1>2, <1>4, <2>1, StepCases, WireStepFate DEF TableStep, vars, agentVars, netVars
  <2>3. ASSUME NEW q \in replies, NEW n \in Reply, Voided(q, n)
        PROVE  Denied(a)'
    <3>1. q = p /\ n \in replies'
          BY <1>4, <2>3 DEF Voided
    <3>2. n.request = p.request /\ n.status = 0
          BY <2>3, <3>1 DEF Voided
    <3>3. QED
          BY <1>1, <3>1, <3>2 DEF Denied, AwaitingAnswer
  <2>4. QED
        BY <1>1, <1>4, <2>2, <2>3 DEF WireFate, Answered, Abandoned
<1>5. QED
      BY <1>3, <1>4

(* What becomes of a heartbeat while the interval stays armed.             *)
LEMMA BeatFate ==
    ASSUME IInv, [Next]_vars, NEW a \in Agents, timer'[a] # Null, timer'[a] = timer[a],
           NEW r \in requests, BeatOf(a, r)
    PROVE  \/ \E q \in requests' : BeatOf(a, q)'
           \/ Heartbeat(r.commandId, r.agent, r.leaseId, HeartbeatExtendMs)
           \/ Denied(a)'
           \/ ~IsCurrentLease(r.commandId, r.agent, r.leaseId)
<1>1. TypeOK /\ Shape /\ r \in Request
      BY DEF IInv, TypeOK
<1>2. r \in requests' => \E q \in requests' : BeatOf(a, q)'
      BY DEF BeatOf
<1>3. ASSUME NEW b \in Agents, AgentStep(b)
      PROVE  r \in requests'
  <2>1. ASSUME Disconnect(b), timer'[b] = Null
        PROVE  r \in requests'
    <3>1. r.agent = a /\ b # a
          BY <2>1 DEF BeatOf
    <3>2. QED
          BY <2>1, <3>1 DEF Disconnect
  <2>2. QED
        BY <1>1, <1>3, <2>1, MessageFate
<1>4. ASSUME WireFate, r \notin requests'
      PROVE  \/ \E q \in requests' : BeatOf(a, q)'
             \/ Heartbeat(r.commandId, r.agent, r.leaseId, HeartbeatExtendMs)
             \/ Denied(a)'
             \/ ~IsCurrentLease(r.commandId, r.agent, r.leaseId)
  <2>1. ASSUME NEW q \in requests, NEW p \in Reply, Answered(q, p)
        PROVE  \/ Heartbeat(r.commandId, r.agent, r.leaseId, HeartbeatExtendMs)
               \/ Denied(a)'
               \/ ~IsCurrentLease(r.commandId, r.agent, r.leaseId)
    <3>1. q = r
          BY <1>4, <2>1 DEF Answered
    <3>2. r.op = "heartbeat" /\ r.agent = a /\ p.request = r
          BY <2>1, <3>1 DEF Answered, Answers, BeatOf
    <3>3. CASE p.status = 204
          BY <2>1, <3>1, <3>2, <3>3 DEF Answered, Answers
    <3>4. CASE p.status # 204 /\ r.awaited
      <4>1. p \in replies'
            BY <2>1, <3>1, <3>4 DEF Answered
      <4>2. QED
            BY <3>2, <3>4, <4>1 DEF Denied, AwaitingAnswer
    <3>5. CASE p.status # 204 /\ ~r.awaited
          BY <2>1, <3>1, <3>2, <3>5 DEF Answered, Answers
    <3>6. QED
          BY <3>3, <3>4, <3>5
  <2>2. ASSUME NEW q \in requests, NEW p \in Reply, Abandoned(q, p)
        PROVE  \E n \in requests' : BeatOf(a, n)'
    <3>1. q = r
          BY <1>4, <2>2 DEF Abandoned
    <3>2. [r EXCEPT !.awaited = FALSE] \in requests'
          BY <2>2, <3>1 DEF Abandoned
    <3>3. SameRequest([r EXCEPT !.awaited = FALSE], r)
          BY <1>1, Orphaned
    <3>4. BeatOf(a, [r EXCEPT !.awaited = FALSE])'
          BY <3>3 DEF SameRequest, BeatOf
    <3>5. QED
          BY <3>2, <3>4
  <2>3. QED
        BY <1>4, <2>1, <2>2 DEF WireFate, Voided
<1>5. QED
      BY <1>1, <1>2, <1>3, <1>4, StepCases, WireStepFate DEF TableStep, vars, agentVars, netVars

(* A lease that was taken stays taken.                                     *)
LEMMA TakenGrows ==
    ASSUME IInv, [Next]_vars
    PROVE  taken \subseteq taken'
<1>1. CASE UNCHANGED <<localVars, taken>>
      BY <1>1
<1>2. CASE \E a \in Agents, p \in Grants : Takes(a, p)
      BY <1>2 DEF Takes
<1>3. QED
      BY <1>1, <1>2, WorkFate

(* Heartbeats name only leases that were taken,                            *)
LEMMA BeatLeasesStep ==
    ASSUME IInv, LeasesApart, LeasesRenewed, [Next]_vars,
           NEW r \in requests', r.op = "heartbeat"
    PROVE  r.leaseId \in taken'
<1>1. CASE r \in requests
      BY <1>1, TakenGrows DEF LeasesRenewed
<1>2. ASSUME NEW q \in requests, SameRequest(r, q)
      PROVE  r.leaseId \in taken
  <2>1. q.op = "heartbeat" /\ q.leaseId = r.leaseId
        BY <1>2 DEF SameRequest
  <2>2. QED
        BY <2>1 DEF LeasesRenewed
<1>3. ASSUME NEW a \in Agents, NewRequest(a, r)
      PROVE  r.leaseId \in taken
  <2>1. timer[a] # Null /\ r.leaseId = timer[a].leaseId
        BY <1>3 DEF NewRequest
  <2>2. a \in WithJournal /\ timer[a].leaseId = journal[a].leaseId
        BY <2>1 DEF IInv, Shape, Position, WithJournal
  <2>3. QED
        BY <2>1, <2>2 DEF LeasesApart
<1>4. QED
      BY <1>1, <1>2, <1>3, RequestFate, TakenGrows

(* so no grant on the wire is ever extended.                               *)
LEMMA GrantUnextendedStep ==
    ASSUME IInv, LeasesApart, LeasesRenewed, [Next]_vars, NEW p \in Grants'
    PROVE  GrantUnextended(p)'
<1> DEFINE c == p.grant.commandId
           l == p.grant.leaseId
<1>1. CASE p \in Grants
  <2>1. /\ p.grant \in Grant /\ c \in Commands /\ l \in LeaseId /\ l <= lastLease
        /\ commands[c] # Null
    <3>1. p.grant \in Grant
          BY <1>1 DEF IInv, TypeOK, Shape, Grants, Reply
    <3>2. c \in Commands /\ l \in LeaseId
          BY <3>1 DEF Grant
    <3>3. FromClaim(p.request.agent, p.grant)
          BY <1>1 DEF IInv, Provenance
    <3>4. QED
          BY <3>1, <3>2, <3>3 DEF FromClaim
  <2>2. SUFFICES ASSUME commands'[c].leaseId = l, commands'[c].status = "RUNNING"
                 PROVE  Unextended(c)'
        BY DEF GrantUnextended
  <2>3. PICK a : a = commands'[c].agentId
        OBVIOUS
  <2>4. IsCurrentLease(c, a, l)'
    <3>1. StoreTypeOK /\ StoreTypeOK' /\ [StoreNext]_storeVars
          BY StoreStep, TableOKStep DEF IInv, TypeOK
    <3>2. c \in Created
          BY <2>1 DEF Created
    <3>3. commands'[c] # Null
          BY <3>1, <3>2, CreatedStays
    <3>4. QED
          BY <2>1, <2>2, <2>3, <3>3 DEF IsCurrentLease, InStatus, Created
  <2>5. IsCurrentLease(c, a, l) /\ commands'[c].startedAt = commands[c].startedAt
        BY <2>1, <2>4, ExpiryFate
  <2>6. Unextended(c)
        BY <1>1, <2>5 DEF LeasesRenewed, GrantUnextended, IsCurrentLease, InStatus
  <2>7. ~\E r \in requests : r.op = "heartbeat" /\ r.leaseId = l
        BY <1>1 DEF LeasesRenewed, LeasesApart
  <2>8. commands'[c].leaseExpiresAt = commands[c].leaseExpiresAt
        BY <2>1, <2>4, <2>7, ExpiryFate
  <2>9. QED
        BY <2>5, <2>6, <2>8 DEF Unextended
<1>2. CASE GrantedNow(p)
  <2>1. /\ c \in Commands /\ commands[c] \in Row /\ c \in OldestPending
        /\ commands' = [commands EXCEPT ![c] =
               Claimed(commands[c], p.request.agent, lastLease + 1, now + MaxLeaseMs, now)]
        BY <1>2 DEF GrantedNow, OldestPending, InStatus, Created, IInv, TypeOK, StoreTypeOK
  <2>2. commands'[c] = Claimed(commands[c], p.request.agent, lastLease + 1, now + MaxLeaseMs, now)
        BY <2>1 DEF IInv, TypeOK, StoreTypeOK
  <2>3. commands'[c].leaseExpiresAt = now + MaxLeaseMs /\ commands'[c].startedAt = now
        BY <2>1, <2>2 DEF Claimed, Row
  <2>4. QED
        BY <2>3 DEF GrantUnextended, Unextended
<1>3. QED
      BY <1>1, <1>2, GrantFate

(* The heartbeat interval of an agent over a step of the whole system.     *)
TimerStays(a) ==
    /\ timer'[a] = timer[a] /\ recovering'[a] = recovering[a]
    /\ AgentStep(a) /\ UNCHANGED storeVars =>
          \A p \in replies \ replies' : p.request.op = "heartbeat" => p.status = 204

(* That interval stays, beats once, is armed again by a recovery, or is    *)
(* armed by a grant.                                                       *)
LEMMA SystemTimerFate ==
    ASSUME IInv, [Next]_vars, NEW a \in Agents, timer'[a] # Null
    PROVE  \/ TimerStays(a)
           \/ /\ UNCHANGED storeVars
              /\ \/ /\ timer[a] # Null
                    /\ timer'[a].commandId = timer[a].commandId
                    /\ timer'[a].leaseId = timer[a].leaseId
                    /\ timer'[a].next = now + HeartbeatIntervalMs
                    /\ \E r \in requests' : BeatOf(a, r)
                 \/ recovering'[a] /\ timer'[a].next = now + HeartbeatIntervalMs
                 \/ \E p \in Grants : Takes(a, p)
<1>1. TypeOK /\ Shape /\ AgentTypeOK
      BY DEF IInv, TypeOK, AgentTypeOK
<1>2. CASE AgentStep(a) /\ UNCHANGED storeVars
      BY <1>1, <1>2, TimerFate DEF TimerStays
<1>3. ASSUME ~(AgentStep(a) /\ UNCHANGED storeVars),
             NEW b \in Agents, AgentStep(b), UNCHANGED storeVars
      PROVE  TimerStays(a)
      BY <1>1, <1>3, Others DEF TimerStays
<1>4. ASSUME ~(AgentStep(a) /\ UNCHANGED storeVars), UNCHANGED localVars
      PROVE  TimerStays(a)
  <2>1. timer' = timer /\ recovering' = recovering
        BY <1>4 DEF localVars
  <2>2. QED
        BY <1>4, <2>1 DEF TimerStays
<1>5. ASSUME ~(AgentStep(a) /\ UNCHANGED storeVars)
      PROVE  TimerStays(a)
      BY <1>1, <1>3, <1>4, <1>5, StepCases, WireStepFate
      DEF TableStep, WireFate, vars, agentVars
<1>6. QED
      BY <1>2, <1>5

(* Every step keeps the leases of the armed intervals looked after.        *)
LEMMA BeatingStep ==
    ASSUME IInv, LeasesApart, LeasesRenewed, [Next]_vars, NEW a \in Agents
    PROVE  Beating(a)'
<1>c. PICK c, l : c = timer'[a].commandId /\ l = timer'[a].leaseId
      OBVIOUS
<1>1. SUFFICES ASSUME timer'[a] # Null
               PROVE  /\ timer'[a].next <= now' + HeartbeatIntervalMs
                      /\ ~recovering'[a] /\ IsCurrentLease(c, a, l)' => Renewal(a)'
      BY <1>c DEF Beating, IsCurrentLease, InStatus, Created
<1>2. /\ now \in Int /\ now' \in Int /\ now <= now' /\ HeartbeatIntervalMs \in Nat
      /\ timer \in [Agents -> Timer \cup {Null}]
      BY StoreStep, TableOKStep, ClockGrows, HeartbeatAssumption
      DEF IInv, TypeOK, StoreTypeOK, Time
<1>3. CASE TimerStays(a)
  <2>1. /\ timer'[a] = timer[a] /\ timer[a] # Null /\ timer[a] \in Timer
        /\ timer[a].next \in Int /\ l \in LeaseId
        BY <1>c, <1>1, <1>2, <1>3 DEF TimerStays, Timer, Time
  <2>2. timer[a].next <= now + HeartbeatIntervalMs
        BY <2>1 DEF LeasesRenewed, Beating
  <2>3. timer'[a].next <= now' + HeartbeatIntervalMs
        BY <1>2, <2>1, <2>2
  <2>4. ASSUME ~recovering'[a], IsCurrentLease(c, a, l)'
        PROVE  Renewal(a)'
    <3>1. /\ a \in WithJournal /\ l = journal[a].leaseId
          BY <1>c, <2>1 DEF IInv, Shape, Position, WithJournal
    <3>2. l <= lastLease
          BY <3>1 DEF IInv, Provenance, FromClaim
    <3>3. /\ IsCurrentLease(c, a, l)
          /\ commands'[c].startedAt = commands[c].startedAt
          /\ \/ commands'[c].leaseExpiresAt = commands[c].leaseExpiresAt
             \/ commands'[c].leaseExpiresAt = now + HeartbeatExtendMs
          BY <2>1, <2>4, <3>2, ExpiryFate
    <3>4. Renewal(a)
          BY <1>c, <1>3, <2>1, <2>4, <3>3 DEF TimerStays, LeasesRenewed, Beating
    <3>5. CASE commands'[c].leaseExpiresAt = now + HeartbeatExtendMs
      <4>1. commands'[c].leaseExpiresAt >= timer'[a].next + 2 * HeartbeatIntervalMs
            BY <1>c, <1>2, <2>1, <2>2, <3>5 DEF HeartbeatExtendMs
      <4>2. QED
            BY <1>c, <4>1 DEF Renewal
    <3>6. CASE commands'[c].leaseExpiresAt = commands[c].leaseExpiresAt
      <4>1. CASE Unextended(c)
            BY <1>c, <3>3, <3>6, <4>1 DEF Renewal, Unextended
      <4>2. CASE commands[c].leaseExpiresAt >= timer[a].next + 2 * HeartbeatIntervalMs
            BY <1>c, <2>1, <3>6, <4>2 DEF Renewal
      <4>3. ASSUME Denied(a)
            PROVE  Denied(a)'
            BY <1>3, <4>3, DenialFate DEF TimerStays
      <4>4. Denied(a)' => Renewal(a)'
            BY DEF Denied, Renewal
      <4>5. ASSUME NEW r \in requests, BeatOf(a, r)
            PROVE  Renewal(a)'
        <5>1. /\ r.commandId = c /\ r.leaseId = l /\ r.agent = a
              BY <1>c, <2>1, <4>5 DEF BeatOf
        <5>2. CASE Heartbeat(c, a, l, HeartbeatExtendMs)
          <6>1. /\ c \in Commands /\ commands[c] \in Row
                BY <3>3 DEF IsCurrentLease, InStatus, Created, IInv, TypeOK, StoreTypeOK
          <6>2. commands'[c].leaseExpiresAt = now + HeartbeatExtendMs
                BY <5>2, <6>1 DEF Heartbeat, IInv, TypeOK, StoreTypeOK, Row
          <6>3. QED
                BY <3>5, <6>2
        <5>3. (\E q \in requests' : BeatOf(a, q)') => Renewal(a)'
              BY DEF Renewal
        <5>4. QED
              BY <1>1, <2>1, <3>3, <4>4, <4>5, <5>1, <5>2, <5>3, BeatFate
      <4>6. QED
            BY <1>c, <2>1, <3>4, <4>1, <4>2, <4>3, <4>4, <4>5 DEF Renewal, Denied
    <3>7. QED
          BY <3>3, <3>5, <3>6
  <2>5. QED
        BY <2>3, <2>4
<1>4. ASSUME UNCHANGED storeVars, timer'[a].next = now + HeartbeatIntervalMs
      PROVE  timer'[a].next <= now' + HeartbeatIntervalMs
  <2>1. now' = now
        BY <1>4 DEF storeVars
  <2>2. QED
        BY <1>2, <1>4, <2>1
<1>5. ASSUME UNCHANGED storeVars, timer'[a].next = now + HeartbeatIntervalMs,
             timer'[a].commandId = timer[a].commandId, timer'[a].leaseId = timer[a].leaseId,
             NEW r \in requests', BeatOf(a, r)
      PROVE  /\ timer'[a].next <= now' + HeartbeatIntervalMs
             /\ ~recovering'[a] /\ IsCurrentLease(c, a, l)' => Renewal(a)'
  <2>1. BeatOf(a, r)'
        BY <1>5 DEF BeatOf
  <2>2. Renewal(a)'
        BY <2>1 DEF Renewal
  <2>3. QED
        BY <1>4, <1>5, <2>2
<1>6. ASSUME UNCHANGED storeVars, recovering'[a], timer'[a].next = now + HeartbeatIntervalMs
      PROVE  /\ timer'[a].next <= now' + HeartbeatIntervalMs
             /\ ~recovering'[a] /\ IsCurrentLease(c, a, l)' => Renewal(a)'
      BY <1>4, <1>6
<1>7. ASSUME UNCHANGED storeVars, NEW p \in Grants, Takes(a, p)
      PROVE  /\ timer'[a].next <= now' + HeartbeatIntervalMs
             /\ ~recovering'[a] /\ IsCurrentLease(c, a, l)' => Renewal(a)'
  <2>1. /\ timer'[a].next = now + HeartbeatIntervalMs
        /\ c = p.grant.commandId /\ l = p.grant.leaseId
        BY <1>c, <1>7 DEF Takes
  <2>2. ASSUME IsCurrentLease(c, a, l)'
        PROVE  Renewal(a)'
    <3>1. /\ commands'[c].leaseId = p.grant.leaseId /\ commands'[c].status = "RUNNING"
          /\ commands' = commands
          BY <1>7, <2>1, <2>2 DEF IsCurrentLease, InStatus, storeVars
    <3>2. Unextended(c)
          BY <1>7, <2>1, <3>1 DEF LeasesRenewed, GrantUnextended
    <3>3. QED
          BY <1>c, <3>1, <3>2 DEF Renewal, Unextended
  <2>3. QED
        BY <1>4, <1>7, <2>1, <2>2
<1>8. QED
      BY <1>1, <1>3, <1>5, <1>6, <1>7, SystemTimerFate

(* LeasesRenewed is inductive, given IInv and LeasesApart.                 *)
LEMMA LeasesRenewedStep == IInv /\ LeasesApart /\ LeasesRenewed /\ [Next]_vars => LeasesRenewed'
BY BeatingStep, BeatLeasesStep, GrantUnextendedStep DEF LeasesRenewed

(* Three intervals are enough headroom (server-client.ts:17): while an     *)
(* agent that is not recovering beats and all its heartbeats are answered, *)
(* its lease survives two more intervals, or is still as the claim left it *)
(* because no heartbeat has been accepted yet (BeatsKeepLease).            *)
THEOREM LeasesKeptByBeats == Spec => []BeatsKeepLease
<1>1. Init => LeasesRenewed
      BY DEF Init, AgentInit, LeasesRenewed, Beating, Grants
<1>2. IInv /\ LeasesRenewed => BeatsKeepLease
  <2> SUFFICES ASSUME IInv, LeasesRenewed, NEW a \in Agents,
                      timer[a] # Null, ~recovering[a],
                      IsCurrentLease(timer[a].commandId, a, timer[a].leaseId),
                      \A r \in requests : r.agent = a => r.op # "heartbeat",
                      AwaitingAnswer(a, "heartbeat") = {},
                      now < timer[a].next + 2 * HeartbeatIntervalMs
               PROVE  LET row == commands[timer[a].commandId] IN
                      row.leaseExpiresAt > now \/ row.leaseExpiresAt = row.startedAt + MaxLeaseMs
      BY DEF BeatsKeepLease
  <2> DEFINE c == timer[a].commandId
  <2>1. Renewal(a)
        BY DEF LeasesRenewed, Beating
  <2>2. CASE Unextended(c)
        BY <2>2 DEF Unextended
  <2>3. CASE commands[c].leaseExpiresAt >= timer[a].next + 2 * HeartbeatIntervalMs
    <3>1. c \in Commands /\ commands[c] \in Row /\ commands[c].status = "RUNNING"
          BY DEF IsCurrentLease, InStatus, Created, IInv, TypeOK, StoreTypeOK
    <3>2. commands[c].leaseExpiresAt \in Int
      <4>1. commands[c] # Null
            BY DEF IsCurrentLease, InStatus, Created
      <4>2. commands[c].leaseExpiresAt # Null
            BY <3>1, <4>1 DEF IInv, TableOK, RowsConsistent, RowConsistent, Created
      <4>3. QED
            BY <3>1, <4>2 DEF Row, Time
    <3>3. timer[a].next \in Int /\ now \in Int /\ HeartbeatIntervalMs \in Nat
          BY HeartbeatAssumption DEF IInv, TypeOK, StoreTypeOK, Timer, Time
    <3>4. QED
          BY <2>3, <3>2, <3>3
  <2>4. QED
        BY <2>1, <2>2, <2>3 DEF Renewal, BeatOf
<1>3. QED
      BY <1>1, <1>2, LeasesRenewedStep, SystemInvariant, LeasesStayApart, PTL DEF Spec

-----------------------------------------------------------------------------
(* A journal whose URL may still be fetched.                               *)
MayFetch(a) ==
    /\ a \in WithJournal
    /\ journal[a].type = "HTTP_GET_JSON"
    /\ pc[a] \in {"claimed", "executing"}

(* The leases for one command under which the URL may still be fetched.    *)
Unfetched(c) ==
    {l \in 1..lastLease :
        \/ \E p \in Grants : p.grant.commandId = c /\ p.grant.leaseId = l
        \/ \E a \in Agents : MayFetch(a) /\ journal[a].commandId = c /\ journal[a].leaseId = l}

(* Every claim leaves at most one lease to fetch under, and every GET uses *)
(* one up.                                                                 *)
FetchesCounted ==
    \A c \in Commands :
        IF commands[c] = Null
        THEN requestCount[c] = 0
        ELSE requestCount[c] + Cardinality(Unfetched(c)) <= commands[c].attempt

(* There are finitely many of them.                                        *)
LEMMA UnfetchedFinite ==
    ASSUME IInv, NEW c
    PROVE  IsFiniteSet(Unfetched(c)) /\ Cardinality(Unfetched(c)) \in Nat
<1>1. IsFiniteSet(1..lastLease)
      BY FS_Interval DEF IInv, TypeOK, StoreTypeOK
<1>2. Unfetched(c) \in SUBSET (1..lastLease)
      BY DEF Unfetched
<1>3. IsFiniteSet(Unfetched(c))
      BY <1>1, <1>2, FS_Subset
<1>4. QED
      BY <1>3, FS_CardinalityType

(* A lease to fetch under is of a command that was claimed.                *)
LEMMA UnfetchedCreated ==
    ASSUME IInv, NEW c \in Commands, commands[c] = Null
    PROVE  Unfetched(c) = {}
<1>1. ~\E p \in Grants : p.grant.commandId = c
      BY DEF IInv, Provenance, FromClaim
<1>2. ~\E a \in Agents : MayFetch(a) /\ journal[a].commandId = c
      BY DEF IInv, Provenance, FromClaim, MayFetch
<1>3. QED
      BY <1>1, <1>2 DEF Unfetched

(* An agent only ever sends the GET on the way from "executing", and never *)
(* comes back to a point from which it could send it again.                *)
LEMMA FetchFate ==
    ASSUME TypeOK, Shape, NEW a \in Agents, AgentStep(a)
    PROVE  \/ /\ requestCount' = requestCount
              /\ MayFetch(a)' => /\ MayFetch(a)
                                 /\ journal'[a].commandId = journal[a].commandId
                                 /\ journal'[a].leaseId = journal[a].leaseId
           \/ /\ MayFetch(a) /\ ~MayFetch(a)'
              /\ requestCount' = [requestCount EXCEPT ![journal[a].commandId] = @ + 1]
           \/ \E p \in Grants : Takes(a, p)
<1> USE DEF mode, netVars, ghostVars
<1>0. AgentTypeOK /\ Position(a)
      BY DEF TypeOK, AgentTypeOK, Shape
<1> DEFINE Idle == requestCount' = requestCount /\ ~MayFetch(a)'
<1>1. CASE StartFresh(a) \/ StartUnread(a)
  <2>1. Idle
        BY <1>0, <1>1 DEF StartFresh, StartUnread, GoTo, MayFetch, AgentTypeOK
  <2>2. QED
        BY <2>1
<1>2. CASE RecoverSavedResult(a, now) \/ RecoverDelay(a, now)
  <2>1. Idle
        BY <1>0, <1>2 DEF RecoverSavedResult, RecoverDelay, Resume, HasJournal, GoTo, MayFetch, AgentTypeOK
  <2>2. QED
        BY <2>1
<1>3. CASE \E deleted \in BOOLEAN :
               DiscardJournal(a, deleted) \/ LeaseCheckFails(a, deleted) \/ JournalNotSaved(a, deleted)
  <2>1. Idle
        BY <1>0, <1>3
        DEF DiscardJournal, LeaseCheckFails, JournalNotSaved, GiveUp, GoTo, MayFetch, AgentTypeOK
  <2>2. QED
        BY <2>1
<1>4. CASE Stop(a) \/ Beat(a, now)
      BY <1>0, <1>4 DEF Stop, Beat, MayFetch, WithJournal
<1>5. CASE LoopEnds(a) \/ Crash(a)
  <2>1. Idle
        BY <1>0, <1>5 DEF LoopEnds, Crash, GoTo, MayFetch, AgentTypeOK
  <2>2. QED
        BY <2>1
<1>6. CASE Poll(a) \/ Report(a) \/ HeadersArrive(a) \/ WaitElapsed(a, now) \/ SaveDelayResult(a)
  <2>1. Idle
        BY <1>0, <1>6
        DEF Poll, Report, HeadersArrive, WaitElapsed, SaveDelayResult, GoTo, MayFetch, AgentTypeOK
  <2>2. QED
        BY <2>1
<1>7. CASE \E date \in Int : ExecuteDelay(a, now, date)
  <2>1. Idle
        BY <1>0, <1>7 DEF ExecuteDelay, GoTo, MayFetch, AgentTypeOK
  <2>2. QED
        BY <2>1
<1>8. CASE ExecuteHttpGetJson(a)
  <2>1. /\ journal[a] # Null /\ SetStage(a, "IN_PROGRESS") /\ MayFetch(a)
        /\ requestCount' = requestCount
        BY <1>8 DEF ExecuteHttpGetJson, HasJournal, MayFetch, WithJournal
  <2>2. SameWork(journal'[a], journal[a])
        BY <1>0, <2>1, StageStep DEF JournalStage
  <2>3. QED
        BY <2>1, <2>2 DEF SameWork
<1>9. CASE FetchUrl(a)
  <2>1. MayFetch(a)
        BY <1>0, <1>9 DEF FetchUrl, MayFetch, WithJournal, Position, Working
  <2>2. ~MayFetch(a)'
        BY <1>0, <1>9 DEF FetchUrl, GoTo, MayFetch, AgentTypeOK
  <2>3. QED
        BY <1>9, <2>1, <2>2 DEF FetchUrl
<1>10. CASE FetchSettles(a) \/ BodyEnds(a)
  <2>1. Idle
        BY <1>0, <1>10 DEF FetchSettles, BodyEnds, SaveHttpSnapshot, GoTo, MayFetch, AgentTypeOK
  <2>2. QED
        BY <2>1
<1>11. ASSUME NEW p \in replies, ClaimGranted(a, p, now)
       PROVE  \E q \in Grants : Takes(a, q)
  <2>1. Takes(a, p)
        BY <1>11, GrantStep
  <2>2. p \in Grants
        BY <2>1 DEF Takes
  <2>3. QED
        BY <2>1, <2>2
<1>12. CASE \E p \in replies : \/ ClaimRefused(a, p) \/ ClaimNotSaved(a, p)
                               \/ \E deleted \in BOOLEAN : ReportAnswered(a, p, deleted)
  <2>1. Idle
        BY <1>0, <1>12 DEF ClaimRefused, ClaimNotSaved, ReportAnswered, GoTo, MayFetch, AgentTypeOK
  <2>2. QED
        BY <2>1
<1>13. CASE \E p \in replies : BeatAnswered(a, p)
       BY <1>0, <1>13 DEF BeatAnswered, MayFetch, WithJournal
<1>14. QED
       BY <1>1, <1>2, <1>3, <1>4, <1>5, <1>6, <1>7, <1>8, <1>9, <1>10, <1>11, <1>12, <1>13
       DEF AgentStep

(* A grant or a fetching journal makes its lease one to fetch under.       *)
LEMMA UnfetchedOf ==
    ASSUME IInv
    PROVE  /\ \A p \in Grants : p.grant.leaseId \in Unfetched(p.grant.commandId)
           /\ \A a \in Agents : MayFetch(a) => journal[a].leaseId \in Unfetched(journal[a].commandId)
<1>1. ASSUME NEW p \in Grants
      PROVE  p.grant.leaseId \in Unfetched(p.grant.commandId)
  <2>1. p.grant \in Grant
        BY DEF IInv, TypeOK, Shape, Grants, Reply
  <2>2. p.grant.leaseId \in 1..lastLease
        BY <2>1 DEF IInv, TypeOK, StoreTypeOK, Provenance, FromClaim, Grant, LeaseId
  <2>3. QED
        BY <2>2 DEF Unfetched
<1>2. ASSUME NEW a \in Agents, MayFetch(a)
      PROVE  journal[a].leaseId \in Unfetched(journal[a].commandId)
  <2>1. a \in WithJournal /\ journal[a] \in AgentJournal
        BY <1>2 DEF MayFetch, WithJournal, IInv, TypeOK
  <2>2. journal[a].leaseId \in 1..lastLease
        BY <2>1 DEF IInv, TypeOK, StoreTypeOK, Provenance, FromClaim, AgentJournal, LeaseId
  <2>3. QED
        BY <1>2, <2>2 DEF Unfetched
<1>3. QED
      BY <1>1, <1>2

(* While no agent moves, only a claim adds a lease to fetch under.         *)
LEMMA UnfetchedClaimed ==
    ASSUME IInv, [Next]_vars, UNCHANGED <<localVars, ghostVars>>, NEW c \in Commands
    PROVE  \/ Unfetched(c)' \subseteq Unfetched(c)
           \/ /\ Unfetched(c)' \subseteq Unfetched(c) \cup {lastLease + 1}
              /\ commands[c] # Null /\ commands'[c].attempt = commands[c].attempt + 1
<1>1. \A a : MayFetch(a)' <=> MayFetch(a)
      BY DEF MayFetch, WithJournal, localVars
<1>2. journal' = journal
      BY DEF localVars
<1>3. CASE Grants' \subseteq Grants
      BY <1>1, <1>2, <1>3, UnfetchedOf DEF Unfetched
<1>4. ASSUME NEW p, GrantedNow(p), Grants' = Grants \cup {p}
      PROVE  \/ Unfetched(c)' \subseteq Unfetched(c)
             \/ /\ Unfetched(c)' \subseteq Unfetched(c) \cup {lastLease + 1}
                /\ commands[c] # Null /\ commands'[c].attempt = commands[c].attempt + 1
  <2>1. p.grant.leaseId = lastLease + 1
        BY <1>4 DEF GrantedNow
  <2>2. CASE p.grant.commandId # c
        BY <1>1, <1>2, <1>4, <2>2, UnfetchedOf DEF Unfetched
  <2>3. CASE p.grant.commandId = c
    <3>1. Unfetched(c)' \subseteq Unfetched(c) \cup {lastLease + 1}
          BY <1>1, <1>2, <1>4, <2>1, UnfetchedOf DEF Unfetched
    <3>2. /\ commands[c] # Null /\ commands[c] \in Row
          /\ commands' = [commands EXCEPT ![c] =
                 Claimed(commands[c], p.request.agent, lastLease + 1, now + MaxLeaseMs, now)]
          BY <1>4, <2>3 DEF GrantedNow, OldestPending, InStatus, Created, IInv, TypeOK, StoreTypeOK
    <3>3. commands'[c] =
              Claimed(commands[c], p.request.agent, lastLease + 1, now + MaxLeaseMs, now)
          BY <3>2 DEF IInv, TypeOK, StoreTypeOK
    <3>4. commands'[c].attempt = commands[c].attempt + 1
          BY <3>2, <3>3 DEF Claimed, Row
    <3>5. QED
          BY <3>1, <3>2, <3>4
  <2>4. QED
        BY <2>2, <2>3
<1>5. QED
      BY <1>3, <1>4, GrantFate

(* An agent only uses such leases up: it gives one back when it sends the  *)
(* GET, and no other grant or journal has the same one.                    *)
LEMMA UnfetchedUsed ==
    ASSUME IInv, LeasesApart, [Next]_vars, NEW a \in Agents, AgentStep(a), UNCHANGED storeVars,
           NEW c \in Commands
    PROVE  \/ /\ requestCount'[c] = requestCount[c]
              /\ Unfetched(c)' \subseteq Unfetched(c)
           \/ /\ requestCount'[c] = requestCount[c] + 1
              /\ \E l \in Unfetched(c) : Unfetched(c)' \subseteq Unfetched(c) \ {l}
<1>1. TypeOK /\ Shape /\ AgentTypeOK
      BY DEF IInv, TypeOK, AgentTypeOK
<1>2. Grants' \subseteq Grants
      BY <1>1, MessageFate DEF Grants
<1>3. \A b \in Agents : b # a => /\ MayFetch(b)' <=> MayFetch(b)
                                 /\ journal'[b] = journal[b]
      BY <1>1, Others DEF MayFetch, WithJournal
<1>4. ASSUME MayFetch(a)' => /\ MayFetch(a)
                             /\ journal'[a].commandId = journal[a].commandId
                             /\ journal'[a].leaseId = journal[a].leaseId
      PROVE  Unfetched(c)' \subseteq Unfetched(c)
      BY <1>2, <1>3, <1>4, UnfetchedOf DEF Unfetched
<1>5. ASSUME MayFetch(a), ~MayFetch(a)',
             requestCount' = [requestCount EXCEPT ![journal[a].commandId] = @ + 1],
             c = journal[a].commandId
      PROVE  /\ requestCount'[c] = requestCount[c] + 1
             /\ \E l \in Unfetched(c) : Unfetched(c)' \subseteq Unfetched(c) \ {l}
  <2> DEFINE l == journal[a].leaseId
  <2>1. l \in Unfetched(c) /\ l \in taken /\ a \in WithJournal
        BY <1>5, UnfetchedOf DEF MayFetch, LeasesApart
  <2>2. \A p \in Grants' : p.grant.leaseId # l
        BY <1>2, <2>1 DEF LeasesApart
  <2>3. \A b \in Agents : MayFetch(b)' => journal'[b].leaseId # l
        BY <1>3, <1>5, <2>1 DEF LeasesApart, MayFetch
  <2>4. Unfetched(c)' \subseteq Unfetched(c)
        BY <1>4, <1>5
  <2>5. l \notin Unfetched(c)'
        BY <2>2, <2>3 DEF Unfetched
  <2>6. requestCount'[c] = requestCount[c] + 1
        BY <1>1, <1>5 DEF AgentTypeOK
  <2>7. QED
        BY <2>1, <2>4, <2>5, <2>6
<1>6. ASSUME MayFetch(a), ~MayFetch(a)',
             requestCount' = [requestCount EXCEPT ![journal[a].commandId] = @ + 1],
             c # journal[a].commandId
      PROVE  /\ requestCount'[c] = requestCount[c]
             /\ Unfetched(c)' \subseteq Unfetched(c)
      BY <1>1, <1>4, <1>6 DEF AgentTypeOK
<1>7. ASSUME NEW p \in Grants, Takes(a, p)
      PROVE  /\ requestCount'[c] = requestCount[c]
             /\ Unfetched(c)' \subseteq Unfetched(c)
  <2>1. /\ requestCount' = requestCount
        /\ journal'[a].leaseId = p.grant.leaseId
        /\ journal'[a].commandId = p.grant.commandId
        BY <1>7 DEF Takes, SameWork
  <2>2. QED
        BY <1>2, <1>3, <2>1, UnfetchedOf DEF Unfetched
<1>8. QED
      BY <1>1, <1>4, <1>5, <1>6, <1>7, FetchFate

(* The attempts of a command only grow.                                    *)
LEMMA AttemptsGrow ==
    ASSUME StoreTypeOK, StoreTypeOK', [StoreNext]_storeVars, NEW c \in Commands, commands[c] # Null
    PROVE  commands'[c] # Null /\ commands'[c].attempt >= commands[c].attempt
<1>1. commands'[c] # Null /\ commands[c] \in Row /\ commands[c].attempt \in Nat
      BY CreatedStays DEF Created, StoreTypeOK, Row
<1>2. ASSUME ClaimedNow(c)
      PROVE  commands'[c].attempt = commands[c].attempt + 1
  <2>1. PICK a \in Agents, expiresAt \in Time :
            commands'[c] = Claimed(commands[c], a, lastLease', expiresAt, now)
        BY <1>2 DEF ClaimedNow
  <2>2. QED
        BY <1>1, <2>1 DEF Claimed, Row
<1>3. QED
      BY <1>1, <1>2, AgeFate DEF CreatedNow

(* How the number of leases follows from that.                             *)
LEMMA FewerLeases ==
    ASSUME NEW S, IsFiniteSet(S), NEW T
    PROVE  /\ T \subseteq S => Cardinality(T) \in Nat /\ Cardinality(T) <= Cardinality(S)
           /\ \A x \in S : T \subseteq S \ {x} =>
                 Cardinality(T) \in Nat /\ Cardinality(T) + 1 <= Cardinality(S)
           /\ \A x : T \subseteq S \cup {x} =>
                 Cardinality(T) \in Nat /\ Cardinality(T) <= Cardinality(S) + 1
<1>1. Cardinality(S) \in Nat
      BY FS_CardinalityType
<1>2. ASSUME NEW U, IsFiniteSet(U), T \subseteq U
      PROVE  Cardinality(T) \in Nat /\ Cardinality(T) <= Cardinality(U)
  <2>1. T \in SUBSET U
        BY <1>2
  <2>2. IsFiniteSet(T) /\ Cardinality(T) <= Cardinality(U)
        BY <1>2, <2>1, FS_Subset
  <2>3. QED
        BY <2>2, FS_CardinalityType
<1>3. ASSUME NEW x \in S, T \subseteq S \ {x}
      PROVE  Cardinality(T) \in Nat /\ Cardinality(T) + 1 <= Cardinality(S)
  <2>1. IsFiniteSet(S \ {x}) /\ Cardinality(S \ {x}) = Cardinality(S) - 1
        BY FS_RemoveElement
  <2>2. Cardinality(T) \in Nat /\ Cardinality(T) <= Cardinality(S \ {x})
        BY <1>2, <1>3, <2>1
  <2>3. QED
        BY <1>1, <2>1, <2>2
<1>4. ASSUME NEW x, T \subseteq S \cup {x}
      PROVE  Cardinality(T) \in Nat /\ Cardinality(T) <= Cardinality(S) + 1
  <2>1. /\ IsFiniteSet(S \cup {x})
        /\ Cardinality(S \cup {x}) = Cardinality(S) \/ Cardinality(S \cup {x}) = Cardinality(S) + 1
        BY FS_AddElement
  <2>2. Cardinality(T) \in Nat /\ Cardinality(T) <= Cardinality(S \cup {x})
        BY <1>2, <1>4, <2>1
  <2>3. QED
        BY <1>1, <2>1, <2>2
<1>5. QED
      BY <1>2, <1>3, <1>4

(* FetchesCounted is inductive, given IInv and LeasesApart.                *)
LEMMA FetchesCountedStep == IInv /\ LeasesApart /\ FetchesCounted /\ [Next]_vars => FetchesCounted'
<1> SUFFICES ASSUME IInv, LeasesApart, FetchesCounted, [Next]_vars, NEW c \in Commands
             PROVE  IF commands'[c] = Null
                    THEN requestCount'[c] = 0
                    ELSE requestCount'[c] + Cardinality(Unfetched(c)') <= commands'[c].attempt
    BY DEF FetchesCounted
<1>1. /\ StoreTypeOK /\ StoreTypeOK' /\ [StoreNext]_storeVars
      /\ TypeOK /\ requestCount[c] \in Nat
      BY StoreStep, TableOKStep DEF IInv, TypeOK
<1> DEFINE Used == \/ /\ requestCount'[c] = requestCount[c]
                      /\ Unfetched(c)' \subseteq Unfetched(c)
                   \/ /\ requestCount'[c] = requestCount[c] + 1
                      /\ \E l \in Unfetched(c) : Unfetched(c)' \subseteq Unfetched(c) \ {l}
           Claim == /\ requestCount'[c] = requestCount[c]
                    /\ Unfetched(c)' \subseteq Unfetched(c) \cup {lastLease + 1}
                    /\ commands[c] # Null /\ commands'[c].attempt = commands[c].attempt + 1
<1>2. Used \/ Claim
  <2>1. ASSUME UNCHANGED <<localVars, ghostVars>>
        PROVE  Used \/ Claim
        BY <2>1, UnfetchedClaimed DEF ghostVars
  <2>2. ASSUME NEW a \in Agents, AgentStep(a), UNCHANGED storeVars
        PROVE  Used
        BY <2>2, UnfetchedUsed
  <2>3. QED
        BY <1>1, <2>1, <2>2, StepCases, WireStepFate DEF TableStep, WireFate, vars, agentVars
<1>3. PICK S, T : S = Unfetched(c) /\ T = Unfetched(c)'
      OBVIOUS
<1>4. IsFiniteSet(S) /\ Cardinality(S) \in Nat
      BY <1>3, UnfetchedFinite
<1>5. CASE commands[c] = Null
  <2>1. S = {} /\ requestCount[c] = 0
        BY <1>3, <1>5, UnfetchedCreated DEF FetchesCounted
  <2>2. requestCount'[c] = 0 /\ T = {}
        BY <1>2, <1>3, <1>5, <2>1
  <2>3. commands'[c] # Null => commands'[c].attempt \in Nat
        BY <1>1 DEF StoreTypeOK, Row
  <2>4. QED
        BY <1>3, <2>2, <2>3, FS_EmptySet
<1>6. CASE commands[c] # Null
  <2>1. /\ commands'[c] # Null /\ commands'[c].attempt >= commands[c].attempt
        /\ commands[c].attempt \in Nat /\ commands'[c].attempt \in Nat
        BY <1>1, <1>6, AttemptsGrow DEF StoreTypeOK, Row
  <2>2. requestCount[c] + Cardinality(S) <= commands[c].attempt
        BY <1>3, <1>6 DEF FetchesCounted
  <2>3. requestCount'[c] + Cardinality(T) <= commands'[c].attempt
    <3>1. CASE requestCount'[c] = requestCount[c] /\ T \subseteq S
          BY <1>1, <1>4, <2>1, <2>2, <3>1, FewerLeases
    <3>2. CASE requestCount'[c] = requestCount[c] + 1 /\ \E l \in S : T \subseteq S \ {l}
          BY <1>1, <1>4, <2>1, <2>2, <3>2, FewerLeases
    <3>3. CASE /\ requestCount'[c] = requestCount[c] /\ T \subseteq S \cup {lastLease + 1}
               /\ commands'[c].attempt = commands[c].attempt + 1
      <4>1. PICK x : T \subseteq S \cup {x}
            BY <3>3
      <4>2. Cardinality(T) \in Nat /\ Cardinality(T) <= Cardinality(S) + 1
            BY <1>4, <4>1, FewerLeases
      <4>3. QED
            BY <1>1, <1>4, <2>1, <2>2, <3>3, <4>2
    <3>4. QED
          BY <1>2, <1>3, <3>1, <3>2, <3>3
  <2>4. QED
        BY <1>3, <2>1, <2>3
<1>7. QED
      BY <1>5, <1>6

(* The URL of a command is requested at most once per claim of it, over    *)
(* every crash, recovery and lost reply (OneFetchPerClaim): http-get-json- *)
(* executor.ts fetches only when no snapshot is saved.                     *)
THEOREM ClaimsFetchOnce == Spec => []OneFetchPerClaim
<1>1. Init => FetchesCounted
      BY DEF Init, StoreInit, AgentInit, FetchesCounted
<1>2. IInv /\ FetchesCounted => OneFetchPerClaim
  <2> SUFFICES ASSUME IInv, FetchesCounted, NEW c \in Created
               PROVE  requestCount[c] <= commands[c].attempt
      BY DEF OneFetchPerClaim
  <2>1. c \in Commands /\ commands[c] # Null /\ commands[c] \in Row
        BY DEF Created, IInv, TypeOK, StoreTypeOK
  <2>2. requestCount[c] \in Nat /\ commands[c].attempt \in Nat
        BY <2>1 DEF IInv, TypeOK, Row
  <2>3. requestCount[c] + Cardinality(Unfetched(c)) <= commands[c].attempt
        BY <2>1 DEF FetchesCounted
  <2>4. Cardinality(Unfetched(c)) \in Nat
        BY UnfetchedFinite
  <2>5. QED
        BY <2>2, <2>3, <2>4
<1>3. QED
      BY <1>1, <1>2, FetchesCountedStep, SystemInvariant, LeasesStayApart, PTL DEF Spec
=============================================================================
