------------------------- MODULE WorkSession_proof -------------------------
(***************************************************************************)
(* The agents of ReliableSystem implement the work sessions of WorkSession *)
(* as long as a journal that was deleted is gone and one that is there can *)
(* be read: every start state maps to the start of the sessions, and every *)
(* step to one step of a session or to none.                               *)
(***************************************************************************)
EXTENDS SystemSafety_proof

(* No deletion of a journal fails (the unlinkSync of journal.ts:80) and no *)
(* reading of one at a start (the readFileSync of :43).  Saves may.        *)
FilesKept == Faults \cap {"delete", "read"} = {}

(* An agent that asks for work has nothing left to report.                 *)
PollsEmptyHanded == \A a \in Agents : pc[a] \in {"idle", "claiming"} => journal[a] = Null

(* While no deletion and no reading fails, every step keeps that.          *)
LEMMA PollsEmptyHandedStep ==
    ASSUME IInv, ReportsAwaited, FilesKept, PollsEmptyHanded, [Next]_vars
    PROVE  PollsEmptyHanded'
<1>1. TypeOK /\ Shape /\ AgentTypeOK
      BY DEF IInv, TypeOK, AgentTypeOK
<1>2. ~Fault("read") /\ ~Fault("delete")
      BY DEF Fault, FilesKept
<1>3. CASE UNCHANGED <<localVars, ghostVars>>
      BY <1>3 DEF localVars, PollsEmptyHanded
<1>4. ASSUME NEW a \in Agents, AgentStep(a), ReturnsWith(a), NEW b \in Agents
      PROVE  pc'[b] \in {"idle", "claiming"} => journal'[b] = Null
  <2>1. CASE b = a
        BY <1>2, <1>4, <2>1 DEF ReturnsWith, PollsEmptyHanded
  <2>2. CASE b # a
        BY <1>1, <1>4, <2>2, Others DEF PollsEmptyHanded
  <2>3. QED
        BY <2>1, <2>2
<1>5. QED
      BY <1>1, <1>3, <1>4, ReturnCases DEF PollsEmptyHanded

-----------------------------------------------------------------------------
(* A report leaves only from "saved", and the journal stays as it is.      *)
LEMMA ReportingBegins ==
    ASSUME AgentTypeOK, NEW a \in Agents, AgentStep(a), pc'[a] = "reporting"
    PROVE  pc[a] \in {"saved", "reporting"}
<1> USE DEF mode, netVars, ghostVars, GoTo
<1>1. CASE StartFresh(a) \/ StartUnread(a) \/ RecoverSavedResult(a, now) \/ RecoverDelay(a, now)
      BY <1>1 DEF StartFresh, StartUnread, RecoverSavedResult, RecoverDelay, Resume, AgentTypeOK
<1>2. CASE \E deleted \in BOOLEAN :
               DiscardJournal(a, deleted) \/ LeaseCheckFails(a, deleted) \/ JournalNotSaved(a, deleted)
      BY <1>2 DEF DiscardJournal, LeaseCheckFails, JournalNotSaved, GiveUp, AgentTypeOK
<1>3. CASE Stop(a) \/ LoopEnds(a) \/ Crash(a) \/ Poll(a) \/ Report(a) \/ Beat(a, now)
      BY <1>3 DEF Stop, LoopEnds, Crash, Poll, Report, Beat, AgentTypeOK
<1>4. CASE \E date \in Int : ExecuteDelay(a, now, date)
      BY <1>4 DEF ExecuteDelay, AgentTypeOK
<1>5. CASE ExecuteHttpGetJson(a) \/ FetchUrl(a) \/ HeadersArrive(a) \/ WaitElapsed(a, now)
           \/ SaveDelayResult(a)
      BY <1>5 DEF ExecuteHttpGetJson, FetchUrl, HeadersArrive, WaitElapsed, SaveDelayResult, AgentTypeOK
<1>6. CASE FetchSettles(a) \/ BodyEnds(a)
      BY <1>6 DEF FetchSettles, BodyEnds, SaveHttpSnapshot, AgentTypeOK
<1>7. CASE \E p \in replies : \/ ClaimRefused(a, p) \/ ClaimNotSaved(a, p) \/ ClaimGranted(a, p, now)
                              \/ BeatAnswered(a, p)
                              \/ \E deleted \in BOOLEAN : ReportAnswered(a, p, deleted)
      BY <1>7 DEF ClaimRefused, ClaimNotSaved, ClaimGranted, BeatAnswered, ReportAnswered, AgentTypeOK
<1>8. QED
      BY <1>1, <1>2, <1>3, <1>4, <1>5, <1>6, <1>7 DEF AgentStep

(* A saved result is one an agent can carry.                               *)
LEMMA SavedOutcome ==
    ASSUME IInv, NEW a \in Agents, NEW j \in AgentJournal, JournalComplete(j), FromClaim(a, j),
           j.stage = "RESULT_SAVED"
    PROVE  ResultOf(j) \in Results /\ ResultOf(j) # Null
<1>1. /\ j.commandId \in Commands /\ commands[j.commandId] \in Row
      /\ j.leaseId \in 1..MaxLeases
      BY BoundsAssumption
      DEF AgentJournal, FromClaim, IInv, TableOK, TypeOK, StoreTypeOK, LeaseId
<1>2. ResultOf(j) = Outcome(commands[j.commandId].payload, j.leaseId)
      BY ResultOfClaim DEF IInv
<1>3. commands[j.commandId].payload \in CommandPayload
      BY <1>1 DEF Row
<1>4. CASE commands[j.commandId].payload.type = "DELAY"
  <2>1. commands[j.commandId].payload.ms \in DelayMs
        BY <1>3, <1>4 DEF CommandPayload, DelayPayload, HttpGetJsonPayload
  <2>2. ResultOf(j) \in [tookMs : DelayMs]
        BY <1>2, <1>4, <2>1 DEF Outcome
  <2>3. QED
        BY <2>2, ResultsCarriedAssumption, ResultsAssumption, NullRowAssumption
<1>5. CASE commands[j.commandId].payload.type # "DELAY"
  <2>1. ResultOf(j) \in [fetchedUnder : 1..MaxLeases]
        BY <1>1, <1>2, <1>5 DEF Outcome
  <2>2. QED
        BY <2>1, ResultsCarriedAssumption, ResultsAssumption, NullRowAssumption
<1>6. QED
      BY <1>4, <1>5

(* The record SessionView shows of a journal j whose report has come as    *)
(* far as "phase".                                                         *)
SessionOf(j, phase) ==
    [commandId |-> j.commandId,
     leaseId   |-> j.leaseId,
     outcome   |-> IF j.stage = "RESULT_SAVED" THEN ResultOf(j) ELSE Null,
     phase     |-> phase]

(* It is a session, and these are its parts.                               *)
LEMMA SessionFields ==
    ASSUME IInv, NEW a \in Agents, NEW j \in AgentJournal, JournalComplete(j), FromClaim(a, j),
           NEW phase \in Sessions!Phase
    PROVE  LET s == SessionOf(j, phase) IN
           /\ s \in Sessions!Session /\ s # Null
           /\ s.commandId = j.commandId /\ s.leaseId = j.leaseId
           /\ s.outcome = IF j.stage = "RESULT_SAVED" THEN ResultOf(j) ELSE Null
           /\ s.phase = phase
<1> DEFINE s == SessionOf(j, phase)
<1>1. j.commandId \in Commands /\ j.leaseId \in 1..MaxLeases
      BY BoundsAssumption
      DEF AgentJournal, FromClaim, IInv, TableOK, TypeOK, StoreTypeOK, LeaseId
<1>2. (IF j.stage = "RESULT_SAVED" THEN ResultOf(j) ELSE Null) \in Results \cup {Null}
      BY SavedOutcome
<1>3. s \in Sessions!Session
      BY <1>1, <1>2 DEF SessionOf, Sessions!Session
<1>4. s # Null
      BY <1>3, NullSessionAssumption
<1>5. QED
      BY <1>3, <1>4 DEF SessionOf

(* A report is in one of the three phases.                                 *)
LEMMA PhaseType == \A a : ReportPhase(a) \in Sessions!Phase
BY DEF ReportPhase, Sessions!Phase

(* Of all agents but a, neither the journal nor the report changes.        *)
OthersRest(a) ==
    \A b \in Agents \ {a} : journal'[b] = journal[b] /\ ReportPhase(b)' = ReportPhase(b)

(* So it is when agent a moves.                                            *)
LEMMA RestOfStep ==
    ASSUME IInv, NEW a \in Agents, AgentStep(a)
    PROVE  OthersRest(a)
<1>1. TypeOK /\ Shape /\ AgentTypeOK
      BY DEF IInv, TypeOK, AgentTypeOK
<1>2. /\ replies' \subseteq replies
      /\ \A p \in replies \ replies' : p.request.agent = a
      BY <1>1, MessageFate
<1>3. ASSUME NEW b \in Agents \ {a}
      PROVE  journal'[b] = journal[b] /\ ReportPhase(b)' = ReportPhase(b)
  <2>1. pc'[b] = pc[b] /\ journal'[b] = journal[b]
        BY <1>1, Others
  <2>2. AwaitingAnswer(b, "complete")' = AwaitingAnswer(b, "complete")
        BY <1>2 DEF AwaitingAnswer
  <2>3. QED
        BY <2>1, <2>2 DEF ReportPhase, ResultOf
<1>4. QED
      BY <1>3 DEF OthersRest

(* How SessionView changes when only agent a does.                         *)
LEMMA SessionChanges ==
    ASSUME NEW a \in Agents, OthersRest(a)
    PROVE  /\ SessionView[a] = IF journal[a] = Null THEN Null
                               ELSE SessionOf(journal[a], ReportPhase(a))
           /\ journal'[a] = Null => SessionView' = [SessionView EXCEPT ![a] = Null]
           /\ journal'[a] # Null =>
                 SessionView' = [SessionView EXCEPT ![a] = SessionOf(journal'[a], ReportPhase(a)')]
           /\ [SessionView EXCEPT ![a] = SessionView[a]] = SessionView
<1>1. SessionView = [b \in Agents |->
          IF journal[b] = Null THEN Null ELSE SessionOf(journal[b], ReportPhase(b))]
      BY DEF SessionView, SessionOf
<1>2. SessionView' = [b \in Agents |->
          IF journal'[b] = Null THEN Null ELSE SessionOf(journal'[b], ReportPhase(b)')]
      BY DEF SessionView, SessionOf, ResultOf
<1>3. PICK v : v = SessionView'
      OBVIOUS
<1>4. \A b \in Agents \ {a} : v[b] = SessionView[b]
      BY <1>1, <1>2, <1>3 DEF OthersRest
<1>5. v[a] = IF journal'[a] = Null THEN Null ELSE SessionOf(journal'[a], ReportPhase(a)')
      BY <1>2, <1>3
<1>6. v = [SessionView EXCEPT ![a] = v[a]]
      BY <1>1, <1>2, <1>3, <1>4
<1>7. QED
      BY <1>1, <1>3, <1>5, <1>6

(* A session with another outcome, or with its report in another phase.    *)
LEMMA SessionUpdates ==
    ASSUME NEW s \in Sessions!Session, NEW t \in Sessions!Session,
           t.commandId = s.commandId, t.leaseId = s.leaseId
    PROVE  /\ t.phase = s.phase => t = [s EXCEPT !.outcome = t.outcome]
           /\ t.outcome = s.outcome => t = [s EXCEPT !.phase = t.phase]
<1>1. ASSUME t.phase = s.phase
      PROVE  t = [s EXCEPT !.outcome = t.outcome]
      BY <1>1 DEF Sessions!Session
<1>2. ASSUME t.outcome = s.outcome
      PROVE  t = [s EXCEPT !.phase = t.phase]
      BY <1>2 DEF Sessions!Session
<1>3. QED
      BY <1>1, <1>2

(* Before a step, the journal of an agent is one SessionFields speaks of.  *)
LEMMA JournalInHand ==
    ASSUME IInv, NEW a \in Agents, journal[a] # Null
    PROVE  journal[a] \in AgentJournal /\ JournalComplete(journal[a]) /\ FromClaim(a, journal[a])
BY DEF IInv, TypeOK, Shape, Provenance, WithJournal

(* When only the phase of one report changes, so does only that field.     *)
LEMMA PhaseChanges ==
    ASSUME IInv, NEW a \in Agents, OthersRest(a), journal[a] # Null, journal'[a] = journal[a]
    PROVE  /\ SessionView[a] # Null
           /\ SessionView[a].phase = ReportPhase(a)
           /\ SessionView[a].outcome = IF journal[a].stage = "RESULT_SAVED"
                                       THEN ResultOf(journal[a]) ELSE Null
           /\ SessionView' = [SessionView EXCEPT ![a].phase = ReportPhase(a)']
<1> DEFINE j == journal[a]
<1>1. j \in AgentJournal /\ JournalComplete(j) /\ FromClaim(a, j)
      BY JournalInHand
<1>2. PICK old, new : old = ReportPhase(a) /\ new = ReportPhase(a)'
      OBVIOUS
<1>3. old \in Sessions!Phase /\ new \in Sessions!Phase
  <2>1. ReportPhase(a) \in Sessions!Phase
        BY PhaseType
  <2>2. ReportPhase(a)' \in Sessions!Phase
        BY DEF ReportPhase, Sessions!Phase
  <2>3. QED
        BY <1>2, <2>1, <2>2
<1>4. /\ SessionView[a] = SessionOf(j, old)
      /\ SessionView' = [SessionView EXCEPT ![a] = SessionOf(j, new)]
      BY <1>2, SessionChanges
<1> DEFINE s == SessionOf(j, old)
           t == SessionOf(j, new)
<1>5. /\ s \in Sessions!Session /\ t \in Sessions!Session /\ s # Null
      /\ t.commandId = s.commandId /\ t.leaseId = s.leaseId
      /\ t.outcome = s.outcome /\ t.phase = new /\ s.phase = old
      /\ s.outcome = IF j.stage = "RESULT_SAVED" THEN ResultOf(j) ELSE Null
      BY <1>1, <1>3, SessionFields
<1> HIDE DEF s, t
<1>6. t = [s EXCEPT !.phase = new]
      BY <1>5, SessionUpdates
<1>7. SessionView' = [SessionView EXCEPT ![a].phase = new]
      BY <1>4, <1>6 DEF s, t
<1>8. QED
      BY <1>2, <1>4, <1>5, <1>7 DEF s

(* Each way a step treats the journal of an agent is a step of its session *)
(* or none.                                                                *)
LEMMA SessionBegins ==
    ASSUME IInv, LeasesApart, Shape', NEW a \in Agents, NEW p \in Grants, Takes(a, p),
           journal[a] = Null, OthersRest(a)
    PROVE  \E c \in Commands, l \in 1..MaxLeases : Sessions!Begin(a, c, l)
<1> DEFINE c == p.grant.commandId
           l == p.grant.leaseId
<1>1. /\ p.grant \in Grant /\ FromClaim(p.request.agent, p.grant)
      /\ c \in Commands /\ l \in 1..MaxLeases
      BY BoundsAssumption
      DEF Takes, Grant, IInv, Provenance, FromClaim, TableOK, TypeOK, StoreTypeOK, LeaseId
<1>2. /\ journal'[a] # Null /\ journal'[a].stage = "CLAIMED"
      /\ journal'[a].commandId = c /\ journal'[a].leaseId = l
      /\ taken' = taken \cup {l} /\ l \notin taken
      BY DEF Takes, SameWork, LeasesApart
<1>3. pc'[a] # "reporting"
      BY <1>2 DEF Shape, Position
<1>4. ReportPhase(a)' = "unsent"
      BY <1>3 DEF ReportPhase
<1>5. SessionOf(journal'[a], "unsent") =
          [commandId |-> c, leaseId |-> l, outcome |-> Null, phase |-> "unsent"]
      BY <1>2 DEF SessionOf
<1>6. SessionView[a] = Null
      BY SessionChanges
<1>7. SessionView' = [SessionView EXCEPT ![a] =
          [commandId |-> c, leaseId |-> l, outcome |-> Null, phase |-> "unsent"]]
      BY <1>2, <1>4, <1>5, SessionChanges
<1>8. Sessions!Begin(a, c, l)
      BY <1>2, <1>6, <1>7 DEF Sessions!Begin
<1>9. QED
      BY <1>1, <1>8

(* Progress on a journal is nothing new to the session, or finds out its   *)
(* outcome;                                                                *)
LEMMA SessionGoesOn ==
    ASSUME IInv, Shape', NEW a \in Agents, AgentStep(a), Progresses(a), taken' = taken,
           OthersRest(a)
    PROVE  UNCHANGED Sessions!sessionVars \/ Sessions!FindOut(a)
<1> DEFINE j == journal[a]
           k == journal'[a]
           s == SessionOf(j, "unsent")
           t == SessionOf(k, "unsent")
<1>1. /\ j # Null /\ j \in AgentJournal /\ JournalComplete(j) /\ FromClaim(a, j)
      /\ j.stage # "RESULT_SAVED"
      BY JournalInHand DEF Progresses
<1>2. /\ k # Null /\ k \in AgentJournal /\ JournalComplete(k) /\ FromClaim(a, k)
      /\ k.commandId = j.commandId /\ k.leaseId = j.leaseId
      BY <1>1, SameClaim DEF Progresses, SameWork
<1>3. ReportPhase(a) = "unsent" /\ ReportPhase(a)' = "unsent"
  <2>1. pc[a] \notin {"saved", "reporting"}
        BY <1>1 DEF IInv, Shape, Position
  <2>2. pc'[a] # "reporting"
        BY <2>1, ReportingBegins DEF IInv, TypeOK, AgentTypeOK
  <2>3. QED
        BY <2>1, <2>2 DEF ReportPhase
<1>4. /\ SessionView[a] = s
      /\ SessionView' = [SessionView EXCEPT ![a] = t]
      BY <1>1, <1>2, <1>3, SessionChanges
<1>5. "unsent" \in Sessions!Phase
      BY DEF Sessions!Phase
<1>6. /\ s \in Sessions!Session /\ s # Null
      /\ s.commandId = j.commandId /\ s.leaseId = j.leaseId
      /\ s.outcome = Null /\ s.phase = "unsent"
      BY <1>1, <1>5, SessionFields
<1>7. /\ t \in Sessions!Session
      /\ t.commandId = k.commandId /\ t.leaseId = k.leaseId
      /\ t.outcome = IF k.stage = "RESULT_SAVED" THEN ResultOf(k) ELSE Null
      /\ t.phase = "unsent"
      BY <1>2, <1>5, SessionFields
<1> HIDE DEF s, t
<1>8. t = [s EXCEPT !.outcome = t.outcome]
      BY <1>2, <1>6, <1>7, SessionUpdates
<1>9. CASE k.stage # "RESULT_SAVED"
  <2>1. t = s
        BY <1>6, <1>7, <1>8, <1>9 DEF Sessions!Session
  <2>2. SessionView' = SessionView
        BY <1>4, <2>1, SessionChanges
  <2>3. QED
        BY <2>2 DEF Sessions!sessionVars
<1>10. CASE k.stage = "RESULT_SAVED"
  <2>1. t.outcome \in Results
        BY <1>2, <1>7, <1>10, SavedOutcome
  <2>2. SessionView' = [SessionView EXCEPT ![a].outcome = t.outcome]
        BY <1>4, <1>8
  <2>3. QED
        BY <1>4, <1>6, <2>1, <2>2 DEF Sessions!FindOut
<1>11. QED
       BY <1>9, <1>10

(* with a journal that stays as it is, the report leaves, or is            *)
(* interrupted, or nothing happens;                                        *)
LEMMA SessionSends ==
    ASSUME IInv, ReportsAwaited, Shape', NEW a \in Agents, AgentStep(a),
           journal'[a] = journal[a], taken' = taken, OthersRest(a)
    PROVE  \/ UNCHANGED Sessions!sessionVars
           \/ Sessions!SendOutcome(a)
           \/ Sessions!Interrupt(a)
<1>0. TypeOK /\ Shape
      BY DEF IInv
<1>1. CASE journal[a] = Null
  <2>1. SessionView' = SessionView
        BY <1>1, SessionChanges
  <2>2. QED
        BY <2>1 DEF Sessions!sessionVars
<1>2. ASSUME journal[a] # Null, ReportPhase(a)' = ReportPhase(a)
      PROVE  UNCHANGED Sessions!sessionVars
  <2>1. SessionView' = SessionView
        BY <1>2, SessionChanges
  <2>2. QED
        BY <2>1 DEF Sessions!sessionVars
<1>3. CASE journal[a] # Null /\ pc[a] # "reporting" /\ pc'[a] # "reporting"
      BY <1>2, <1>3 DEF ReportPhase
<1>4. CASE journal[a] # Null /\ pc[a] # "reporting" /\ pc'[a] = "reporting"
  <2>1. AwaitingAnswer(a, "complete")' = {}
    <3>1. AwaitingAnswer(a, "complete") = {}
          BY <1>4 DEF ReportsAwaited, AnswersReport, AwaitingAnswer
    <3>2. replies' \subseteq replies
          BY <1>0, MessageFate
    <3>3. QED
          BY <3>1, <3>2 DEF AwaitingAnswer
  <2>2. ReportPhase(a) = "unsent" /\ ReportPhase(a)' = "sent"
        BY <1>4, <2>1 DEF ReportPhase
  <2>3. journal[a].stage = "RESULT_SAVED"
        BY <1>4 DEF Shape, Position
  <2>4. ResultOf(journal[a]) # Null
        BY <1>4, <2>3, JournalInHand, SavedOutcome
  <2>5. Sessions!SendOutcome(a)
        BY <1>4, <2>2, <2>3, <2>4, PhaseChanges DEF Sessions!SendOutcome
  <2>6. QED
        BY <2>5
<1>5. CASE journal[a] # Null /\ pc[a] = "reporting" /\ pc'[a] # "reporting"
  <2>1. ReportPhase(a) # "unsent" /\ ReportPhase(a)' = "unsent"
        BY <1>5 DEF ReportPhase
  <2>2. Sessions!Interrupt(a)
        BY <1>5, <2>1, PhaseChanges DEF Sessions!Interrupt
  <2>3. QED
        BY <2>2
<1>6. CASE journal[a] # Null /\ pc[a] = "reporting" /\ pc'[a] = "reporting"
  <2>1. \A p \in replies \ replies' : p.request.op # "complete"
        BY <1>0, <1>6, ReportingFate
  <2>2. replies' \subseteq replies
        BY <1>0, MessageFate
  <2>3. AwaitingAnswer(a, "complete")' = AwaitingAnswer(a, "complete")
        BY <2>1, <2>2 DEF AwaitingAnswer
  <2>4. ReportPhase(a)' = ReportPhase(a)
        BY <1>6, <2>3 DEF ReportPhase, ResultOf
  <2>5. QED
        BY <1>2, <1>6, <2>4
<1>7. QED
      BY <1>1, <1>3, <1>4, <1>5, <1>6

(* a deleted journal ends the session, given up before there was a result  *)
(* or with the answer to its report in hand;                               *)
LEMMA SessionEnds ==
    ASSUME IInv, ReportsAwaited, NEW a \in Agents, Drops(a), journal[a] # Null, taken' = taken,
           OthersRest(a)
    PROVE  Sessions!Drop(a) \/ Sessions!Close(a)
<1> DEFINE j == journal[a]
<1>1. j \in AgentJournal /\ JournalComplete(j) /\ FromClaim(a, j)
      BY JournalInHand
<1>2. /\ SessionView[a] = SessionOf(j, ReportPhase(a))
      /\ SessionView' = [SessionView EXCEPT ![a] = Null]
      BY SessionChanges DEF Drops
<1>3. /\ SessionView[a] # Null /\ SessionView[a].phase = ReportPhase(a)
      /\ j.stage # "RESULT_SAVED" => SessionView[a].outcome = Null
      BY <1>1, <1>2, PhaseType, SessionFields
<1>4. CASE j.stage # "RESULT_SAVED"
      BY <1>2, <1>3, <1>4 DEF Sessions!Drop
<1>5. ASSUME NEW p \in AwaitingAnswer(a, "complete"), pc[a] = "reporting"
      PROVE  Sessions!Close(a)
  <2>1. p.request.leaseId = j.leaseId /\ p.request.result = ResultOf(j)
        BY <1>5 DEF ReportsAwaited, AnswersReport, AwaitingAnswer
  <2>2. ReportPhase(a) = "settled"
        BY <1>5, <2>1 DEF ReportPhase
  <2>3. QED
        BY <1>2, <1>3, <2>2 DEF Sessions!Close
<1>6. QED
      BY <1>4, <1>5 DEF Drops

(* and on the wire, a report settles when its answer or its failure comes  *)
(* back, which nothing else does.                                          *)
LEMMA ReportSettles ==
    ASSUME IInv, ReportsAwaited, WireFate
    PROVE  \/ \A b \in Agents : ReportPhase(b)' = ReportPhase(b)
           \/ \E a \in Agents :
                 /\ journal[a] # Null
                 /\ ReportPhase(a) = "sent" /\ ReportPhase(a)' = "settled"
                 /\ \A b \in Agents \ {a} : ReportPhase(b)' = ReportPhase(b)
<1>1. /\ pc' = pc /\ journal' = journal /\ requests \subseteq Request
      BY DEF WireFate, localVars, IInv, TypeOK
<1>2. ASSUME NEW b, AwaitingAnswer(b, "complete")' = AwaitingAnswer(b, "complete")
      PROVE  ReportPhase(b)' = ReportPhase(b)
      BY <1>1, <1>2 DEF ReportPhase, ResultOf
<1>3. ASSUME NEW r \in requests, NEW p, p.request = r, r.awaited, replies' = replies \cup {p},
             r.op = "complete"
      PROVE  /\ r.agent \in Agents /\ journal[r.agent] # Null
             /\ ReportPhase(r.agent) = "sent" /\ ReportPhase(r.agent)' = "settled"
             /\ \A b \in Agents \ {r.agent} : ReportPhase(b)' = ReportPhase(b)
  <2>1. AwaitsReport(r) /\ r.agent \in Agents
        BY <1>1, <1>3 DEF ReportsAwaited, Request
  <2>2. p \in AwaitingAnswer(r.agent, "complete")'
        BY <1>3 DEF AwaitingAnswer
  <2>3. ReportPhase(r.agent) = "sent"
        BY <2>1 DEF AwaitsReport, ReportPhase
  <2>4. ReportPhase(r.agent)' = "settled"
        BY <1>1, <1>3, <2>1, <2>2 DEF AwaitsReport, ReportPhase, ResultOf
  <2>5. \A b \in Agents \ {r.agent} :
            AwaitingAnswer(b, "complete")' = AwaitingAnswer(b, "complete")
        BY <1>3 DEF AwaitingAnswer
  <2>6. QED
        BY <1>2, <2>1, <2>3, <2>4, <2>5 DEF AwaitsReport
<1>4. ASSUME NEW r \in requests, NEW p, p.request = r, r.awaited, replies' = replies \cup {p},
             r.op # "complete"
      PROVE  \A b \in Agents : ReportPhase(b)' = ReportPhase(b)
  <2>1. \A b : AwaitingAnswer(b, "complete")' = AwaitingAnswer(b, "complete")
        BY <1>4 DEF AwaitingAnswer
  <2>2. QED
        BY <1>2, <2>1
<1>5. ASSUME replies' = replies
      PROVE  \A b \in Agents : ReportPhase(b)' = ReportPhase(b)
  <2>1. \A b : AwaitingAnswer(b, "complete")' = AwaitingAnswer(b, "complete")
        BY <1>5 DEF AwaitingAnswer
  <2>2. QED
        BY <1>2, <2>1
<1>6. ASSUME NEW q \in replies, NEW p, Voided(q, p), NEW b \in Agents
      PROVE  ReportPhase(b)' = ReportPhase(b)
  <2>1. p.request = q.request /\ replies' = (replies \ {q}) \cup {p}
        BY <1>6 DEF Voided
  <2>2. ASSUME NEW l, NEW result
        PROVE  (\E x \in AwaitingAnswer(b, "complete")' :
                    x.request.leaseId = l /\ x.request.result = result)
               <=> (\E x \in AwaitingAnswer(b, "complete") :
                    x.request.leaseId = l /\ x.request.result = result)
        BY <2>1 DEF AwaitingAnswer
  <2>3. QED
        BY <1>1, <2>2 DEF ReportPhase, ResultOf
<1>7. ASSUME NEW r \in requests, NEW p, Answered(r, p) \/ Abandoned(r, p)
      PROVE  \/ replies' = replies
             \/ p.request = r /\ r.awaited /\ replies' = replies \cup {p}
      BY <1>7 DEF Answered, Answers, Abandoned
<1>8. QED
      BY <1>3, <1>4, <1>5, <1>6, <1>7 DEF WireFate

(* So a step of the wire settles one session or none.                      *)
LEMMA SessionSettles ==
    ASSUME IInv, ReportsAwaited, WireFate
    PROVE  UNCHANGED Sessions!sessionVars \/ \E a \in Agents : Sessions!Settle(a)
<1>1. journal' = journal /\ taken' = taken
      BY DEF WireFate, localVars, ghostVars
<1>2. CASE \A b \in Agents : ReportPhase(b)' = ReportPhase(b)
  <2>1. SessionView' = SessionView
        BY <1>1, <1>2 DEF SessionView, ResultOf
  <2>2. QED
        BY <1>1, <2>1 DEF Sessions!sessionVars
<1>3. ASSUME NEW a \in Agents, journal[a] # Null,
             ReportPhase(a) = "sent", ReportPhase(a)' = "settled",
             \A b \in Agents \ {a} : ReportPhase(b)' = ReportPhase(b)
      PROVE  Sessions!Settle(a)
  <2>1. OthersRest(a)
        BY <1>1, <1>3 DEF OthersRest
  <2>2. QED
        BY <1>1, <1>3, <2>1, PhaseChanges DEF Sessions!Settle
<1>4. QED
      BY <1>2, <1>3, ReportSettles

(* Every step of the system is a step of one session or of none.           *)
LEMMA SessionStep ==
    ASSUME IInv, LeasesApart, ReportsAwaited, PollsEmptyHanded, [Next]_vars
    PROVE  [Sessions!SessionNext]_Sessions!sessionVars
<1>1. TypeOK /\ Shape /\ AgentTypeOK /\ Shape'
      BY ShapeStep DEF IInv, TypeOK, AgentTypeOK
<1>2. CASE UNCHANGED agentVars
  <2>1. pc' = pc /\ journal' = journal /\ replies' = replies /\ taken' = taken
        BY <1>2 DEF agentVars, localVars, netVars, ghostVars
  <2>2. \A a : ReportPhase(a)' = ReportPhase(a)
        BY <2>1 DEF ReportPhase, AwaitingAnswer, ResultOf
  <2>3. SessionView' = SessionView
        BY <2>1, <2>2 DEF SessionView, ResultOf
  <2>4. QED
        BY <2>1, <2>3 DEF Sessions!sessionVars
<1>3. CASE WireStep
      BY <1>1, <1>3, WireStepFate, SessionSettles DEF Sessions!SessionNext
<1>4. ASSUME NEW a \in Agents, AgentStep(a)
      PROVE  [Sessions!SessionNext]_Sessions!sessionVars
  <2>1. OthersRest(a)
        BY <1>4, RestOfStep
  <2>2. ASSUME NEW p \in Grants, Takes(a, p)
        PROVE  \E c \in Commands, l \in 1..MaxLeases : Sessions!Begin(a, c, l)
    <3>1. journal[a] = Null
          BY <2>2 DEF Takes, PollsEmptyHanded
    <3>2. QED
          BY <1>1, <2>1, <2>2, <3>1, SessionBegins
  <2>3. ASSUME journal'[a] = journal[a], taken' = taken
        PROVE  UNCHANGED Sessions!sessionVars \/ Sessions!SendOutcome(a) \/ Sessions!Interrupt(a)
        BY <1>1, <1>4, <2>1, <2>3, SessionSends
  <2>4. ASSUME Progresses(a), taken' = taken
        PROVE  UNCHANGED Sessions!sessionVars \/ Sessions!FindOut(a)
        BY <1>1, <1>4, <2>1, <2>4, SessionGoesOn
  <2>5. ASSUME Drops(a), journal'[a] # journal[a], taken' = taken
        PROVE  Sessions!Drop(a) \/ Sessions!Close(a)
    <3>1. journal[a] # Null
          BY <2>5 DEF Drops
    <3>2. QED
          BY <2>1, <2>5, <3>1, SessionEnds
  <2>6. QED
        BY <1>1, <1>4, <2>2, <2>3, <2>4, <2>5, JournalFate DEF Sessions!SessionNext
<1>5. QED
      BY <1>1, <1>2, <1>3, <1>4, StepCases DEF TableStep, vars

(* No agent starts with a session.                                         *)
LEMMA SessionStart == Init => Sessions!SessionInit
BY DEF Init, AgentInit, SessionView, Sessions!SessionInit

(* The agents implement WorkSession: what agent.ts, its executors and its  *)
(* journal do to one claim is to begin it once, to find out one result and *)
(* keep it, to send only that, and to close only when the request that     *)
(* sent just this lease and result was answered or failed - provided that  *)
(* no journal is left behind or passed over by a failed unlink or read.    *)
THEOREM SessionsImplemented == FilesKept /\ Spec => ImplementsSessions
<1>1. Init => PollsEmptyHanded
      BY DEF Init, AgentInit, PollsEmptyHanded
<1>2. FilesKept /\ IInv /\ ReportsAwaited /\ PollsEmptyHanded /\ [Next]_vars => PollsEmptyHanded'
      BY PollsEmptyHandedStep
<1>3. IInv /\ LeasesApart /\ ReportsAwaited /\ PollsEmptyHanded /\ [Next]_vars
          => [Sessions!SessionNext]_Sessions!sessionVars
      BY SessionStep
<1>4. FilesKept => FilesKept'
      BY DEF FilesKept
<1>5. QED
      BY <1>1, <1>2, <1>3, <1>4, SessionStart, SystemInvariant, LeasesStayApart,
         ReportsAreAwaited, PTL
      DEF Spec, ImplementsSessions, Sessions!SessionSpec
=============================================================================
