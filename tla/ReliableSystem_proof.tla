------------------------ MODULE ReliableSystem_proof ------------------------
(***************************************************************************)
(* Proofs about ReliableSystem: the server, the wire and the agents        *)
(* together, for any number of agents and commands, any durations and any  *)
(* faults.                                                                 *)
(*                                                                         *)
(* The first part says what each kind of step can do to the table, to one  *)
(* agent's journal and to the messages (WireFate, JournalFate,             *)
(* MessageFate, ReplyFate, RequestFate); the second proves the inductive   *)
(* invariant IInv from that. SystemSafety_proof proves the safety          *)
(* properties from both.                                                   *)
(***************************************************************************)
EXTENDS ReliableSystem, CommandLifecycle_proof, FiniteSetTheorems

(* A step of the table with no agent and no message: the clock, the start  *)
(* and the stop of the server, a POST /commands.                           *)
TableStep ==
    /\ UNCHANGED agentVars
    /\ \/ Tick
       \/ \E listening \in BOOLEAN : ServerStart(listening)
       \/ ServerStop
       \/ \E c \in Commands, payload \in CommandPayload : CreateCommand(c, payload)

(* A request handled, abandoned or lost on its way, or a reply lost.       *)
WireStep ==
    \/ \E r \in requests : Handle(r)
    \/ /\ UNCHANGED storeVars
       /\ \/ \E r \in requests : RequestLost(r) \/ RequestAbandoned(r)
          \/ \E p \in replies : ReplyLost(p)

(* A step of one agent, whatever drives it: its loop, an interval, an      *)
(* answer, the target's answer, a signal or a fault. It does not touch the *)
(* table.                                                                  *)
AgentStep(a) ==
    \/ StartFresh(a) \/ StartUnread(a)
    \/ RecoverSavedResult(a, now) \/ RecoverDelay(a, now)
    \/ \E deleted \in BOOLEAN :
         DiscardJournal(a, deleted) \/ LeaseCheckFails(a, deleted) \/ JournalNotSaved(a, deleted)
    \/ Stop(a) \/ LoopEnds(a) \/ Crash(a)
    \/ Poll(a) \/ Report(a) \/ Beat(a, now)
    \/ \E date \in Int :
         /\ now - MaxClockSkewMs <= date /\ date <= now + MaxClockSkewMs
         /\ ExecuteDelay(a, now, date)
    \/ ExecuteHttpGetJson(a) \/ FetchUrl(a) \/ HeadersArrive(a)
    \/ FetchSettles(a) \/ BodyEnds(a) \/ WaitElapsed(a, now) \/ SaveDelayResult(a)
    \/ \E p \in replies :
         \/ ClaimRefused(a, p) \/ ClaimNotSaved(a, p) \/ ClaimGranted(a, p, now)
         \/ BeatAnswered(a, p)
         \/ \E deleted \in BOOLEAN : ReportAnswered(a, p, deleted)

(* Next taken apart: every step is of the table, of the wire or of one     *)
(* agent.                                                                  *)
LEMMA StepCases ==
    ASSUME TypeOK, [Next]_vars
    PROVE  \/ UNCHANGED vars
           \/ TableStep
           \/ WireStep
           \/ \E a \in Agents : AgentStep(a) /\ UNCHANGED storeVars
<1> USE DEF TableStep, WireStep, AgentStep
<1>1. CASE TimePasses \/ Starts \/ StartFails \/ Stops
      BY <1>1 DEF TimePasses, Starts, StartFails, Stops
<1>2. CASE \E c \in Commands : Submit(c)
      BY <1>2 DEF Submit
<1>3. CASE NetworkFault \/ \E r \in requests : Handle(r) \/ Refused(r)
      BY <1>3 DEF NetworkFault, Refused
<1>4. ASSUME NEW a \in Agents, AgentRuns(a)
      PROVE  AgentStep(a) /\ UNCHANGED storeVars
  <2>1. PICK skew \in -MaxClockSkewMs..MaxClockSkewMs : LoopStep(a, now, now + skew)
        BY <1>4 DEF AgentRuns
  <2>2. /\ now + skew \in Int
        /\ now - MaxClockSkewMs <= now + skew /\ now + skew <= now + MaxClockSkewMs
        BY SkewAssumption DEF TypeOK, StoreTypeOK, Time
  <2>3. QED
        BY <1>4, <2>1, <2>2 DEF AgentRuns, LoopStep
<1>5. ASSUME NEW a \in Agents,
             AgentStarts(a) \/ AgentBeats(a) \/ AgentHears(a) \/ TargetEnds(a)
      PROVE  AgentStep(a) /\ UNCHANGED storeVars
      BY <1>5 DEF AgentStarts, StartAgent, AgentBeats, AgentHears, TargetEnds
<1>6. ASSUME NEW a \in Agents, AgentFaults(a)
      PROVE  AgentStep(a) /\ UNCHANGED storeVars
      BY <1>6 DEF AgentFaults, SaveFails, DeleteFails
<1>7. QED
      BY <1>1, <1>2, <1>3, <1>4, <1>5, <1>6 DEF Next

-----------------------------------------------------------------------------
(* The places of the loop where the agent holds a command.                 *)
Working == {"claimed", "waiting", "elapsed", "executing", "fetching", "reading",
            "saved", "reporting"}

(* The claims granted whose reply has not been read.                       *)
Grants == {p \in replies : p.status = 200}

(* The part of the types that is about agents and the wire.                *)
AgentTypeOK ==
    /\ pc \in [Agents -> PC]
    /\ running \in [Agents -> BOOLEAN]
    /\ recovering \in [Agents -> BOOLEAN]
    /\ journal \in [Agents -> AgentJournal \cup {Null}]
    /\ timer \in [Agents -> Timer \cup {Null}]
    /\ leaseValid \in [Agents -> BOOLEAN]
    /\ wakeAt \in [Agents -> Time \cup {Null}]
    /\ requests \subseteq Request
    /\ replies \subseteq Reply
    /\ requestCount \in [Commands -> Nat]
    /\ taken \subseteq LeaseId
    /\ leftOver \subseteq Request

(* A journal has what its executor and a recovery will ask of it.          *)
JournalComplete(j) ==
    /\ j.type = "DELAY" => j.scheduledEndAt # Null
    /\ j.stage = "RESULT_SAVED" /\ j.type = "HTTP_GET_JSON" =>
          j.httpSnapshot = [fetchedUnder |-> j.leaseId]

(* Where an agent stands determines what is in its journal, and whether    *)
(* its timers are armed.                                                   *)
Position(a) ==
    /\ pc[a] \in Working => journal[a] # Null
    /\ pc[a] \in {"waiting", "elapsed"} => journal[a].type = "DELAY"
    /\ pc[a] \in {"executing", "fetching", "reading"} => journal[a].type = "HTTP_GET_JSON"
    /\ pc[a] \in {"saved", "reporting"} => journal[a].stage = "RESULT_SAVED"
    /\ pc[a] \in Working \ {"saved", "reporting"} => journal[a].stage # "RESULT_SAVED"
    /\ pc[a] = "waiting" <=> wakeAt[a] # Null
    /\ timer[a] # Null =>
          /\ pc[a] \in Working
          /\ timer[a].leaseId = journal[a].leaseId
          /\ timer[a].commandId = journal[a].commandId
    /\ recovering[a] => pc[a] \in Working

(* Where every agent stands, every journal and every grant on the wire are *)
(* such that the next handler finds in them what it reads.                 *)
Shape ==
    /\ \A a \in Agents : Position(a)
    /\ \A a \in WithJournal : JournalComplete(journal[a])
    /\ \A p \in Grants : p.grant # Null /\ (p.grant.type = "DELAY" => p.grant.scheduledEndAt # Null)

(* A request an agent sends is a request,                                  *)
LEMMA SendType ==
    ASSUME requests \subseteq Request,
           NEW op \in {"claim", "heartbeat", "complete"}, NEW a \in Agents,
           NEW c \in Commands \cup {Null}, NEW l \in LeaseId \cup {Null},
           NEW result \in CommandResult \cup {Null},
           Send(op, a, c, l, result)
    PROVE  requests' \subseteq Request
<1> DEFINE new == [op |-> op, agent |-> a, commandId |-> c, leaseId |-> l,
                   result |-> result, awaited |-> TRUE]
<1>1. new \in Request
  <2>1. TRUE \in BOOLEAN
        OBVIOUS
  <2> HIDE DEF new
  <2>2. QED
        BY <2>1 DEF Request, new
<1>2. requests' = requests \cup {new}
      BY DEF Send
<1> HIDE DEF new
<1>3. QED
      BY <1>1, <1>2

(* and an agent that goes down leaves only requests and replies behind.    *)
LEMMA DisconnectType ==
    ASSUME requests \subseteq Request, replies \subseteq Reply, NEW a \in Agents, Disconnect(a)
    PROVE  requests' \subseteq Request /\ replies' \subseteq Reply
<1>1. ASSUME NEW r \in Request
      PROVE  [r EXCEPT !.awaited = FALSE] \in Request
      BY DEF Request
<1>2. QED
      BY <1>1 DEF Disconnect

(* What journal.ts changes when it moves a journal to another stage,       *)
LEMMA StageFields ==
    ASSUME NEW j \in AgentJournal, NEW stage \in JournalStage
    PROVE  LET k == [j EXCEPT !.stage = stage] IN
           /\ k \in AgentJournal
           /\ k.commandId = j.commandId /\ k.leaseId = j.leaseId /\ k.type = j.type
           /\ k.startedAt = j.startedAt /\ k.scheduledEndAt = j.scheduledEndAt
           /\ k.httpSnapshot = j.httpSnapshot /\ k.stage = stage
BY DEF AgentJournal

(* and when it saves the snapshot of a response.                           *)
LEMMA SnapshotFields ==
    ASSUME NEW j \in AgentJournal
    PROVE  LET k == [j EXCEPT !.httpSnapshot = [fetchedUnder |-> j.leaseId],
                              !.stage        = "RESULT_SAVED"] IN
           /\ k \in AgentJournal
           /\ k.commandId = j.commandId /\ k.leaseId = j.leaseId /\ k.type = j.type
           /\ k.startedAt = j.startedAt /\ k.scheduledEndAt = j.scheduledEndAt
           /\ k.httpSnapshot = [fetchedUnder |-> j.leaseId] /\ k.stage = "RESULT_SAVED"
<1>1. [fetchedUnder |-> j.leaseId] \in HttpGetJsonResult
      BY DEF AgentJournal, HttpGetJsonResult
<1>2. QED
      BY <1>1 DEF AgentJournal, JournalStage

(* The journal a granted claim is written to (agent.ts, createClaimed).    *)
JournalOf(grant) ==
    [commandId      |-> grant.commandId,
     leaseId        |-> grant.leaseId,
     type           |-> grant.type,
     startedAt      |-> grant.startedAt,
     scheduledEndAt |-> grant.scheduledEndAt,
     httpSnapshot   |-> Null,
     stage          |-> "CLAIMED"]

(* It is a journal.                                                        *)
LEMMA GrantedType ==
    ASSUME NEW grant \in Grant
    PROVE  JournalOf(grant) \in AgentJournal
BY DEF JournalOf, Grant, AgentJournal, JournalStage

(* The result read off a journal is a result.                              *)
LEMMA ResultOfType ==
    ASSUME NEW j \in AgentJournal, j.type = "DELAY" => j.scheduledEndAt # Null
    PROVE  ResultOf(j) \in CommandResult \cup {Null}
<1>1. CASE j.type = "HTTP_GET_JSON"
      BY <1>1 DEF ResultOf, AgentJournal, CommandResult
<1>2. CASE j.type = "DELAY"
  <2>1. j.scheduledEndAt \in Int /\ j.startedAt \in Int
        BY <1>2 DEF AgentJournal, Time
  <2>2. ResultOf(j) = [tookMs |-> j.scheduledEndAt - j.startedAt]
        BY <1>2 DEF ResultOf
  <2>3. QED
        BY <2>1, <2>2 DEF CommandResult, DelayResult
<1>3. QED
      BY <1>1, <1>2 DEF AgentJournal

(* A step of one agent leaves the memory and the file of the others alone. *)
LEMMA Others ==
    ASSUME AgentTypeOK, NEW a \in Agents, AgentStep(a), NEW b \in Agents, b # a
    PROVE  /\ pc'[b] = pc[b] /\ running'[b] = running[b] /\ recovering'[b] = recovering[b]
           /\ journal'[b] = journal[b] /\ timer'[b] = timer[b]
           /\ leaseValid'[b] = leaseValid[b] /\ wakeAt'[b] = wakeAt[b]
<1> USE DEF AgentTypeOK, Started, GoTo, Resume, StartHeartbeat, StopHeartbeat, SetStage,
            DeleteJournal, SaveHttpSnapshot, GiveUp, mode, netVars, ghostVars
<1>1. CASE \/ StartFresh(a) \/ StartUnread(a)
           \/ RecoverSavedResult(a, now) \/ RecoverDelay(a, now)
      BY <1>1 DEF StartFresh, StartUnread, RecoverSavedResult, RecoverDelay
<1>2. CASE \E deleted \in BOOLEAN :
               DiscardJournal(a, deleted) \/ LeaseCheckFails(a, deleted) \/ JournalNotSaved(a, deleted)
      BY <1>2 DEF DiscardJournal, LeaseCheckFails, JournalNotSaved
<1>3. CASE Stop(a) \/ LoopEnds(a) \/ Crash(a)
      BY <1>3 DEF Stop, LoopEnds, Crash
<1>4. CASE Poll(a) \/ Report(a) \/ Beat(a, now)
      BY <1>4 DEF Poll, Report, Beat
<1>5. CASE \E date \in Int : ExecuteDelay(a, now, date)
      BY <1>5 DEF ExecuteDelay
<1>6. CASE \/ ExecuteHttpGetJson(a) \/ FetchUrl(a) \/ HeadersArrive(a) \/ FetchSettles(a)
           \/ BodyEnds(a) \/ WaitElapsed(a, now) \/ SaveDelayResult(a)
      BY <1>6 DEF ExecuteHttpGetJson, FetchUrl, HeadersArrive, FetchSettles, BodyEnds,
                  WaitElapsed, SaveDelayResult
<1>7. ASSUME NEW p \in replies,
             \/ ClaimRefused(a, p) \/ ClaimNotSaved(a, p) \/ ClaimGranted(a, p, now)
             \/ BeatAnswered(a, p)
             \/ \E deleted \in BOOLEAN : ReportAnswered(a, p, deleted)
      PROVE  /\ pc'[b] = pc[b] /\ running'[b] = running[b] /\ recovering'[b] = recovering[b]
             /\ journal'[b] = journal[b] /\ timer'[b] = timer[b]
             /\ leaseValid'[b] = leaseValid[b] /\ wakeAt'[b] = wakeAt[b]
      BY <1>7 DEF ClaimRefused, ClaimNotSaved, ClaimGranted, BeatAnswered, ReportAnswered
<1>8. QED
      BY <1>1, <1>2, <1>3, <1>4, <1>5, <1>6, <1>7 DEF AgentStep

(* A step of an agent keeps the types of agents and wire.                  *)
LEMMA AgentTypeStep ==
    ASSUME TypeOK, Shape, NEW a \in Agents, AgentStep(a)
    PROVE  AgentTypeOK'
<1> USE HeartbeatAssumption DEF AgentTypeOK, GoTo, mode, netVars, ghostVars, PC
<1>0. AgentTypeOK /\ now \in Int /\ Position(a)
      BY DEF TypeOK, StoreTypeOK, Time, Shape
<1>a. ASSUME NEW c \in Commands, NEW l \in LeaseId, NEW next \in Int
      PROVE  [commandId |-> c, leaseId |-> l, next |-> next] \in Timer
      BY <1>a DEF Timer, Time
<1>b. journal[a] # Null =>
          /\ journal[a] \in AgentJournal
          /\ journal[a].commandId \in Commands /\ journal[a].leaseId \in LeaseId
          /\ JournalComplete(journal[a])
      BY <1>0 DEF AgentJournal, Shape, WithJournal
<1>c. now + HeartbeatIntervalMs \in Int
      BY <1>0
<1>1. CASE StartFresh(a) \/ StartUnread(a)
      BY <1>0, <1>1 DEF StartFresh, StartUnread, Started
<1>2. CASE RecoverSavedResult(a, now) \/ RecoverDelay(a, now)
  <2>1. timer' \in [Agents -> Timer \cup {Null}]
        BY <1>0, <1>a, <1>b, <1>c, <1>2
        DEF RecoverSavedResult, RecoverDelay, Resume, StartHeartbeat, HasJournal
  <2>2. leaseValid' \in [Agents -> BOOLEAN] /\ running' \in [Agents -> BOOLEAN]
        /\ recovering' \in [Agents -> BOOLEAN]
        BY <1>0, <1>2 DEF RecoverSavedResult, RecoverDelay, Resume, Started, StartHeartbeat
  <2>3. QED
        BY <1>0, <1>2, <2>1, <2>2 DEF RecoverSavedResult, RecoverDelay, Resume
<1>3. CASE \E deleted \in BOOLEAN :
               DiscardJournal(a, deleted) \/ LeaseCheckFails(a, deleted) \/ JournalNotSaved(a, deleted)
      BY <1>0, <1>3 DEF DiscardJournal, DeleteJournal, Started, LeaseCheckFails, JournalNotSaved,
                        GiveUp, StopHeartbeat
<1>4. CASE Stop(a)
      BY <1>0, <1>4 DEF Stop, StopHeartbeat
<1>5. CASE LoopEnds(a) \/ Crash(a)
  <2>1. requests' \subseteq Request /\ replies' \subseteq Reply
        BY <1>0, <1>5, DisconnectType DEF LoopEnds, Crash
  <2>2. QED
        BY <1>0, <1>5, <2>1 DEF LoopEnds, Crash
<1>6. CASE Poll(a)
  <2>1. requests' \subseteq Request
        BY <1>0, <1>6, SendType DEF Poll
  <2>2. QED
        BY <1>0, <1>6, <2>1 DEF Poll
<1>7. CASE Report(a)
  <2>1. journal[a] # Null
        BY <1>0, <1>7 DEF Report, Position, Working
  <2>2. ResultOf(journal[a]) \in CommandResult \cup {Null}
        BY <1>b, <2>1, ResultOfType DEF JournalComplete
  <2>3. requests' \subseteq Request
        BY <1>0, <1>7, <1>b, <2>1, <2>2, SendType DEF Report
  <2>4. timer' \in [Agents -> Timer \cup {Null}]
        BY <1>0, <1>7 DEF Report, StopHeartbeat
  <2>5. QED
        BY <1>0, <1>7, <2>3, <2>4 DEF Report
<1>8. CASE Beat(a, now)
  <2>1. timer[a].commandId \in Commands /\ timer[a].leaseId \in LeaseId /\ timer[a] \in Timer
        BY <1>0, <1>8 DEF Beat, Timer
  <2>2. requests' \subseteq Request
        BY <1>0, <1>8, <2>1, SendType DEF Beat
  <2>3. [timer[a] EXCEPT !.next = now + HeartbeatIntervalMs] \in Timer
        BY <1>c, <2>1 DEF Timer, Time
  <2>4. QED
        BY <1>0, <1>8, <2>2, <2>3 DEF Beat
<1>9. CASE \E date \in Int : ExecuteDelay(a, now, date)
  <2>1. PICK date \in Int : ExecuteDelay(a, now, date)
        BY <1>9
  <2>2. journal' \in [Agents -> AgentJournal \cup {Null}]
        BY <1>0, <1>b, <2>1, StageFields DEF ExecuteDelay, HasJournal, SetStage, JournalStage
  <2>3. journal[a].scheduledEndAt \in Int
        BY <1>b, <2>1 DEF ExecuteDelay, HasJournal, JournalComplete, AgentJournal, Time
  <2>4. now + TimeoutDelay(journal[a].scheduledEndAt - date) \in Int
        BY <1>0, <2>1, <2>3 DEF TimeoutDelay
  <2>5. wakeAt' \in [Agents -> Time \cup {Null}]
        BY <1>0, <2>1, <2>4 DEF ExecuteDelay, Time
  <2>6. QED
        BY <1>0, <2>1, <2>2, <2>5 DEF ExecuteDelay
<1>10. CASE ExecuteHttpGetJson(a)
  <2>1. journal' \in [Agents -> AgentJournal \cup {Null}]
        BY <1>0, <1>10, <1>b, StageFields DEF ExecuteHttpGetJson, HasJournal, SetStage, JournalStage
  <2>2. QED
        BY <1>0, <1>10, <2>1 DEF ExecuteHttpGetJson
<1>11. CASE FetchUrl(a)
      BY <1>0, <1>b, <1>11 DEF FetchUrl, Position, Working
<1>12. CASE HeadersArrive(a) \/ WaitElapsed(a, now)
      BY <1>0, <1>12 DEF HeadersArrive, WaitElapsed
<1>13. CASE FetchSettles(a) \/ BodyEnds(a)
  <2>1. journal' \in [Agents -> AgentJournal \cup {Null}]
        BY <1>0, <1>13, <1>b, SnapshotFields
        DEF FetchSettles, BodyEnds, SaveHttpSnapshot, Position, Working
  <2>2. QED
        BY <1>0, <1>13, <2>1 DEF FetchSettles, BodyEnds, SaveHttpSnapshot
<1>14. CASE SaveDelayResult(a)
  <2>1. journal' \in [Agents -> AgentJournal \cup {Null}]
        BY <1>0, <1>14, <1>b, StageFields DEF SaveDelayResult, SetStage, Position, Working, JournalStage
  <2>2. QED
        BY <1>0, <1>14, <2>1 DEF SaveDelayResult
<1>15. CASE \E p \in replies : ClaimRefused(a, p) \/ ClaimNotSaved(a, p)
      BY <1>0, <1>15 DEF ClaimRefused, ClaimNotSaved
<1>16. ASSUME NEW p \in replies, ClaimGranted(a, p, now)
      PROVE  AgentTypeOK'
  <2>1. p.grant \in Grant
        BY <1>0, <1>16 DEF ClaimGranted, Shape, Grants, Reply
  <2>2. p.grant.commandId \in Commands /\ p.grant.leaseId \in LeaseId
        BY <2>1 DEF Grant
  <2>3. journal' \in [Agents -> AgentJournal \cup {Null}]
        BY <1>0, <1>16, <2>1, GrantedType DEF ClaimGranted, JournalOf
  <2>4. timer' \in [Agents -> Timer \cup {Null}] /\ leaseValid' \in [Agents -> BOOLEAN]
        BY <1>0, <1>16, <1>a, <1>c, <2>2 DEF ClaimGranted, StartHeartbeat
  <2>5. taken' \subseteq LeaseId
        BY <1>0, <1>16, <2>2 DEF ClaimGranted
  <2>6. QED
        BY <1>0, <1>16, <2>3, <2>4, <2>5 DEF ClaimGranted
<1>17. CASE \E p \in replies : BeatAnswered(a, p)
  <2>1. PICK p \in replies : BeatAnswered(a, p)
        BY <1>17
  <2>2. timer' = timer \/ timer' = [timer EXCEPT ![a] = Null]
        BY <2>1 DEF BeatAnswered, StopHeartbeat
  <2>3. leaseValid' = leaseValid \/ leaseValid' = [leaseValid EXCEPT ![a] = FALSE]
        BY <2>1 DEF BeatAnswered
  <2>4. timer' \in [Agents -> Timer \cup {Null}]
        BY <1>0, <2>2
  <2>5. leaseValid' \in [Agents -> BOOLEAN]
        BY <1>0, <2>3
  <2>6. replies' \subseteq replies /\ UNCHANGED <<pc, mode, journal, wakeAt, requests, ghostVars>>
        BY <2>1 DEF BeatAnswered
  <2>7. QED
        BY <1>0, <2>4, <2>5, <2>6
<1>18. CASE \E p \in replies, deleted \in BOOLEAN : ReportAnswered(a, p, deleted)
  <2>1. PICK p \in replies, deleted \in BOOLEAN : ReportAnswered(a, p, deleted)
        BY <1>18
  <2>2. leftOver' \subseteq Request
        BY <1>0, <2>1 DEF ReportAnswered, RecordLeftOver, Reply
  <2>3. QED
        BY <1>0, <2>1, <2>2 DEF ReportAnswered, DeleteJournal, StopHeartbeat
<1>19. QED
      BY <1>1, <1>2, <1>3, <1>4, <1>5, <1>6, <1>7, <1>8, <1>9, <1>10, <1>11, <1>12, <1>13,
         <1>14, <1>15, <1>16, <1>17, <1>18 DEF AgentStep

(* Two journals, or a journal and a grant, of the same claim.              *)
SameWork(j, k) ==
    /\ j.commandId = k.commandId
    /\ j.leaseId = k.leaseId
    /\ j.type = k.type
    /\ j.startedAt = k.startedAt
    /\ j.scheduledEndAt = k.scheduledEndAt

(* A new stage is saved for the same claim,                                *)
LEMMA StageStep ==
    ASSUME AgentTypeOK, NEW a \in Agents, journal[a] # Null,
           NEW stage \in JournalStage, SetStage(a, stage)
    PROVE  /\ journal'[a] \in AgentJournal /\ journal'[a] # Null
           /\ SameWork(journal'[a], journal[a])
           /\ journal'[a].stage = stage /\ journal'[a].httpSnapshot = journal[a].httpSnapshot
<1>1. journal[a] \in AgentJournal
      BY DEF AgentTypeOK
<1>2. journal'[a] = [journal[a] EXCEPT !.stage = stage]
      BY DEF AgentTypeOK, SetStage
<1>3. QED
      BY <1>1, <1>2, StageFields, NullRecordAssumption DEF SameWork

(* and so is a snapshot, under the lease it was fetched with.              *)
LEMMA SnapshotStep ==
    ASSUME AgentTypeOK, NEW a \in Agents, journal[a] # Null, SaveHttpSnapshot(a)
    PROVE  /\ journal'[a] \in AgentJournal /\ journal'[a] # Null
           /\ SameWork(journal'[a], journal[a])
           /\ journal'[a].stage = "RESULT_SAVED"
           /\ journal'[a].httpSnapshot = [fetchedUnder |-> journal[a].leaseId]
<1>1. journal[a] \in AgentJournal
      BY DEF AgentTypeOK
<1>2. journal'[a] = [journal[a] EXCEPT !.httpSnapshot = [fetchedUnder |-> journal[a].leaseId],
                                       !.stage        = "RESULT_SAVED"]
      BY DEF AgentTypeOK, SaveHttpSnapshot
<1>3. QED
      BY <1>1, <1>2, SnapshotFields, NullRecordAssumption DEF SameWork

(* Agent a reads the grant p: the journal is written, the heartbeat armed. *)
Takes(a, p) ==
    /\ p \in Grants
    /\ p.request.agent = a /\ p.request.op = "claim"
    /\ p.grant \in Grant
    /\ pc[a] = "claiming"
    /\ journal'[a] = JournalOf(p.grant)
    /\ journal'[a] \in AgentJournal /\ journal'[a] # Null
    /\ SameWork(journal'[a], p.grant)
    /\ journal'[a].stage = "CLAIMED"
    /\ timer'[a] = [commandId |-> p.grant.commandId, leaseId |-> p.grant.leaseId,
                      next |-> now + HeartbeatIntervalMs]
    /\ replies' = replies \ {p}
    /\ taken' = taken \cup {p.grant.leaseId}
    /\ UNCHANGED <<requests, requestCount, leftOver>>

(* That is what a claim answered with 200 does.                            *)
LEMMA GrantStep ==
    ASSUME TypeOK, Shape, NEW a \in Agents, NEW p \in replies, ClaimGranted(a, p, now)
    PROVE  Takes(a, p)
<1>1. p \in Grants /\ p.request.agent = a /\ p.request.op = "claim"
      BY DEF ClaimGranted, Grants, AwaitingAnswer
<1>2. p.grant \in Grant
      BY <1>1 DEF TypeOK, Shape, Reply, Grants
<1>3. journal'[a] = JournalOf(p.grant)
      BY DEF TypeOK, ClaimGranted, JournalOf
<1>4. timer'[a] = [commandId |-> p.grant.commandId, leaseId |-> p.grant.leaseId,
                   next |-> now + HeartbeatIntervalMs]
      BY DEF TypeOK, ClaimGranted, StartHeartbeat
<1>5. journal'[a] \in AgentJournal /\ journal'[a] # Null
      BY <1>2, <1>3, GrantedType, NullRecordAssumption
<1>6. SameWork(journal'[a], p.grant) /\ journal'[a].stage = "CLAIMED"
      BY <1>3 DEF SameWork, JournalOf
<1>7. QED
      BY <1>1, <1>2, <1>3, <1>4, <1>5, <1>6 DEF Takes, ClaimGranted

(* After a step of an agent the place in the loop fits the journal again.  *)
LEMMA PositionStep ==
    ASSUME TypeOK, Shape, NEW a \in Agents, AgentStep(a)
    PROVE  Position(a)'
<1> USE DEF AgentTypeOK, Position, Working, GoTo, mode, netVars, ghostVars, PC
<1>0. AgentTypeOK /\ Position(a) /\ now \in Int
      BY DEF TypeOK, StoreTypeOK, Time, Shape
<1>1. CASE StartFresh(a) \/ StartUnread(a)
      BY <1>0, <1>1 DEF StartFresh, StartUnread, Started
<1>2. CASE RecoverSavedResult(a, now)
      BY <1>0, <1>2 DEF RecoverSavedResult, Resume, Started, StartHeartbeat
<1>3. CASE RecoverDelay(a, now)
      BY <1>0, <1>3 DEF RecoverDelay, Resume, Started, StartHeartbeat, HasJournal
<1>4. CASE \E deleted \in BOOLEAN : DiscardJournal(a, deleted)
      BY <1>0, <1>4 DEF DiscardJournal, DeleteJournal, Started
<1>5. CASE \E deleted \in BOOLEAN : LeaseCheckFails(a, deleted) \/ JournalNotSaved(a, deleted)
      BY <1>0, <1>5 DEF LeaseCheckFails, JournalNotSaved, GiveUp, StopHeartbeat, DeleteJournal
<1>6. CASE Stop(a)
      BY <1>0, <1>6 DEF Stop, StopHeartbeat
<1>7. CASE LoopEnds(a) \/ Crash(a)
      BY <1>0, <1>7 DEF LoopEnds, Crash
<1>8. CASE Poll(a) \/ FetchUrl(a) \/ HeadersArrive(a)
      BY <1>0, <1>8 DEF Poll, FetchUrl, HeadersArrive
<1>9. CASE Report(a)
      BY <1>0, <1>9 DEF Report, StopHeartbeat
<1>10. CASE Beat(a, now)
  <2>1. timer[a] \in Timer
        BY <1>0, <1>10 DEF Beat
  <2>2. timer'[a].commandId = timer[a].commandId /\ timer'[a].leaseId = timer[a].leaseId
        BY <1>0, <1>10, <2>1 DEF Beat, Timer
  <2>3. QED
        BY <1>0, <1>10, <2>2 DEF Beat
<1>11. ASSUME NEW date \in Int, ExecuteDelay(a, now, date)
       PROVE  Position(a)'
  <2>1. /\ journal'[a] # Null /\ SameWork(journal'[a], journal[a])
        /\ journal'[a].stage = "IN_PROGRESS"
        BY <1>0, <1>11, StageStep DEF ExecuteDelay, HasJournal, JournalStage
  <2>2. journal[a].scheduledEndAt - date <= 0 \/ now + TimeoutDelay(journal[a].scheduledEndAt - date) # Null
    <3>1. journal[a] \in AgentJournal /\ journal[a].scheduledEndAt # Null
          BY <1>0, <1>11 DEF ExecuteDelay, HasJournal, Shape, WithJournal, JournalComplete
    <3>2. journal[a].scheduledEndAt \in Int
          BY <3>1 DEF AgentJournal, Time
    <3>3. QED
          BY <1>0, <3>2, TimeoutAssumption, NullAssumption DEF TimeoutDelay
  <2>3. \/ pc'[a] = "elapsed" /\ wakeAt'[a] = wakeAt[a]
        \/ pc'[a] = "waiting" /\ wakeAt'[a] # Null
        BY <1>0, <1>11, <2>2 DEF ExecuteDelay
  <2>4. journal[a].type = "DELAY" /\ pc[a] = "claimed" /\ timer' = timer /\ recovering' = recovering
        BY <1>11 DEF ExecuteDelay, HasJournal
  <2>5. QED
        BY <1>0, <2>1, <2>3, <2>4 DEF SameWork
<1>12. CASE ExecuteHttpGetJson(a)
  <2>1. /\ journal'[a] # Null /\ SameWork(journal'[a], journal[a])
        /\ journal'[a].stage = "IN_PROGRESS"
        BY <1>0, <1>12, StageStep DEF ExecuteHttpGetJson, HasJournal, JournalStage
  <2>2. QED
        BY <1>0, <1>12, <2>1 DEF ExecuteHttpGetJson, HasJournal, SameWork
<1>13. CASE FetchSettles(a) \/ BodyEnds(a)
  <2>1. /\ journal'[a] # Null /\ SameWork(journal'[a], journal[a])
        /\ journal'[a].stage = "RESULT_SAVED"
        BY <1>0, <1>13, SnapshotStep DEF FetchSettles, BodyEnds
  <2>2. /\ pc'[a] = "saved" /\ pc[a] \in {"fetching", "reading"} /\ timer' = timer
        /\ recovering' = recovering /\ wakeAt' = wakeAt
        BY <1>0, <1>13 DEF FetchSettles, BodyEnds, SaveHttpSnapshot
  <2>3. QED
        BY <1>0, <2>1, <2>2 DEF SameWork
<1>14. CASE SaveDelayResult(a)
  <2>1. /\ journal'[a] # Null /\ SameWork(journal'[a], journal[a])
        /\ journal'[a].stage = "RESULT_SAVED"
        BY <1>0, <1>14, StageStep DEF SaveDelayResult, JournalStage
  <2>2. QED
        BY <1>0, <1>14, <2>1 DEF SaveDelayResult, SameWork
<1>15. CASE WaitElapsed(a, now)
      BY <1>0, <1>15 DEF WaitElapsed
<1>16. CASE \E p \in replies : ClaimRefused(a, p) \/ ClaimNotSaved(a, p)
      BY <1>0, <1>16 DEF ClaimRefused, ClaimNotSaved
<1>17. ASSUME NEW p \in replies, ClaimGranted(a, p, now)
       PROVE  Position(a)'
  <2>1. Takes(a, p)
        BY <1>17, GrantStep
  <2>2. timer'[a].commandId = journal'[a].commandId /\ timer'[a].leaseId = journal'[a].leaseId
        BY <2>1 DEF Takes, SameWork
  <2>3. pc'[a] = "claimed" /\ pc[a] = "claiming" /\ wakeAt' = wakeAt /\ recovering' = recovering
        BY <1>0, <1>17 DEF ClaimGranted
  <2>4. journal'[a] # Null /\ journal'[a].stage = "CLAIMED"
        BY <2>1 DEF Takes
  <2>5. QED
        BY <1>0, <2>2, <2>3, <2>4
<1>18. CASE \E p \in replies : BeatAnswered(a, p)
      BY <1>0, <1>18 DEF BeatAnswered, StopHeartbeat
<1>19. CASE \E p \in replies, deleted \in BOOLEAN : ReportAnswered(a, p, deleted)
      BY <1>0, <1>19 DEF ReportAnswered, DeleteJournal, StopHeartbeat
<1>20. QED
      BY <1>1, <1>2, <1>3, <1>4, <1>5, <1>6, <1>7, <1>8, <1>9, <1>10, <1>11, <1>12, <1>13,
         <1>14, <1>15, <1>16, <1>17, <1>18, <1>19 DEF AgentStep

-----------------------------------------------------------------------------
(* A grant or journal w is of a claim the table granted to a: the command  *)
(* exists, with this type, and was leased no later than now; while the     *)
(* lease is the row's, the row names the agent and the same start.         *)
FromClaim(a, w) ==
    /\ w.leaseId <= lastLease
    /\ w.startedAt <= now
    /\ commands[w.commandId] # Null
    /\ commands[w.commandId].payload.type = w.type
    /\ w.scheduledEndAt = ScheduledEnd(commands[w.commandId].payload, w.startedAt)
    /\ commands[w.commandId].leaseId = w.leaseId =>
          commands[w.commandId].agentId = a /\ commands[w.commandId].startedAt = w.startedAt

(* The result that belongs to a payload and the lease it was worked on     *)
(* under.                                                                  *)
Outcome(payload, lease) ==
    IF payload.type = "DELAY" THEN [tookMs |-> payload.ms] ELSE [fetchedUnder |-> lease]

(* A report carries the result that belongs to its command and its lease.  *)
ReportFromClaim(r) ==
    /\ r.commandId \in Created
    /\ r.leaseId \in 1..lastLease
    /\ r.result = Outcome(commands[r.commandId].payload, r.leaseId)

(* Nothing on the wire and nothing in a file was made up: every grant,     *)
(* every journal and every report goes back to a claim of the table.       *)
Provenance ==
    /\ \A p \in Grants : FromClaim(p.request.agent, p.grant)
    /\ \A a \in WithJournal : FromClaim(a, journal[a])
    /\ \A r \in requests : r.op = "complete" => ReportFromClaim(r)

(* What is known of the table from the proofs about CommandStore.          *)
TableOK == RowsConsistent /\ LeaseExclusive /\ lastLease <= MaxLeases

(* The inductive invariant. The types alone are not inductive: a loop at   *)
(* "saved" reads its journal, which Shape says is there and complete; and  *)
(* a report is typed only because Provenance says whose result it carries. *)
IInv == TypeOK /\ TableOK /\ Shape /\ Provenance

(* As long as a row keeps its lease it keeps the holder and the start.     *)
LEMMA HolderStays ==
    ASSUME StoreTypeOK, [StoreNext]_storeVars, NEW d \in Commands, commands[d] # Null,
           commands[d].leaseId # Null, commands'[d].leaseId = commands[d].leaseId,
           commands[d].leaseId <= lastLease
    PROVE  commands'[d].agentId = commands[d].agentId /\ commands'[d].startedAt = commands[d].startedAt
<1>1. commands[d] \in Row /\ lastLease \in Nat
      BY DEF StoreTypeOK
<1>2. CASE commands'[d] = commands[d]
      BY <1>2
<1>3. ~CreatedNow(d)
      BY DEF CreatedNow
<1>4. ~ClaimedNow(d)
  <2>1. SUFFICES ASSUME ClaimedNow(d)
                 PROVE  commands'[d].leaseId = lastLease + 1
        BY <1>1 DEF Row, LeaseId
  <2>2. QED
        BY <1>1, <2>1 DEF ClaimedNow, Claimed, Row
<1>5. CASE ExtendedNow(d)
      BY <1>1, <1>5 DEF ExtendedNow, Row
<1>6. CASE FinishedNow(d)
      BY <1>1, <1>6 DEF FinishedNow, Finished, Row
<1>7. ~RequeuedNow(d)
  <2>1. SUFFICES ASSUME RequeuedNow(d)
                 PROVE  commands'[d].leaseId = Null
        OBVIOUS
  <2>2. QED
        BY <1>1, <2>1 DEF RequeuedNow, Requeued, Row
<1>8. QED
      BY <1>2, <1>3, <1>4, <1>5, <1>6, <1>7, RowFate

(* Whatever the table does next, work of a claim stays work of that claim. *)
LEMMA FromClaimKept ==
    ASSUME StoreTypeOK, StoreTypeOK', LeaseExclusive, [StoreNext]_storeVars,
           NEW a \in Agents, NEW w, w.commandId \in Commands, w.leaseId \in LeaseId,
           w.startedAt \in Int, FromClaim(a, w)
    PROVE  FromClaim(a, w)'
<1> DEFINE c == w.commandId
<1>1. /\ lastLease \in Nat /\ lastLease' \in Nat /\ lastLease <= lastLease'
      /\ now \in Int /\ now' \in Int /\ now <= now'
      BY LastLeaseGrows, ClockGrows DEF StoreTypeOK, Time
<1>2. c \in Created /\ w.leaseId \in Nat /\ w.leaseId # Null
      BY NullAssumption DEF FromClaim, Created, LeaseId
<1>3. commands'[c] # Null /\ commands'[c].payload = commands[c].payload
      BY <1>2, CreatedStays
<1>4. ASSUME commands'[c].leaseId = w.leaseId
      PROVE  commands'[c].agentId = a /\ commands'[c].startedAt = w.startedAt
  <2>1. commands'[c].leaseId # lastLease + 1
        BY <1>1, <1>2, <1>4 DEF FromClaim
  <2>2. commands[c].leaseId = w.leaseId
        BY <1>2, <1>3, <1>4, <2>1, LeaseFate DEF Created
  <2>3. QED
        BY <1>2, <1>4, <2>2, HolderStays DEF FromClaim, Created
<1>5. w.leaseId <= lastLease' /\ w.startedAt <= now'
      BY <1>1, <1>2 DEF FromClaim
<1>6. QED
      BY <1>3, <1>4, <1>5 DEF FromClaim

(* A current lease is one the server issued.                               *)
LEMMA CurrentLeaseIssued ==
    ASSUME IInv, NEW c, NEW a, NEW l, IsCurrentLease(c, a, l)
    PROVE  c \in Commands /\ l \in 1..lastLease
<1>1. c \in Created /\ c \in Commands /\ commands[c].leaseId = l /\ commands[c].status = "RUNNING"
      BY DEF IsCurrentLease, InStatus, Created
<1>2. l # Null /\ l \in LeaseId \cup {Null}
      BY <1>1 DEF IInv, TableOK, RowsConsistent, RowConsistent, TypeOK, StoreTypeOK, Row, Created
<1>3. l <= lastLease /\ lastLease \in Nat
      BY <1>1, <1>2 DEF IInv, TableOK, LeaseExclusive, TypeOK, StoreTypeOK
<1>4. QED
      BY <1>1, <1>2, <1>3 DEF LeaseId

(* The result of a report is among those complete requests carry.          *)
LEMMA ResultCarried ==
    ASSUME IInv, NEW r \in requests, r.op = "complete"
    PROVE  r.result \in Results
<1>1. /\ r.commandId \in Commands /\ commands[r.commandId] \in Row /\ r.leaseId \in 1..lastLease
      /\ r.result = Outcome(commands[r.commandId].payload, r.leaseId)
      BY DEF IInv, Provenance, ReportFromClaim, TypeOK, StoreTypeOK, Created
<1>2. commands[r.commandId].payload \in CommandPayload
      BY <1>1 DEF Row
<1>3. r.leaseId \in 1..MaxLeases
      BY <1>1, BoundsAssumption DEF IInv, TableOK, TypeOK, StoreTypeOK
<1>4. CASE commands[r.commandId].payload.type = "DELAY"
  <2>1. commands[r.commandId].payload.ms \in DelayMs
        BY <1>2, <1>4 DEF CommandPayload, DelayPayload, HttpGetJsonPayload
  <2>2. r.result \in [tookMs : DelayMs]
        BY <1>1, <1>4, <2>1 DEF Outcome
  <2>3. QED
        BY <2>2, ResultsCarriedAssumption
<1>5. CASE commands[r.commandId].payload.type # "DELAY"
  <2>1. r.result \in [fetchedUnder : 1..MaxLeases]
        BY <1>1, <1>3, <1>5 DEF Outcome
  <2>2. QED
        BY <2>1, ResultsCarriedAssumption
<1>6. QED
      BY <1>4, <1>5

(* Every step of the system is a step of the table, or leaves it alone.    *)
LEMMA StoreStep ==
    ASSUME IInv, [Next]_vars
    PROVE  [StoreNext]_storeVars /\ lastLease' <= MaxLeases
<1>0. TypeOK /\ lastLease <= MaxLeases /\ lastLease \in Nat
      BY DEF IInv, TableOK, TypeOK, StoreTypeOK
<1>1. CASE UNCHANGED storeVars
      BY <1>0, <1>1 DEF storeVars
<1>2. CASE TableStep
  <2>1. [StoreNext]_storeVars
        BY <1>2 DEF TableStep, StoreNext
  <2>2. QED
        BY <1>0, <1>2, <2>1 DEF TableStep, Tick, ServerStart, ServerStop, CreateCommand
<1>3. ASSUME NEW r \in requests, HandleClaim(r)
      PROVE  [StoreNext]_storeVars /\ lastLease' <= MaxLeases
  <2>1. r.agent \in Agents
        BY <1>0 DEF TypeOK, Request
  <2>2. ASSUME NEW c \in Commands, ClaimCommand(c, r.agent, MaxLeaseMs)
        PROVE  StoreNext
        BY <2>1, <2>2, RequestsAssumption DEF StoreNext
  <2>3. ASSUME NEW c \in Commands, ClaimCommand(c, r.agent, MaxLeaseMs)
        PROVE  lastLease' <= MaxLeases
        BY <1>0, <2>3, BoundsAssumption DEF ClaimCommand
  <2>4. QED
        BY <1>1, <1>3, <2>2, <2>3 DEF HandleClaim
<1>4. ASSUME NEW r \in requests, HandleHeartbeat(r)
      PROVE  [StoreNext]_storeVars /\ lastLease' <= MaxLeases
  <2>1. CASE Heartbeat(r.commandId, r.agent, r.leaseId, HeartbeatExtendMs)
    <3>1. r.commandId \in Commands /\ r.leaseId \in 1..lastLease /\ r.agent \in Agents
          BY <1>0, <2>1, CurrentLeaseIssued DEF Heartbeat, TypeOK, Request
    <3>2. StoreNext
          BY <2>1, <3>1, RequestsAssumption DEF StoreNext
    <3>3. QED
          BY <1>0, <2>1, <3>2 DEF Heartbeat
  <2>2. QED
        BY <1>1, <1>4, <2>1 DEF HandleHeartbeat, LeaseConflict
<1>5. ASSUME NEW r \in requests, HandleComplete(r)
      PROVE  [StoreNext]_storeVars /\ lastLease' <= MaxLeases
  <2>1. CASE CompleteCommand(r.commandId, r.agent, r.leaseId, r.result)
    <3>1. r.commandId \in Commands /\ r.leaseId \in 1..lastLease /\ r.agent \in Agents
          BY <1>0, <2>1, CurrentLeaseIssued DEF CompleteCommand, TypeOK, Request
    <3>2. r.result \in Results
          BY <1>5, ResultCarried DEF HandleComplete
    <3>3. StoreNext
          BY <2>1, <3>1, <3>2 DEF StoreNext
    <3>4. QED
          BY <1>0, <2>1, <3>3 DEF CompleteCommand
  <2>2. QED
        BY <1>1, <1>5, <2>1 DEF HandleComplete, LeaseConflict
<1>6. QED
      BY <1>0, <1>1, <1>2, <1>3, <1>4, <1>5, StepCases DEF WireStep, Handle, vars

(* So what was proved of the table holds of the system's table.            *)
LEMMA TableOKStep ==
    ASSUME IInv, [Next]_vars
    PROVE  StoreTypeOK' /\ TableOK'
<1>1. StoreTypeOK /\ RowsConsistent /\ LeaseExclusive
      BY DEF IInv, TypeOK, TableOK
<1>2. [StoreNext]_storeVars /\ lastLease' <= MaxLeases
      BY StoreStep
<1>3. StoreTypeOK'
      BY <1>1, <1>2, TypeStep
<1>4. QED
      BY <1>1, <1>2, <1>3, RowsConsistentStep, LeaseExclusiveStep DEF TableOK

(* The reply p grants a claim in this step.                                *)
GrantedNow(p) ==
    LET c == p.grant.commandId IN
    /\ p.request.op = "claim"
    /\ p.grant \in Grant
    /\ lastLease < MaxLeases
    /\ lastLease' = lastLease + 1
    /\ c \in OldestPending
    /\ commands' = [commands EXCEPT ![c] =
           Claimed(commands[c], p.request.agent, lastLease + 1, now + MaxLeaseMs, now)]
    /\ p.grant.leaseId = lastLease + 1
    /\ p.grant.type = commands[c].payload.type
    /\ p.grant.startedAt = now
    /\ p.grant.scheduledEndAt = ScheduledEnd(commands[c].payload, now)

(* The reply p is the server's answer to r: a grant or an extension was    *)
(* made in the same step, and a heartbeat that extended nothing has a      *)
(* sender who will hear so, or its lease is no longer current.             *)
Answers(r, p) ==
    /\ p \in Reply /\ p.request = r
    /\ p.status = 200 => GrantedNow(p)
    /\ p.status = 204 /\ r.op = "heartbeat" =>
          Heartbeat(r.commandId, r.agent, r.leaseId, HeartbeatExtendMs)
    /\ p.status # 204 /\ r.op = "heartbeat" =>
          r.awaited \/ ~IsCurrentLease(r.commandId, r.agent, r.leaseId)

(* The handler answers; a caller that has hung up does not hear it.        *)
Answered(r, p) ==
    /\ Answers(r, p)
    /\ requests' = requests \ {r}
    /\ replies' = IF r.awaited THEN replies \cup {p} ELSE replies

(* The client gives up on r (status 0); the request itself is still on the *)
(* way.                                                                    *)
Abandoned(r, p) ==
    /\ r.awaited
    /\ p.request = r /\ p.status = 0
    /\ requests' = (requests \ {r}) \cup {[r EXCEPT !.awaited = FALSE]}
    /\ replies' = replies \cup {p}
    /\ UNCHANGED storeVars

(* The reply q is lost; the client sees a network error instead.           *)
Voided(q, p) ==
    /\ p.request = q.request /\ p.status = 0
    /\ requests' = requests
    /\ replies' = (replies \ {q}) \cup {p}
    /\ UNCHANGED storeVars

(* What a step of the wire can be: one of the three above.                 *)
WireFate ==
    /\ UNCHANGED <<localVars, ghostVars>>
    /\ \/ \E r \in requests, p \in Reply : Answered(r, p) \/ Abandoned(r, p)
       \/ \E q \in replies, p \in Reply : Voided(q, p)

(* The reply of the claim handler grants the claim it has just made.       *)
LEMMA GrantNow ==
    ASSUME TypeOK, NEW r \in requests, r.op = "claim",
           NEW c \in Commands, ClaimCommand(c, r.agent, MaxLeaseMs),
           NEW p, p = [request |-> r, status |-> 200, grant |->
                   [commandId      |-> c,
                    leaseId        |-> commands'[c].leaseId,
                    type           |-> commands'[c].payload.type,
                    startedAt      |-> commands'[c].startedAt,
                    scheduledEndAt |-> commands'[c].scheduledEndAt]]
    PROVE  p \in Reply /\ GrantedNow(p)
<1>1. c \in OldestPending /\ commands[c] \in Row /\ lastLease \in Nat /\ now \in Int
      BY DEF ClaimCommand, TypeOK, StoreTypeOK, OldestPending, InStatus, Created, Time
<1>2. commands' = [commands EXCEPT ![c] =
           Claimed(commands[c], r.agent, lastLease + 1, now + MaxLeaseMs, now)]
      BY DEF ClaimCommand, FreshLease
<1>3. commands'[c] = Claimed(commands[c], r.agent, lastLease + 1, now + MaxLeaseMs, now)
      BY <1>2 DEF TypeOK, StoreTypeOK
<1>4. /\ commands'[c].leaseId = lastLease + 1 /\ commands'[c].payload = commands[c].payload
      /\ commands'[c].startedAt = now
      /\ commands'[c].scheduledEndAt = ScheduledEnd(commands[c].payload, now)
      BY <1>1, <1>3 DEF Claimed, Row
<1>5. commands[c].payload \in CommandPayload /\ commands[c].payload.type \in {"DELAY", "HTTP_GET_JSON"}
      BY <1>1 DEF Row, CommandPayload, DelayPayload, HttpGetJsonPayload
<1>6. ScheduledEnd(commands[c].payload, now) \in Time \cup {Null}
      BY <1>1, <1>5, ScheduledEndType DEF Time
<1>7. lastLease + 1 \in LeaseId /\ now \in Time
      BY <1>1 DEF LeaseId, Time
<1>8. p.grant = [commandId      |-> c,
                 leaseId        |-> lastLease + 1,
                 type           |-> commands[c].payload.type,
                 startedAt      |-> now,
                 scheduledEndAt |-> ScheduledEnd(commands[c].payload, now)]
      BY <1>4
<1>9. p.grant \in Grant
      BY <1>5, <1>6, <1>7, <1>8 DEF Grant
<1>10. p \in Reply
       BY <1>9 DEF Reply, Status, TypeOK
<1>11. lastLease < MaxLeases /\ lastLease' = lastLease + 1
       BY DEF ClaimCommand
<1>12. QED
       BY <1>1, <1>2, <1>8, <1>9, <1>10, <1>11 DEF GrantedNow

(* Every handler and every network fault is one of the three.              *)
LEMMA WireStepFate ==
    ASSUME TypeOK, WireStep
    PROVE  WireFate
<1>1. ASSUME NEW r \in Request, NEW status \in Status
      PROVE  [request |-> r, status |-> status, grant |-> Null] \in Reply
      BY DEF Reply
<1>2. requests \subseteq Request /\ replies \subseteq Reply /\ {0, 204, 409} \subseteq Status
      BY DEF TypeOK, Status
<1>3. ASSUME NEW r \in requests, HandleClaim(r), UNCHANGED <<localVars, ghostVars>>
      PROVE  WireFate
  <2>1. ASSUME NEW c \in Commands, ClaimCommand(c, r.agent, MaxLeaseMs),
               Answer(r, 200,
                   [commandId      |-> c,
                    leaseId        |-> commands'[c].leaseId,
                    type           |-> commands'[c].payload.type,
                    startedAt      |-> commands'[c].startedAt,
                    scheduledEndAt |-> commands'[c].scheduledEndAt])
        PROVE  WireFate
    <3> DEFINE p == [request |-> r, status |-> 200, grant |->
                       [commandId      |-> c,
                        leaseId        |-> commands'[c].leaseId,
                        type           |-> commands'[c].payload.type,
                        startedAt      |-> commands'[c].startedAt,
                        scheduledEndAt |-> commands'[c].scheduledEndAt]]
    <3>1. /\ requests' = requests \ {r}
          /\ replies' = IF r.awaited THEN replies \cup {p} ELSE replies
          BY <2>1 DEF Answer
    <3>2. p \in Reply /\ GrantedNow(p)
          BY <1>3, <2>1, GrantNow DEF HandleClaim
    <3>3. p.request = r
          OBVIOUS
    <3> HIDE DEF p
    <3>4. Answers(r, p)
          BY <1>3, <3>2, <3>3 DEF Answers, HandleClaim
    <3>5. QED
          BY <1>3, <3>1, <3>2, <3>4 DEF WireFate, Answered
  <2>2. ASSUME Answer(r, 204, Null)
        PROVE  WireFate
    <3> DEFINE p == [request |-> r, status |-> 204, grant |-> Null]
    <3>1. p \in Reply /\ p.request = r /\ p.status = 204
          BY <1>1, <1>2
    <3>2. /\ requests' = requests \ {r}
          /\ replies' = IF r.awaited THEN replies \cup {p} ELSE replies
          BY <2>2 DEF Answer
    <3> HIDE DEF p
    <3>3. Answers(r, p)
          BY <1>3, <3>1 DEF Answers, HandleClaim
    <3>4. Answered(r, p)
          BY <3>2, <3>3 DEF Answered
    <3>5. QED
          BY <1>3, <3>1, <3>4 DEF WireFate
  <2>3. QED
        BY <1>3, <2>1, <2>2 DEF HandleClaim
<1>4. ASSUME NEW r \in requests, NEW status \in {0, 204, 409}, Answer(r, status, Null),
             UNCHANGED <<localVars, ghostVars>>,
             status = 204 /\ r.op = "heartbeat" =>
                 Heartbeat(r.commandId, r.agent, r.leaseId, HeartbeatExtendMs),
             status # 204 /\ r.op = "heartbeat" =>
                 r.awaited \/ ~IsCurrentLease(r.commandId, r.agent, r.leaseId)
      PROVE  WireFate
  <2> DEFINE p == [request |-> r, status |-> status, grant |-> Null]
  <2>1. p \in Reply /\ p.request = r /\ p.status = status
        BY <1>1, <1>2
  <2>2. /\ requests' = requests \ {r}
        /\ replies' = IF r.awaited THEN replies \cup {p} ELSE replies
        BY <1>4 DEF Answer
  <2> HIDE DEF p
  <2>3. Answers(r, p)
        BY <1>4, <2>1 DEF Answers
  <2>4. Answered(r, p)
        BY <2>2, <2>3 DEF Answered
  <2>5. QED
        BY <1>4, <2>1, <2>4 DEF WireFate
<1>5. ASSUME NEW r \in requests, HandleHeartbeat(r) \/ HandleComplete(r),
             UNCHANGED <<localVars, ghostVars>>
      PROVE  WireFate
      BY <1>4, <1>5 DEF HandleHeartbeat, HandleComplete, LeaseConflict
<1>6. ASSUME NEW r \in requests, RequestLost(r), UNCHANGED storeVars
      PROVE  WireFate
      BY <1>4, <1>6 DEF RequestLost
<1>7. ASSUME NEW r \in requests, RequestAbandoned(r), UNCHANGED storeVars
      PROVE  WireFate
  <2> DEFINE p == [request |-> r, status |-> 0, grant |-> Null]
  <2>1. p \in Reply /\ p.request = r /\ p.status = 0
        BY <1>1, <1>2
  <2>2. /\ requests' = (requests \ {r}) \cup {[r EXCEPT !.awaited = FALSE]}
        /\ replies' = replies \cup {p} /\ r.awaited
        BY <1>7 DEF RequestAbandoned
  <2> HIDE DEF p
  <2>3. QED
        BY <1>7, <2>1, <2>2 DEF WireFate, Abandoned, RequestAbandoned
<1>8. ASSUME NEW q \in replies, ReplyLost(q), UNCHANGED storeVars
      PROVE  WireFate
  <2> DEFINE p == [q EXCEPT !.status = 0, !.grant = Null]
  <2>1. p \in Reply /\ p.request = q.request /\ p.status = 0
        BY <1>2 DEF Reply
  <2>2. /\ requests' = requests /\ q.status # 0
        /\ replies' = (replies \ {q}) \cup {p}
        BY <1>8 DEF ReplyLost
  <2> HIDE DEF p
  <2>3. QED
        BY <1>8, <2>1, <2>2 DEF WireFate, Voided, ReplyLost
<1>9. QED
      BY <1>3, <1>5, <1>6, <1>7, <1>8 DEF WireStep, Handle

-----------------------------------------------------------------------------
(* The work goes on: the same claim, one stage further.                    *)
Progresses(a) ==
    /\ journal[a] # Null /\ journal[a].stage # "RESULT_SAVED"
    /\ journal'[a] # Null /\ journal'[a] \in AgentJournal
    /\ SameWork(journal'[a], journal[a])
    /\ JournalComplete(journal'[a])

(* The journal is deleted: before there is a result, or with the answer to *)
(* the report in hand.                                                     *)
Drops(a) ==
    /\ journal'[a] = Null
    /\ \/ journal[a].stage # "RESULT_SAVED"
       \/ \E p \in AwaitingAnswer(a, "complete") :
             pc[a] = "reporting" /\ replies' = replies \ {p}

(* What a step of an agent does to its own journal: nothing, progress, a   *)
(* deletion, or a new one from a grant.                                    *)
LEMMA JournalFate ==
    ASSUME TypeOK, Shape, NEW a \in Agents, AgentStep(a)
    PROVE  \/ /\ journal'[a] = journal[a] \/ Progresses(a) \/ Drops(a)
              /\ taken' = taken
           \/ \E p \in Grants : Takes(a, p)
<1> USE DEF mode, netVars, ghostVars
<1>0. AgentTypeOK /\ Position(a)
      BY DEF TypeOK, AgentTypeOK, Shape
<1>b. journal[a] # Null => journal[a] \in AgentJournal /\ JournalComplete(journal[a])
      BY <1>0 DEF AgentTypeOK, Shape, WithJournal
<1>1. CASE StartFresh(a) \/ StartUnread(a) \/ RecoverSavedResult(a, now) \/ RecoverDelay(a, now)
      BY <1>1 DEF StartFresh, StartUnread, RecoverSavedResult, RecoverDelay, Resume
<1>2. CASE \E deleted \in BOOLEAN : DiscardJournal(a, deleted)
      BY <1>0, <1>2 DEF DiscardJournal, DeleteJournal, Drops, AgentTypeOK
<1>3. CASE \E deleted \in BOOLEAN : LeaseCheckFails(a, deleted)
      BY <1>0, <1>3 DEF LeaseCheckFails, GiveUp, DeleteJournal, Drops, AgentTypeOK, Position, Working
<1>4. CASE \E deleted \in BOOLEAN : JournalNotSaved(a, deleted)
      BY <1>0, <1>4 DEF JournalNotSaved, GiveUp, DeleteJournal, Drops, AgentTypeOK, Position, Working
<1>5. CASE \/ Stop(a) \/ LoopEnds(a) \/ Crash(a) \/ Poll(a) \/ Report(a) \/ Beat(a, now)
           \/ FetchUrl(a) \/ HeadersArrive(a) \/ WaitElapsed(a, now)
      BY <1>5 DEF Stop, LoopEnds, Crash, Poll, Report, Beat, FetchUrl, HeadersArrive, WaitElapsed
<1>6. ASSUME journal[a] # Null, journal[a].stage # "RESULT_SAVED", taken' = taken,
             NEW stage \in JournalStage, SetStage(a, stage),
             journal[a].type = "DELAY" \/ stage = "IN_PROGRESS"
      PROVE  Progresses(a) /\ taken' = taken
  <2>1. /\ journal'[a] \in AgentJournal /\ journal'[a] # Null
        /\ SameWork(journal'[a], journal[a]) /\ journal'[a].stage = stage
        BY <1>0, <1>6, StageStep
  <2>2. JournalComplete(journal[a])
        BY <1>b, <1>6
  <2>3. QED
        BY <1>6, <2>1, <2>2 DEF Progresses, JournalComplete, SameWork
<1>7. CASE \E date \in Int : ExecuteDelay(a, now, date)
      BY <1>0, <1>6, <1>7 DEF ExecuteDelay, HasJournal, JournalStage, Position, Working
<1>8. CASE ExecuteHttpGetJson(a)
      BY <1>0, <1>6, <1>8 DEF ExecuteHttpGetJson, HasJournal, JournalStage, Position, Working
<1>9. CASE SaveDelayResult(a)
      BY <1>0, <1>6, <1>9 DEF SaveDelayResult, JournalStage, Position, Working
<1>10. CASE FetchSettles(a) \/ BodyEnds(a)
  <2>1. /\ SaveHttpSnapshot(a) /\ journal[a] # Null /\ journal[a].stage # "RESULT_SAVED"
        /\ journal[a].type = "HTTP_GET_JSON"
        BY <1>0, <1>10 DEF FetchSettles, BodyEnds, Position, Working
  <2>2. /\ journal'[a] \in AgentJournal /\ journal'[a] # Null
        /\ SameWork(journal'[a], journal[a])
        /\ journal'[a].httpSnapshot = [fetchedUnder |-> journal[a].leaseId]
        BY <1>0, <2>1, SnapshotStep
  <2>3. taken' = taken
        BY <2>1 DEF SaveHttpSnapshot
  <2>4. QED
        BY <2>1, <2>2, <2>3 DEF Progresses, JournalComplete, SameWork
<1>11. CASE \E p \in replies : ClaimRefused(a, p) \/ ClaimNotSaved(a, p) \/ BeatAnswered(a, p)
       BY <1>11 DEF ClaimRefused, ClaimNotSaved, BeatAnswered
<1>12. ASSUME NEW p \in replies, ClaimGranted(a, p, now)
       PROVE  \E q \in Grants : Takes(a, q)
  <2>1. Takes(a, p)
        BY <1>12, GrantStep
  <2>2. p \in Grants
        BY <1>12 DEF ClaimGranted, Grants
  <2>3. QED
        BY <2>1, <2>2
<1>13. CASE \E p \in replies, deleted \in BOOLEAN : ReportAnswered(a, p, deleted)
  <2>1. PICK p \in replies, deleted \in BOOLEAN : ReportAnswered(a, p, deleted)
        BY <1>13
  <2>2. taken' = taken
        BY <2>1 DEF ReportAnswered
  <2>3. journal'[a] = journal[a] \/ journal'[a] = Null
        BY <1>0, <2>1 DEF ReportAnswered, DeleteJournal, AgentTypeOK
  <2>4. /\ p \in AwaitingAnswer(a, "complete")
        /\ pc[a] = "reporting" /\ replies' = replies \ {p}
        BY <2>1 DEF ReportAnswered
  <2>5. QED
        BY <2>2, <2>3, <2>4 DEF Drops
<1>14. QED
       BY <1>1, <1>2, <1>3, <1>4, <1>5, <1>7, <1>8, <1>9, <1>10, <1>11, <1>12, <1>13 DEF AgentStep

(* The requests an agent can send: a claim; the report of the journal it   *)
(* holds in "saved"; a heartbeat of the armed interval.                    *)
NewRequest(a, r) ==
    /\ r.agent = a /\ r.awaited
    /\ \/ r.op = "claim"
       \/ /\ r.op = "complete"
          /\ pc[a] = "saved" /\ pc'[a] = "reporting" /\ replies' = replies
          /\ journal[a] # Null /\ journal' = journal
          /\ r.commandId = journal[a].commandId
          /\ r.leaseId = journal[a].leaseId
          /\ r.result = ResultOf(journal[a])
       \/ /\ r.op = "heartbeat"
          /\ timer[a] # Null
          /\ r.commandId = timer[a].commandId
          /\ r.leaseId = timer[a].leaseId

(* What a step of an agent does on the wire: it sends one request, reads   *)
(* replies addressed to it, or hangs up as it goes down.                   *)
LEMMA MessageFate ==
    ASSUME TypeOK, Shape, NEW a \in Agents, AgentStep(a)
    PROVE  /\ replies' \subseteq replies
           /\ \A p \in replies \ replies' : p.request.agent = a
           /\ \/ requests' = requests
              \/ \E r \in Request : NewRequest(a, r) /\ requests' = requests \cup {r}
              \/ /\ Disconnect(a) /\ pc'[a] = "down"
                 /\ timer'[a] = Null /\ journal' = journal
<1> USE DEF mode, netVars, ghostVars
<1>0. AgentTypeOK /\ Position(a)
      BY DEF TypeOK, AgentTypeOK, Shape
<1>1. CASE StartFresh(a) \/ StartUnread(a) \/ RecoverSavedResult(a, now) \/ RecoverDelay(a, now)
      BY <1>1 DEF StartFresh, StartUnread, RecoverSavedResult, RecoverDelay, Resume
<1>2. CASE \E deleted \in BOOLEAN :
               DiscardJournal(a, deleted) \/ LeaseCheckFails(a, deleted) \/ JournalNotSaved(a, deleted)
      BY <1>2 DEF DiscardJournal, LeaseCheckFails, JournalNotSaved, GiveUp
<1>3. CASE Stop(a) \/ FetchUrl(a) \/ HeadersArrive(a) \/ WaitElapsed(a, now)
      BY <1>3 DEF Stop, FetchUrl, HeadersArrive, WaitElapsed
<1>4. CASE ExecuteHttpGetJson(a) \/ SaveDelayResult(a) \/ FetchSettles(a) \/ BodyEnds(a)
      BY <1>4 DEF ExecuteHttpGetJson, SaveDelayResult, FetchSettles, BodyEnds, SaveHttpSnapshot
<1>5. CASE \E date \in Int : ExecuteDelay(a, now, date)
      BY <1>5 DEF ExecuteDelay
<1>6. CASE LoopEnds(a) \/ Crash(a)
  <2>1. Disconnect(a) /\ pc'[a] = "down" /\ journal' = journal
        BY <1>0, <1>6 DEF LoopEnds, Crash, GoTo, AgentTypeOK
  <2>2. timer'[a] = Null
        BY <1>0, <1>6 DEF LoopEnds, Crash, AgentTypeOK, Position, Working
  <2>3. QED
        BY <2>1, <2>2 DEF Disconnect
<1>7. requests' \subseteq Request
      BY AgentTypeStep DEF AgentTypeOK
<1>8. CASE Poll(a)
  <2> DEFINE r == [op |-> "claim", agent |-> a, commandId |-> Null, leaseId |-> Null,
                   result |-> Null, awaited |-> TRUE]
  <2>1. /\ requests' = requests \cup {r}
        /\ r.op = "claim" /\ r.agent = a /\ r.awaited
        BY <1>8 DEF Poll, Send
  <2> HIDE DEF r
  <2>2. NewRequest(a, r)
        BY <2>1 DEF NewRequest
  <2>3. QED
        BY <1>7, <1>8, <2>1, <2>2 DEF Poll
<1>9. CASE Report(a)
  <2> DEFINE r == [op |-> "complete", agent |-> a, commandId |-> journal[a].commandId,
                   leaseId |-> journal[a].leaseId, result |-> ResultOf(journal[a]),
                   awaited |-> TRUE]
  <2>1. /\ requests' = requests \cup {r}
        /\ r.op = "complete" /\ r.agent = a /\ r.commandId = journal[a].commandId
        /\ r.leaseId = journal[a].leaseId /\ r.result = ResultOf(journal[a]) /\ r.awaited
        BY <1>9 DEF Report, Send
  <2> HIDE DEF r
  <2>2. /\ pc[a] = "saved" /\ pc'[a] = "reporting" /\ replies' = replies
        /\ journal[a] # Null /\ journal' = journal
        BY <1>0, <1>9 DEF Report, GoTo, AgentTypeOK, Position, Working
  <2>3. NewRequest(a, r)
        BY <2>1, <2>2 DEF NewRequest
  <2>4. QED
        BY <1>7, <2>1, <2>2, <2>3
<1>10. CASE Beat(a, now)
  <2> DEFINE r == [op |-> "heartbeat", agent |-> a, commandId |-> timer[a].commandId,
                   leaseId |-> timer[a].leaseId, result |-> Null, awaited |-> TRUE]
  <2>1. /\ requests' = requests \cup {r}
        /\ r.op = "heartbeat" /\ r.agent = a /\ r.commandId = timer[a].commandId
        /\ r.leaseId = timer[a].leaseId /\ r.awaited
        BY <1>10 DEF Beat, Send
  <2> HIDE DEF r
  <2>2. timer[a] # Null /\ replies' = replies
        BY <1>10 DEF Beat
  <2>3. NewRequest(a, r)
        BY <2>1, <2>2 DEF NewRequest
  <2>4. QED
        BY <1>7, <2>1, <2>2, <2>3
<1>11. CASE \E p \in replies :
                \/ ClaimRefused(a, p) \/ ClaimNotSaved(a, p) \/ ClaimGranted(a, p, now)
                \/ BeatAnswered(a, p)
                \/ \E deleted \in BOOLEAN : ReportAnswered(a, p, deleted)
  <2>1. PICK p \in replies :
                \/ ClaimRefused(a, p) \/ ClaimNotSaved(a, p) \/ ClaimGranted(a, p, now)
                \/ BeatAnswered(a, p)
                \/ \E deleted \in BOOLEAN : ReportAnswered(a, p, deleted)
        BY <1>11
  <2>2. requests' = requests /\ replies' = replies \ {p} /\ p.request.agent = a
        BY <2>1 DEF ClaimRefused, ClaimNotSaved, ClaimGranted, BeatAnswered, ReportAnswered,
                    AwaitingAnswer
  <2>3. QED
        BY <2>2
<1>12. QED
       BY <1>1, <1>2, <1>3, <1>4, <1>5, <1>6, <1>8, <1>9, <1>10, <1>11 DEF AgentStep

-----------------------------------------------------------------------------
(* Every step counts a fault or leaves the counts as they are.             *)
LEMMA FaultCases ==
    ASSUME [Next]_vars
    PROVE  UNCHANGED faults \/ \E kind : Fault(kind)
<1>1. ASSUME NEW a \in Agents,
             \/ AgentStarts(a) \/ AgentRuns(a) \/ AgentBeats(a) \/ AgentHears(a)
             \/ TargetEnds(a) \/ AgentFaults(a)
      PROVE  NoFault \/ \E kind : Fault(kind)
      BY <1>1 DEF AgentStarts, AgentRuns, AgentBeats, AgentHears, TargetEnds, AgentFaults
<1>2. QED
      BY <1>1 DEF Next, vars, TimePasses, Starts, StartFails, Stops, NetworkFault, Submit,
                  Handle, Refused, NoFault

(* Faults are counted, never negative,                                     *)
LEMMA FaultsType ==
    ASSUME TypeOK, [Next]_vars
    PROVE  faults' \in [FaultKinds -> Nat]
BY FaultCases DEF TypeOK, Fault

(* and never forgotten.                                                    *)
LEMMA FaultsGrow ==
    ASSUME TypeOK, [Next]_vars, NEW kind \in FaultKinds
    PROVE  faults[kind] <= faults'[kind] /\ faults[kind] \in Nat /\ faults'[kind] \in Nat
BY FaultCases DEF TypeOK, Fault

(* A step of the wire keeps the types.                                     *)
LEMMA WireType ==
    ASSUME TypeOK, WireFate
    PROVE  AgentTypeOK'
<1>0. requests \subseteq Request /\ replies \subseteq Reply /\ AgentTypeOK
      BY DEF TypeOK, AgentTypeOK
<1>1. ASSUME NEW r \in Request
      PROVE  [r EXCEPT !.awaited = FALSE] \in Request
      BY DEF Request
<1>2. requests' \subseteq Request /\ replies' \subseteq Reply
      BY <1>0, <1>1 DEF WireFate, Answered, Abandoned, Voided
<1>3. QED
      BY <1>0, <1>2 DEF WireFate, AgentTypeOK, localVars, ghostVars

(* Every step of the system keeps the types.                               *)
LEMMA TypeOKStep ==
    ASSUME IInv, [Next]_vars
    PROVE  TypeOK'
<1>1. TypeOK /\ Shape /\ AgentTypeOK
      BY DEF IInv, TypeOK, AgentTypeOK
<1>2. StoreTypeOK' /\ faults' \in [FaultKinds -> Nat]
      BY <1>1, TableOKStep, FaultsType
<1>3. ASSUME UNCHANGED agentVars
      PROVE  AgentTypeOK'
  <2>1. /\ pc' = pc /\ running' = running /\ recovering' = recovering /\ journal' = journal
        /\ timer' = timer /\ leaseValid' = leaseValid /\ wakeAt' = wakeAt
        /\ requests' = requests /\ replies' = replies
        /\ requestCount' = requestCount /\ taken' = taken /\ leftOver' = leftOver
        BY <1>3 DEF agentVars, localVars, netVars, ghostVars
  <2>2. QED
        BY <1>1, <2>1 DEF AgentTypeOK
<1>4. ASSUME WireStep
      PROVE  AgentTypeOK'
      BY <1>1, <1>4, WireStepFate, WireType
<1>5. ASSUME NEW a \in Agents, AgentStep(a)
      PROVE  AgentTypeOK'
      BY <1>1, <1>5, AgentTypeStep
<1>6. AgentTypeOK'
      BY <1>1, <1>3, <1>4, <1>5, StepCases DEF TableStep, vars
<1>7. QED
      BY <1>2, <1>6 DEF TypeOK, AgentTypeOK

(* Where a reply comes from.                                               *)
LEMMA ReplyFate ==
    ASSUME IInv, [Next]_vars, NEW p \in replies'
    PROVE  \/ p \in replies
           \/ \E r \in requests : r.awaited /\ Answers(r, p)
           \/ p.status # 200
<1>1. CASE TableStep \/ UNCHANGED vars
      BY <1>1 DEF TableStep, vars, agentVars, netVars
<1>2. CASE WireStep
  <2>1. WireFate
        BY <1>2, WireStepFate DEF IInv
  <2>2. ASSUME NEW r \in requests, NEW q \in Reply, Answered(r, q)
        PROVE  p \in replies \/ (r.awaited /\ Answers(r, p))
        BY <2>2 DEF Answered
  <2>3. ASSUME NEW r, NEW q \in Reply, Abandoned(r, q) \/ Voided(r, q)
        PROVE  p \in replies \/ p.status # 200
        BY <2>3 DEF Abandoned, Voided
  <2>4. QED
        BY <2>1, <2>2, <2>3 DEF WireFate
<1>3. CASE \E a \in Agents : AgentStep(a)
      BY <1>3, MessageFate DEF IInv
<1>4. QED
      BY <1>1, <1>2, <1>3, StepCases DEF IInv

(* A DELAY has an end, its duration after the start.                       *)
LEMMA ScheduledEndOfDelay ==
    ASSUME NEW payload \in CommandPayload, payload.type = "DELAY", NEW t \in Int
    PROVE  /\ payload.ms \in DelayMs /\ payload.ms \in Int
           /\ ScheduledEnd(payload, t) = t + payload.ms
           /\ ScheduledEnd(payload, t) \in Int /\ ScheduledEnd(payload, t) # Null
<1>1. payload.ms \in DelayMs
      BY DEF CommandPayload, DelayPayload, HttpGetJsonPayload
<1>2. payload.ms \in Int /\ ScheduledEnd(payload, t) = t + payload.ms
      BY <1>1, DelayMsAssumption DEF ScheduledEnd
<1>3. QED
      BY <1>1, <1>2, NullAssumption

(* Every step keeps the shape.                                             *)
LEMMA ShapeStep ==
    ASSUME IInv, [Next]_vars
    PROVE  Shape'
<1>1. TypeOK /\ Shape /\ AgentTypeOK
      BY DEF IInv, TypeOK, AgentTypeOK
<1>2. ASSUME NEW a \in Agents
      PROVE  Position(a)' /\ (journal'[a] # Null => JournalComplete(journal'[a]))
  <2>1. Position(a) /\ (journal[a] # Null => JournalComplete(journal[a]))
        BY <1>1 DEF Shape, WithJournal
  <2>2. CASE UNCHANGED localVars
        BY <2>1, <2>2 DEF localVars, Position
  <2>3. CASE AgentStep(a)
    <3>1. journal'[a] # Null => JournalComplete(journal'[a])
      <4>1. ASSUME NEW p \in Grants, Takes(a, p)
            PROVE  JournalComplete(journal'[a])
            BY <1>1, <4>1 DEF Takes, Shape, JournalComplete, SameWork
      <4>2. QED
            BY <1>1, <2>1, <2>3, <4>1, JournalFate DEF Progresses, Drops
    <3>2. QED
          BY <1>1, <2>3, <3>1, PositionStep
  <2>4. CASE \E b \in Agents : AgentStep(b) /\ b # a
        BY <1>1, <2>1, <2>4, Others DEF Position
  <2>5. QED
        BY <1>1, <2>2, <2>3, <2>4, StepCases, WireStepFate DEF TableStep, WireFate, vars, agentVars
<1>3. ASSUME NEW p \in Grants'
      PROVE  p.grant # Null /\ (p.grant.type = "DELAY" => p.grant.scheduledEndAt # Null)
  <2>1. p \in replies' /\ p.status = 200
        BY DEF Grants
  <2>2. CASE p \in replies
        BY <1>1, <2>1, <2>2 DEF Shape, Grants
  <2>3. CASE \E r \in requests : Answers(r, p)
    <3>1. GrantedNow(p)
          BY <2>1, <2>3 DEF Answers
    <3>2. p.grant \in Grant /\ p.grant # Null
          BY <3>1, NullRecordAssumption DEF GrantedNow
    <3>3. commands[p.grant.commandId].payload \in CommandPayload /\ now \in Int
          BY <1>1, <3>1 DEF GrantedNow, OldestPending, InStatus, Created, TypeOK, StoreTypeOK, Row, Time
    <3>4. QED
          BY <3>1, <3>2, <3>3, ScheduledEndOfDelay DEF GrantedNow
  <2>4. QED
    <3>1. \/ p \in replies
          \/ \E r \in requests : r.awaited /\ Answers(r, p)
          \/ p.status # 200
          BY <2>1, ReplyFate
    <3>2. QED
          BY <2>1, <2>2, <2>3, <3>1
<1>4. QED
      BY <1>2, <1>3 DEF Shape, WithJournal

(* A request and the same one with nobody waiting for the answer.          *)
SameRequest(r, q) ==
    /\ r.op = q.op /\ r.agent = q.agent
    /\ r.commandId = q.commandId /\ r.leaseId = q.leaseId /\ r.result = q.result

(* Hanging up changes nothing else of a request.                           *)
LEMMA Orphaned ==
    ASSUME NEW q \in Request
    PROVE  LET r == [q EXCEPT !.awaited = FALSE] IN SameRequest(r, q) /\ ~r.awaited
BY DEF Request, SameRequest

(* Where a request comes from.                                             *)
LEMMA RequestFate ==
    ASSUME IInv, [Next]_vars, NEW r \in requests'
    PROVE  \/ r \in requests
           \/ ~r.awaited /\ \E q \in requests : SameRequest(r, q)
           \/ \E a \in Agents : AgentStep(a) /\ UNCHANGED storeVars /\ NewRequest(a, r)
<1>1. TypeOK /\ Shape /\ requests \subseteq Request
      BY DEF IInv, TypeOK
<1>2. CASE TableStep \/ UNCHANGED vars
      BY <1>2 DEF TableStep, vars, agentVars, netVars
<1>3. CASE WireStep
  <2>1. WireFate
        BY <1>1, <1>3, WireStepFate
  <2>2. ASSUME NEW s, NEW q \in Reply, Answered(s, q) \/ Voided(s, q)
        PROVE  r \in requests
        BY <2>2 DEF Answered, Voided
  <2>3. ASSUME NEW q \in requests, NEW p \in Reply, Abandoned(q, p)
        PROVE  r \in requests \/ (~r.awaited /\ SameRequest(r, q))
        BY <1>1, <2>3, Orphaned DEF Abandoned
  <2>4. QED
        BY <2>1, <2>2, <2>3 DEF WireFate
<1>4. ASSUME NEW a \in Agents, AgentStep(a), UNCHANGED storeVars
      PROVE  \/ r \in requests
             \/ ~r.awaited /\ \E q \in requests : SameRequest(r, q)
             \/ NewRequest(a, r)
  <2>1. CASE Disconnect(a)
    <3>1. PICK q \in requests : r = IF q.agent = a THEN [q EXCEPT !.awaited = FALSE] ELSE q
          BY <2>1 DEF Disconnect
    <3>2. QED
          BY <1>1, <3>1, Orphaned
  <2>2. QED
        BY <1>1, <1>4, <2>1, MessageFate
<1>5. QED
      BY <1>1, <1>2, <1>3, <1>4, StepCases

(* The result a complete journal holds is the one of its command and       *)
(* lease.                                                                  *)
LEMMA ResultOfClaim ==
    ASSUME TypeOK, NEW a \in Agents, NEW j \in AgentJournal, JournalComplete(j),
           j.stage = "RESULT_SAVED", FromClaim(a, j)
    PROVE  ResultOf(j) = Outcome(commands[j.commandId].payload, j.leaseId)
<1> DEFINE payload == commands[j.commandId].payload
<1>1. j.commandId \in Commands /\ j.startedAt \in Int
      BY DEF AgentJournal, Time
<1>2. payload \in CommandPayload /\ payload.type = j.type
      BY <1>1 DEF FromClaim, TypeOK, StoreTypeOK, Row
<1>3. CASE j.type = "DELAY"
  <2>1. payload.ms \in Int /\ j.scheduledEndAt = j.startedAt + payload.ms
        BY <1>1, <1>2, <1>3, ScheduledEndOfDelay DEF FromClaim
  <2>2. j.scheduledEndAt - j.startedAt = payload.ms
        BY <1>1, <2>1
  <2>3. QED
        BY <1>2, <1>3, <2>2 DEF ResultOf, Outcome
<1>4. CASE j.type = "HTTP_GET_JSON"
      BY <1>2, <1>4 DEF ResultOf, Outcome, JournalComplete
<1>5. QED
      BY <1>1, <1>3, <1>4 DEF AgentJournal

(* Two journals of the same work go back to the same claim.                *)
LEMMA SameClaim ==
    ASSUME NEW a, NEW j, NEW k, SameWork(j, k), FromClaim(a, k)
    PROVE  FromClaim(a, j)
BY DEF SameWork, FromClaim

(* Every step keeps the provenance of the grants,                          *)
LEMMA GrantsStep ==
    ASSUME IInv, [Next]_vars, NEW p \in Grants'
    PROVE  FromClaim(p.request.agent, p.grant)'
<1>1. TypeOK /\ Shape /\ p \in replies' /\ p.status = 200 /\ StoreTypeOK /\ LeaseExclusive
      BY DEF IInv, TypeOK, TableOK, Grants
<1>2. StoreTypeOK' /\ [StoreNext]_storeVars
      BY TableOKStep, StoreStep
<1>3. CASE p \in replies
  <2>1. p \in Grants /\ p.request.agent \in Agents /\ p.grant \in Grant
        BY <1>1, <1>3 DEF Grants, Shape, TypeOK, Reply, Request
  <2>2. p.grant.commandId \in Commands /\ p.grant.leaseId \in LeaseId /\ p.grant.startedAt \in Int
        BY <2>1 DEF Grant, Time
  <2>3. FromClaim(p.request.agent, p.grant)
        BY <2>1 DEF IInv, Provenance
  <2>4. QED
        BY <1>1, <1>2, <2>1, <2>2, <2>3, FromClaimKept
<1>4. CASE GrantedNow(p)
  <2> DEFINE c == p.grant.commandId
  <2>1. c \in Commands /\ commands[c] \in Row /\ lastLease \in Nat /\ now \in Int
        BY <1>1, <1>4 DEF GrantedNow, OldestPending, InStatus, Created, StoreTypeOK, Time
  <2>2. commands'[c] = Claimed(commands[c], p.request.agent, lastLease + 1, now + MaxLeaseMs, now)
        BY <1>1, <1>4, <2>1 DEF GrantedNow, StoreTypeOK
  <2>3. /\ commands'[c].payload = commands[c].payload
        /\ commands'[c].agentId = p.request.agent
        /\ commands'[c].startedAt = now
        BY <2>1, <2>2 DEF Claimed, Row
  <2>4. commands'[c] # Null
        BY <1>2, <2>1, CreatedStays, <1>4, <1>1 DEF GrantedNow, OldestPending, InStatus
  <2>5. now <= now'
        BY <1>1, <1>2, ClockGrows
  <2>6. p.grant.leaseId <= lastLease'
        BY <1>4, <2>1 DEF GrantedNow
  <2>7. p.grant.startedAt = now /\ p.grant.type = commands[c].payload.type
        /\ p.grant.scheduledEndAt = ScheduledEnd(commands[c].payload, now)
        BY <1>4 DEF GrantedNow
  <2>8. QED
        BY <2>3, <2>4, <2>5, <2>6, <2>7 DEF FromClaim
<1>5. QED
      BY <1>1, <1>3, <1>4, ReplyFate DEF Answers

(* of the journals                                                         *)
LEMMA JournalsStep ==
    ASSUME IInv, [Next]_vars, NEW a \in Agents, journal'[a] # Null
    PROVE  FromClaim(a, journal[a])'
<1>1. TypeOK /\ Shape /\ AgentTypeOK /\ StoreTypeOK /\ LeaseExclusive
      BY DEF IInv, TypeOK, AgentTypeOK, TableOK
<1>2. StoreTypeOK' /\ [StoreNext]_storeVars
      BY TableOKStep, StoreStep
<1>3. ASSUME NEW k, k \in AgentJournal \/ k \in Grant, FromClaim(a, k)
      PROVE  FromClaim(a, k)'
  <2>1. k.commandId \in Commands /\ k.leaseId \in LeaseId /\ k.startedAt \in Int
        BY <1>3 DEF AgentJournal, Grant, Time
  <2>2. QED
        BY <1>1, <1>2, <1>3, <2>1, FromClaimKept
<1>4. ASSUME NEW k, k \in AgentJournal \/ k \in Grant, FromClaim(a, k), SameWork(journal'[a], k)
      PROVE  FromClaim(a, journal[a])'
      BY <1>3, <1>4 DEF SameWork, FromClaim
<1>5. journal[a] # Null => journal[a] \in AgentJournal /\ FromClaim(a, journal[a])
      BY DEF IInv, TypeOK, Provenance, WithJournal
<1>6. CASE journal'[a] = journal[a]
      BY <1>4, <1>5, <1>6 DEF SameWork
<1>7. CASE AgentStep(a)
  <2>1. ASSUME NEW p \in Grants, Takes(a, p)
        PROVE  FromClaim(a, journal[a])'
    <3>1. p.grant \in Grant /\ SameWork(journal'[a], p.grant) /\ FromClaim(a, p.grant)
          BY <2>1 DEF Takes, IInv, Provenance
    <3>2. QED
          BY <1>4, <3>1
  <2>2. CASE Progresses(a)
        BY <1>4, <1>5, <2>2 DEF Progresses
  <2>3. ~Drops(a)
        BY DEF Drops
  <2>4. QED
        BY <1>1, <1>6, <1>7, <2>1, <2>2, <2>3, JournalFate
<1>8. CASE \E b \in Agents : AgentStep(b) /\ b # a
      BY <1>1, <1>6, <1>8, Others
<1>9. CASE UNCHANGED localVars
      BY <1>6, <1>9 DEF localVars
<1>10. QED
       BY <1>1, <1>7, <1>8, <1>9, StepCases, WireStepFate DEF TableStep, WireFate, vars, agentVars

(* and of the reports.                                                     *)
LEMMA ReportsStep ==
    ASSUME IInv, [Next]_vars, NEW r \in requests', r.op = "complete"
    PROVE  ReportFromClaim(r)'
<1>1. TypeOK /\ Shape /\ StoreTypeOK /\ LeaseExclusive
      BY DEF IInv, TypeOK, TableOK
<1>2. StoreTypeOK' /\ [StoreNext]_storeVars
      BY TableOKStep, StoreStep
<1>3. lastLease \in Nat /\ lastLease' \in Nat /\ lastLease <= lastLease'
      BY <1>1, <1>2, LastLeaseGrows DEF StoreTypeOK
<1>4. ASSUME NEW q, ReportFromClaim(q), SameRequest(r, q)
      PROVE  ReportFromClaim(r)'
  <2>1. q.commandId \in Created /\ q.commandId \in Commands
        BY <1>4 DEF ReportFromClaim, Created
  <2>2. /\ commands'[q.commandId] # Null
        /\ commands'[q.commandId].payload = commands[q.commandId].payload
        BY <1>1, <1>2, <2>1, CreatedStays
  <2>3. q.leaseId \in 1..lastLease'
        BY <1>3, <1>4 DEF ReportFromClaim
  <2>4. QED
        BY <1>4, <2>1, <2>2, <2>3 DEF ReportFromClaim, SameRequest, Created
<1>5. CASE r \in requests
      BY <1>4, <1>5 DEF IInv, Provenance, SameRequest
<1>6. CASE \E q \in requests : SameRequest(r, q)
  <2>1. PICK q \in requests : SameRequest(r, q)
        BY <1>6
  <2>2. q.op = "complete"
        BY <2>1 DEF SameRequest
  <2>3. QED
        BY <1>4, <2>1, <2>2 DEF IInv, Provenance
<1>7. ASSUME NEW a \in Agents, NewRequest(a, r), UNCHANGED storeVars
      PROVE  ReportFromClaim(r)'
  <2>1. /\ pc[a] = "saved" /\ journal[a] # Null
        /\ r.commandId = journal[a].commandId /\ r.leaseId = journal[a].leaseId
        /\ r.result = ResultOf(journal[a])
        BY <1>7 DEF NewRequest
  <2>2. /\ JournalComplete(journal[a]) /\ journal[a].stage = "RESULT_SAVED"
        /\ FromClaim(a, journal[a]) /\ journal[a] \in AgentJournal
        BY <1>1, <2>1 DEF Shape, Position, WithJournal, IInv, Provenance, TypeOK
  <2>3. r.result = Outcome(commands[r.commandId].payload, r.leaseId)
        BY <1>1, <2>1, <2>2, ResultOfClaim
  <2>4. r.commandId \in Commands /\ r.leaseId \in LeaseId /\ r.leaseId <= lastLease
        /\ commands[r.commandId] # Null
        BY <2>1, <2>2 DEF AgentJournal, FromClaim
  <2>5. r.leaseId \in 1..lastLease
        BY <1>3, <2>4 DEF LeaseId
  <2>6. QED
        BY <1>7, <2>3, <2>4, <2>5 DEF ReportFromClaim, Created, storeVars
<1>8. QED
      BY <1>5, <1>6, <1>7, RequestFate

(* The invariant is inductive:                                             *)
LEMMA IInvStep == IInv /\ [Next]_vars => IInv'
<1> SUFFICES ASSUME IInv, [Next]_vars PROVE IInv'
    OBVIOUS
<1>1. Provenance'
      BY GrantsStep, JournalsStep, ReportsStep DEF Provenance, WithJournal
<1>2. QED
      BY <1>1, TypeOKStep, TableOKStep, ShapeStep DEF IInv

(* it holds at the start, and every step keeps it.                         *)
LEMMA IInvInit == Init => IInv
<1> SUFFICES ASSUME Init PROVE IInv
    OBVIOUS
<1>1. TypeOK
  <2>1. StoreTypeOK
    <3>1. commands \in [Commands -> Row \cup {Null}]
          BY DEF Init, StoreInit
    <3>2. now \in Time /\ lastLease \in Nat
          BY DEF Init, StoreInit, Time
    <3>3. serverUp \in BOOLEAN
          BY DEF Init, StoreInit
    <3>4. QED
          BY <3>1, <3>2, <3>3 DEF StoreTypeOK
  <2>2. AgentTypeOK
        BY DEF Init, AgentInit, AgentTypeOK, PC
  <2>3. faults \in [FaultKinds -> Nat]
        BY DEF Init
  <2>4. QED
        BY <2>1, <2>2, <2>3 DEF TypeOK, AgentTypeOK
<1>2. TableOK
      BY BoundsAssumption DEF Init, StoreInit, TableOK, RowsConsistent, LeaseExclusive, Created
<1>3. Shape
      BY DEF Init, AgentInit, Shape, Position, Working, WithJournal, Grants
<1>4. Provenance
      BY DEF Init, AgentInit, Provenance, WithJournal, Grants
<1>5. QED
      BY <1>1, <1>2, <1>3, <1>4 DEF IInv

(* In every reachable state of server, wire and agents the variables are   *)
(* typed, agents stand where their journals say, and every grant, journal  *)
(* and report belongs to a claim of the table (IInv), for any number of    *)
(* agents and commands, any faults and any durations.                      *)
THEOREM SystemInvariant == Spec => []IInv
BY IInvInit, IInvStep, PTL DEF Spec

(* The variables of the whole system always hold values of their types.    *)
THEOREM SystemTypeCorrect == Spec => []TypeOK
BY SystemInvariant, PTL DEF IInv

(* The table inside the system is the table of CommandStore: no handler of *)
(* the system does to it what StoreNext does not. Every theorem of         *)
(* CommandStore_proof therefore holds of the system.                       *)
THEOREM SystemRunsTable == Spec => StoreSpec
<1>1. Init => StoreInit
      BY DEF Init
<1>2. IInv /\ [Next]_vars => [StoreNext]_storeVars
      BY StoreStep
<1>3. QED
      BY <1>1, <1>2, SystemInvariant, PTL DEF Spec, StoreSpec

(* And what clients are promised of a command holds with agents that       *)
(* crash, repeat their reports and come late: the table of the system      *)
(* implements CommandLifecycle.                                            *)
THEOREM SystemImplementsLifecycle == Spec => ImplementsLifecycle
BY SystemRunsTable, TableImplementsLifecycle
=============================================================================
