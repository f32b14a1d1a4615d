--------------------------- MODULE ReliableSystem ---------------------------
(***************************************************************************)
(* The control server and its agents together: the agents of Agent send    *)
(* requests to the table of CommandStore, the server handles them one at a *)
(* time in any order, and either side may stop at any point and start      *)
(* again.  Faults - a process that dies, a request or an answer that is    *)
(* lost, a journal that cannot be written, deleted or read, an agent that  *)
(* is told to stop - are the kinds named by "Faults", at most MaxFaults of *)
(* them in one behaviour.                                                  *)
(*                                                                         *)
(* "now" is the server's clock and the time that passes; the wall clock an *)
(* agent reads may be off by MaxClockSkewMs either way at any moment.      *)
(***************************************************************************)
EXTENDS CommandStore, Agent, Functions

CONSTANTS
    MaxLeaseMs,       \* the agents' --max-lease-ms
    Faults,           \* kinds of fault that may happen
    MaxFaults,        \* bound: faults in one behaviour
    MaxClockSkewMs,   \* how far an agent's Date.now() may be off the server's
    QuietAfter        \* bound: later the clock moves only for a waiting agent

(* Mutant: a heartbeat extends the lease to the next heartbeat.            *)
ExtendOnce == HeartbeatIntervalMs

(* server-client.ts:19 and :78                                             *)
HeartbeatExtendMs == 3 * HeartbeatIntervalMs

FaultKinds == {"agent", "server", "network", "save", "delete", "read", "stop"}

ASSUME FaultsAssumption == Faults \subseteq FaultKinds

ASSUME SkewAssumption == MaxClockSkewMs \in Nat

ASSUME RequestsAssumption ==
    /\ MaxLeaseMs \in LeaseMs
    /\ HeartbeatExtendMs \in ExtendMs

(* The server asks nothing of a result; these are what agents send.        *)
ASSUME ResultsCarriedAssumption ==
    [tookMs : DelayMs] \cup [fetchedUnder : 1..MaxLeases] \subseteq Results

VARIABLE faults     \* how many faults of each kind have happened

vars == <<storeVars, agentVars, faults>>

Fault(kind) ==
    /\ kind \in Faults
    /\ SumFunction(faults) < MaxFaults
    /\ faults' = [faults EXCEPT ![kind] = @ + 1]

NoFault == UNCHANGED faults

Faulted == {kind \in FaultKinds : faults[kind] > 0}

-----------------------------------------------------------------------------
Init ==
    /\ StoreInit
    /\ AgentInit
    /\ faults = [kind \in FaultKinds |-> 0]

(* A client posts a command.                                               *)
Submit(c) ==
    /\ \E payload \in CommandPayload : CreateCommand(c, payload)
    /\ UNCHANGED agentVars
    /\ NoFault

TimePasses ==
    /\ now < QuietAfter \/ \E a \in Agents : wakeAt[a] # Null /\ wakeAt[a] > now
    /\ Tick
    /\ UNCHANGED agentVars
    /\ NoFault

Starts ==
    /\ ServerStart(TRUE)
    /\ UNCHANGED agentVars
    /\ NoFault

(* The port cannot be opened: recovery has already run.                    *)
StartFails ==
    /\ ServerStart(FALSE)
    /\ UNCHANGED agentVars
    /\ Fault("server")

Stops ==
    /\ ServerStop
    /\ UNCHANGED agentVars
    /\ Fault("server")

-----------------------------------------------------------------------------
(* The handlers of routes/commands.ts.                                     *)
HandleClaim(r) ==
    /\ r.op = "claim"
    /\ serverUp
    /\ \/ \E c \in Commands :
            /\ ClaimCommand(c, r.agent, MaxLeaseMs)
            /\ Answer(r, 200,
                   [commandId      |-> c,
                    leaseId        |-> commands'[c].leaseId,
                    type           |-> commands'[c].payload.type,
                    startedAt      |-> commands'[c].startedAt,
                    scheduledEndAt |-> commands'[c].scheduledEndAt])
       \/ /\ InStatus("PENDING") = {}
          /\ Answer(r, 204, Null)
          /\ UNCHANGED storeVars

(* LeaseConflictError becomes a 409.                                       *)
LeaseConflict(r) ==
    /\ ~IsCurrentLease(r.commandId, r.agent, r.leaseId)
    /\ Answer(r, 409, Null)
    /\ UNCHANGED storeVars

HandleHeartbeat(r) ==
    /\ r.op = "heartbeat"
    /\ serverUp
    /\ \/ /\ Heartbeat(r.commandId, r.agent, r.leaseId, HeartbeatExtendMs)
          /\ Answer(r, 204, Null)
       \/ LeaseConflict(r)

HandleComplete(r) ==
    /\ r.op = "complete"
    /\ serverUp
    /\ \/ /\ CompleteCommand(r.commandId, r.agent, r.leaseId, r.result)
          /\ Answer(r, 204, Null)
       \/ LeaseConflict(r)

Handle(r) ==
    /\ HandleClaim(r) \/ HandleHeartbeat(r) \/ HandleComplete(r)
    /\ UNCHANGED <<localVars, ghostVars>>
    /\ NoFault

(* Nobody listens on the port.                                             *)
Refused(r) ==
    /\ ~serverUp
    /\ RequestLost(r)
    /\ UNCHANGED storeVars
    /\ NoFault

NetworkFault ==
    /\ \/ \E r \in requests : RequestLost(r) \/ RequestAbandoned(r)
       \/ \E p \in replies : ReplyLost(p)
    /\ UNCHANGED storeVars
    /\ Fault("network")

-----------------------------------------------------------------------------
AgentStarts(a) ==
    /\ StartAgent(a, now)
    /\ UNCHANGED storeVars
    /\ NoFault

AgentRuns(a) ==
    /\ \E skew \in -MaxClockSkewMs..MaxClockSkewMs : LoopStep(a, now, now + skew)
    /\ UNCHANGED storeVars
    /\ NoFault

AgentBeats(a) ==
    /\ Beat(a, now)
    /\ UNCHANGED storeVars
    /\ NoFault

AgentHears(a) ==
    /\ \E p \in replies : BeatAnswered(a, p)
    /\ UNCHANGED storeVars
    /\ NoFault

(* The target of an HTTP_GET_JSON sends the end of the body it began.      *)
TargetEnds(a) ==
    /\ BodyEnds(a)
    /\ UNCHANGED storeVars
    /\ NoFault

AgentFaults(a) ==
    /\ \/ Crash(a) /\ Fault("agent")
       \/ Stop(a) /\ Fault("stop")
       \/ SaveFails(a) /\ Fault("save")
       \/ DeleteFails(a) /\ Fault("delete")
       \/ StartUnread(a) /\ Fault("read")
    /\ UNCHANGED storeVars

Next ==
    \/ TimePasses
    \/ Starts \/ StartFails \/ Stops
    \/ NetworkFault
    \/ \E c \in Commands : Submit(c)
    \/ \E r \in requests : Handle(r) \/ Refused(r)
    \/ \E a \in Agents :
         \/ AgentStarts(a) \/ AgentRuns(a) \/ AgentBeats(a) \/ AgentHears(a)
         \/ TargetEnds(a) \/ AgentFaults(a)

Spec == Init /\ [][Next]_vars

ServerAnswers(a, op) ==
    \E r \in requests :
        /\ r.agent = a
        /\ r.op = op
        /\ r.awaited
        /\ Handle(r) \/ Refused(r)

(* Every process runs: the event loops of agents and server turn, the      *)
(* server answers what an agent awaits or the connection is refused, and a *)
(* process that died is started again (restart: unless-stopped in          *)
(* docker-compose.yml).  Of the outside world only this is assumed: a      *)
(* target ends the body it began, which the code does not bound.  Nothing  *)
(* is assumed of requests nobody awaits, of clients, or of how promptly    *)
(* heartbeats are sent.  An agent that starts again is the same member of  *)
(* Agents: its id was configured (AGENT_ID or --agent-id), which the       *)
(* compose file does not do; with the default, a random id for each start, *)
(* the journal of the process that died is never looked at again.          *)
Fairness ==
    /\ WF_vars(TimePasses)
    /\ WF_vars(Starts)
    /\ \A a \in Agents :
         /\ \A op \in {"claim", "heartbeat", "complete"} : WF_vars(ServerAnswers(a, op))
         /\ WF_vars(AgentStarts(a))
         /\ WF_vars(AgentRuns(a))
         /\ WF_vars(AgentHears(a))
         /\ WF_vars(TargetEnds(a))

FairSpec == Spec /\ Fairness

-----------------------------------------------------------------------------
(* Type invariant.                                                         *)
TypeOK ==
    /\ StoreTypeOK
    /\ pc \in [Agents -> PC]
    /\ running \in [Agents -> BOOLEAN]
    /\ recovering \in [Agents -> BOOLEAN]
    /\ journal \in [Agents -> AgentJournal \cup {Null}]
    /\ timer \in [Agents -> Timer \cup {Null}]
    /\ leaseValid \in [Agents -> BOOLEAN]
    /\ wakeAt \in [Agents -> Time \cup {Null}]
    /\ requests \subseteq Request
    /\ replies \subseteq Reply
    /\ requestCount \in [Commands -> Nat]
    /\ taken \subseteq LeaseId
    /\ leftOver \subseteq Request
    /\ faults \in [FaultKinds -> Nat]

WithJournal == {a \in Agents : journal[a] # Null}

(* Two agents never work under the same lease, whatever was lost, repeated *)
(* or restarted; and an agent's journal is about the claim the table       *)
(* records for that lease: same holder, same start, same scheduled end.    *)
JournalsMatchTable ==
    /\ \A a, b \in WithJournal : a # b => journal[a].leaseId # journal[b].leaseId
    /\ \A a \in WithJournal :
          LET row == commands[journal[a].commandId] IN
          /\ row # Null
          /\ row.leaseId = journal[a].leaseId =>
                /\ row.agentId = a
                /\ row.payload.type = journal[a].type
                /\ row.startedAt = journal[a].startedAt
                /\ row.scheduledEndAt = journal[a].scheduledEndAt

(* The stored result is the work of the claim that holds the row: a DELAY  *)
(* reports its own duration, and an HTTP body was fetched under the lease  *)
(* it was accepted for, never under one revoked before.                    *)
ResultMatchesLease ==
    \A c \in InStatus("COMPLETED") :
        commands[c].result =
            IF commands[c].payload.type = "DELAY"
            THEN [tookMs |-> commands[c].payload.ms]
            ELSE [fetchedUnder |-> commands[c].leaseId]

(* A claim leads to at most one GET of the URL: crashing, recovering and   *)
(* reporting again never fetches a second time under the same lease.       *)
OneFetchPerClaim ==
    \A c \in Created : requestCount[c] <= commands[c].attempt

(* A DELAY is never reported before its scheduled end, even by an agent    *)
(* that crashed and resumed the wait from its journal: it is early by no   *)
(* more than the clocks differ.  (setTimeout fires at once for a longer    *)
(* delay than it can hold; see claim LongDelayNotEarly.)                   *)
DelayNotEarly ==
    \A c \in InStatus("COMPLETED") :
        /\ commands[c].payload.type = "DELAY"
        /\ commands[c].payload.ms + MaxClockSkewMs <= MaxTimeoutMs
        => commands[c].scheduledEndAt <= now + MaxClockSkewMs

(* server-client.ts:17: "Using 3x gives headroom for network delays and    *)
(* processing time".  While an agent beats and the server has answered all *)
(* its heartbeats, its lease survives two more intervals without a beat -  *)
(* unless none has been accepted yet and the claim's own maxLeaseMs is     *)
(* what counts.  (An agent that recovers beats first one interval after    *)
(* its start, however little is left of the lease by then.)                *)
BeatsKeepLease ==
    \A a \in Agents :
        /\ timer[a] # Null
        /\ ~recovering[a]
        /\ IsCurrentLease(timer[a].commandId, a, timer[a].leaseId)
        /\ \A r \in requests : r.agent = a => r.op # "heartbeat"
        /\ AwaitingAnswer(a, "heartbeat") = {}
        /\ now < timer[a].next + 2 * HeartbeatIntervalMs
        => LET row == commands[timer[a].commandId] IN
           row.leaseExpiresAt > now \/ row.leaseExpiresAt = row.startedAt + MaxLeaseMs

(* While the heartbeat interval is armed, it beats for the command in the  *)
(* journal: no lease is kept alive for work already reported or dropped.   *)
HeartbeatMatchesJournal ==
    \A a \in Agents : timer[a] # Null =>
        /\ a \in WithJournal
        /\ timer[a].leaseId = journal[a].leaseId
        /\ timer[a].commandId = journal[a].commandId

(* A result on its way to the server is the one in the journal, so a crash *)
(* before the answer can report the same result again.                     *)
ReportIsSaved ==
    \A r \in requests : r.op = "complete" /\ r.awaited =>
        /\ r.agent \in WithJournal
        /\ journal[r.agent].stage = "RESULT_SAVED"
        /\ journal[r.agent].leaseId = r.leaseId
        /\ ResultOf(journal[r.agent]) = r.result

(* A saved result leaves the journal only when the request that reported   *)
(* exactly that lease was answered or failed: no crash, stop, recovery or  *)
(* later claim drops or replaces it before.  What a failed delete left     *)
(* behind after such a report may be overwritten; and a journal that could *)
(* not be read at a start, which agent.ts takes for none, is excepted.     *)
SavedResultKept ==
    [][\A a \in WithJournal :
          journal[a].stage = "RESULT_SAVED" /\ journal'[a] # journal[a] =>
              \/ /\ journal'[a] = Null
                 /\ \E p \in AwaitingAnswer(a, "complete") :
                       p.request.leaseId = journal[a].leaseId
              \/ \E r \in leftOver :
                    r.leaseId = journal[a].leaseId /\ r.result = ResultOf(journal[a])
              \/ "read" \in Faulted]_vars

(* How far the report of an agent's journal has come: the request left,    *)
(* and an answer or a failure for just this lease and result came back.    *)
ReportPhase(a) ==
    IF pc[a] # "reporting" THEN "unsent"
    ELSE IF \E p \in AwaitingAnswer(a, "complete") :
               /\ p.request.leaseId = journal[a].leaseId
               /\ p.request.result = ResultOf(journal[a])
         THEN "settled"
         ELSE "sent"

(* What the work session specification sees of an agent.                   *)
SessionView ==
    [a \in Agents |->
        IF journal[a] = Null
        THEN Null
        ELSE [commandId |-> journal[a].commandId,
              leaseId   |-> journal[a].leaseId,
              outcome   |-> IF journal[a].stage = "RESULT_SAVED"
                            THEN ResultOf(journal[a])
                            ELSE Null,
              phase     |-> ReportPhase(a)]]

Sessions == INSTANCE WorkSession WITH
    session  <- SessionView,
    begun    <- taken,
    Leases   <- 1..MaxLeases,
    Outcomes <- Results

ASSUME NullSessionAssumption == Null \notin Sessions!Session

(* The agents implement work sessions: one lease at a time, no lease twice *)
(* by anybody, no result replaced, none dropped before it was sent and     *)
(* that very request answered or failed - whatever crashes and is          *)
(* recovered.                                                              *)
ImplementsSessions == Sessions!SessionSpec

-----------------------------------------------------------------------------
(* No agent gets stuck: whatever happened, each comes back to asking for   *)
(* work again and again.                                                   *)
AgentsKeepPolling == \A a \in Agents : []<>(pc[a] = "claiming")

(* Every command that waits is eventually handed out.                      *)
QueueDrains == \A c \in Commands : c \in InStatus("PENDING") ~> c \notin InStatus("PENDING")

(* The late answer to a heartbeat of an earlier command made the agent     *)
(* take the lease of its DELAY for lost, which the server still honours    *)
(* (heartbeat.ts:39; claim LeaseLostOnlyIfInvalid).  Nothing else than the *)
(* answer to a heartbeat clears leaseValid, and only a DELAY looks at it.  *)
LeaseMisjudged(c) ==
    \E a \in WithJournal :
        /\ HasJournal(a, "DELAY")
        /\ journal[a].commandId = c
        /\ IsCurrentLease(c, a, journal[a].leaseId)
        /\ ~leaseValid[a]

(* Without faults every command that waits completes, however long it runs *)
(* compared with its lease and whatever the agent worked on before: an     *)
(* HTTP_GET_JSON always, a DELAY unless its lease is misjudged.            *)
CompletesWithoutFaults ==
    \A c \in Commands :
        c \in InStatus("PENDING")
            ~> c \in InStatus("COMPLETED") \/ LeaseMisjudged(c) \/ Faulted # {}

(* Once an agent has saved the result of a command, that command completes *)
(* even if the agent dies or is stopped, any number of times, before it    *)
(* was reported, and whatever becomes of its file operations: all it needs *)
(* is to reach the server, and its journal at the start - so it must come  *)
(* back under the same, configured id (see Fairness).                      *)
SavedResultDelivered ==
    \A c \in Commands :
        (\E a \in WithJournal : journal[a].commandId = c /\ journal[a].stage = "RESULT_SAVED")
            ~> \/ c \in InStatus("COMPLETED")
               \/ Faulted \cap {"server", "network", "read"} # {}

(* A DELAY whose claim reached the journal completes even if its agent     *)
(* dies or is stopped while it waits, as long as it comes back under the   *)
(* same, configured id (see Fairness), the journal can be written and      *)
(* read, the server answers and the lease is not misjudged.                *)
DelaySurvivesCrash ==
    \A c \in Commands :
        (\E a \in WithJournal : journal[a].commandId = c /\ journal[a].type = "DELAY")
            ~> \/ c \in InStatus("COMPLETED")
               \/ LeaseMisjudged(c)
               \/ Faulted \ {"agent", "stop"} # {}
=============================================================================
