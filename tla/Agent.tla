------------------------------- MODULE Agent -------------------------------
(***************************************************************************)
(* The agents: the claim-execute-report loop and the recovery at start-up  *)
(* (agent.ts), the two executors, the heartbeat timer, the journal file    *)
(* and the HTTP client they all share (packages/agent/src).                *)
(*                                                                         *)
(* An agent is one Node.js process.  Its code runs without interruption    *)
(* from one await to the next, so heartbeat ticks and heartbeat replies    *)
(* take place only while it awaits something; but the process can die      *)
(* anywhere, so a step below makes at most one change that outlives the    *)
(* process: one write of the journal or one request put on the wire.       *)
(*                                                                         *)
(* The journal object an executor updates and the file on disk change      *)
(* together (every update saves), so one variable stands for both while an *)
(* agent works; between two commands it is the file alone, which is stale  *)
(* when its deletion failed.  JournalFile justifies the atomic save.  The  *)
(* file is the only local state a crash leaves.  The server and the URL a  *)
(* command fetches are outside: the agent sees the replies.                *)
(***************************************************************************)
EXTENDS SharedTypes

CONSTANTS
    HeartbeatIntervalMs,
    MaxTimeoutMs    \* the longest delay setTimeout honours, 2^31 - 1 in Node.js

ASSUME HeartbeatAssumption == HeartbeatIntervalMs \in Nat \ {0}

ASSUME TimeoutAssumption == MaxTimeoutMs \in Nat \ {0}

VARIABLES
    pc,           \* where each agent stands in its loop, or "down"
    running,      \* AgentImpl.running: stop() has not been called
    recovering,   \* it is inside recoverFromJournal
    journal,      \* the journal file, Null when there is none
    timer,        \* the armed heartbeat interval, Null when stopped
    leaseValid,   \* HeartbeatManager.leaseValid
    wakeAt,       \* when the target timer of waitUntil fires, Null when not set
    requests,     \* requests to the server, sent and not yet handled
    replies,      \* answers on their way to an agent that awaits them
    requestCount, \* GETs sent to the URL of each command
    taken,        \* lease ids agents have ever taken up work under
    leftOver      \* reports that were settled while their journal stayed

localVars == <<pc, running, recovering, journal, timer, leaseValid, wakeAt>>

netVars == <<requests, replies>>

ghostVars == <<requestCount, taken, leftOver>>

mode == <<running, recovering>>

agentVars == <<localVars, netVars, ghostVars>>

PC == {"down", "idle", "claiming", "claimed", "waiting", "elapsed",
       "executing", "fetching", "reading", "saved", "reporting"}

Timer == [commandId : Commands, leaseId : LeaseId, next : Time]

(* A request and whether the agent still awaits its answer.                *)
Request ==
    [op        : {"claim", "heartbeat", "complete"},
     agent     : Agents,
     commandId : Commands \cup {Null},
     leaseId   : LeaseId \cup {Null},
     result    : CommandResult \cup {Null},
     awaited   : BOOLEAN]

(* The body of a 200 answer to a claim, as far as the agent uses it.       *)
Grant ==
    [commandId      : Commands,
     leaseId        : LeaseId,
     type           : {"DELAY", "HTTP_GET_JSON"},
     startedAt      : Time,
     scheduledEndAt : Time \cup {Null}]

ASSUME NullRecordAssumption ==
    Null \notin AgentJournal /\ Null \notin Timer /\ Null \notin Grant

(* HTTP status, or 0 when fetch() rejected.                                *)
Status == {0, 200, 204, 409}

Reply == [request : Request, status : Status, grant : Grant \cup {Null}]

AwaitingAnswer(a, op) == {p \in replies : p.request.agent = a /\ p.request.op = op}

(* The agent has yielded to the event loop.                                *)
AtAwait(a) == pc[a] \in {"idle", "claiming", "waiting", "fetching", "reading", "reporting"}

HasJournal(a, type) == journal[a] # Null /\ journal[a].type = type

GoTo(a, label) == pc' = [pc EXCEPT ![a] = label]

Send(op, a, c, l, result) ==
    requests' = requests \cup
        {[op |-> op, agent |-> a, commandId |-> c, leaseId |-> l,
          result |-> result, awaited |-> TRUE]}

(* HeartbeatManager.start: the first tick comes one interval later.        *)
StartHeartbeat(a, c, l, t) ==
    /\ timer' = [timer EXCEPT ![a] =
           [commandId |-> c, leaseId |-> l, next |-> t + HeartbeatIntervalMs]]
    /\ leaseValid' = [leaseValid EXCEPT ![a] = TRUE]

(* Mutant: the interval is never cleared.                                  *)
StopHeartbeatForgotten(a) == UNCHANGED timer

StopHeartbeat(a) == timer' = [timer EXCEPT ![a] = Null]

SetStage(a, stage) == journal' = [journal EXCEPT ![a].stage = stage]

(* JournalManager.delete swallows the error when the file stays.           *)
DeleteJournal(a, deleted) ==
    journal' = IF deleted THEN [journal EXCEPT ![a] = Null] ELSE journal

(* Ghost: what stays on disk although its report was answered or failed.   *)
RecordLeftOver(p, deleted) ==
    leftOver' = IF deleted THEN leftOver ELSE leftOver \cup {p.request}

(* The process is gone.  Its requests still reach the server, and nobody   *)
(* awaits the answers.                                                     *)
Disconnect(a) ==
    /\ requests' = {IF r.agent = a THEN [r EXCEPT !.awaited = FALSE] ELSE r : r \in requests}
    /\ replies' = {p \in replies : p.request.agent # a}

(* setTimeout with a delay beyond the limit fires after 1 ms.              *)
TimeoutDelay(ms) == IF ms > MaxTimeoutMs THEN 1 ELSE ms

-----------------------------------------------------------------------------
AgentInit ==
    /\ pc = [a \in Agents |-> "down"]
    /\ running = [a \in Agents |-> FALSE]
    /\ recovering = [a \in Agents |-> FALSE]
    /\ journal = [a \in Agents |-> Null]
    /\ timer = [a \in Agents |-> Null]
    /\ leaseValid = [a \in Agents |-> TRUE]
    /\ wakeAt = [a \in Agents |-> Null]
    /\ requests = {}
    /\ replies = {}
    /\ requestCount = [c \in Commands |-> 0]
    /\ taken = {}
    /\ leftOver = {}

(* start() sets the flag; each way to recover follows at once.             *)
Started(a) == running' = [running EXCEPT ![a] = TRUE]

(* start() with nothing to recover.                                        *)
StartFresh(a) ==
    /\ pc[a] = "down"
    /\ journal[a] = Null
    /\ Started(a)
    /\ GoTo(a, "idle")
    /\ UNCHANGED <<recovering, journal, timer, leaseValid, wakeAt, netVars, ghostVars>>

(* load() catches every error: a file that cannot be read counts as none.  *)
StartUnread(a) ==
    /\ pc[a] = "down"
    /\ journal[a] # Null
    /\ Started(a)
    /\ GoTo(a, "idle")
    /\ UNCHANGED <<recovering, journal, timer, leaseValid, wakeAt, netVars, ghostVars>>

Resume(a, label, t) ==
    /\ Started(a)
    /\ GoTo(a, label)
    /\ recovering' = [recovering EXCEPT ![a] = TRUE]
    /\ StartHeartbeat(a, journal[a].commandId, journal[a].leaseId, t)
    /\ UNCHANGED <<journal, wakeAt, netVars, ghostVars>>

(* recoverFromJournal, RESULT_SAVED: the result is reported again.         *)
RecoverSavedResult(a, t) ==
    /\ pc[a] = "down"
    /\ journal[a] # Null
    /\ journal[a].stage = "RESULT_SAVED"
    /\ Resume(a, "saved", t)

(* recoverFromJournal, unfinished DELAY: the wait is resumed.              *)
RecoverDelay(a, t) ==
    /\ pc[a] = "down"
    /\ HasJournal(a, "DELAY")
    /\ journal[a].stage # "RESULT_SAVED"
    /\ journal[a].scheduledEndAt # Null
    /\ Resume(a, "claimed", t)

(* Mutants: recovery drops any journal; it executes an HTTP_GET_JSON again. *)
DiscardAnyJournal(a, deleted) ==
    /\ pc[a] = "down"
    /\ journal[a] # Null
    /\ DeleteJournal(a, deleted)
    /\ Started(a)
    /\ GoTo(a, "idle")
    /\ UNCHANGED <<recovering, timer, leaseValid, wakeAt, netVars, ghostVars>>

FetchAgain(a, deleted) ==
    /\ pc[a] = "down"
    /\ HasJournal(a, "HTTP_GET_JSON")
    /\ journal[a].stage # "RESULT_SAVED"
    /\ Started(a)
    /\ GoTo(a, "claimed")
    /\ UNCHANGED <<recovering, journal, timer, leaseValid, wakeAt, netVars, ghostVars>>

(* recoverFromJournal, anything else: an HTTP_GET_JSON without a snapshot  *)
(* is forgotten.  The heartbeat started at agent.ts:79 is stopped again    *)
(* before the agent yields.                                                *)
DiscardJournal(a, deleted) ==
    /\ pc[a] = "down"
    /\ journal[a] # Null
    /\ journal[a].stage # "RESULT_SAVED"
    /\ ~(journal[a].type = "DELAY" /\ journal[a].scheduledEndAt # Null)
    /\ DeleteJournal(a, deleted)
    /\ Started(a)
    /\ GoTo(a, "idle")
    /\ UNCHANGED <<recovering, timer, leaseValid, wakeAt, netVars, ghostVars>>

(* stop(): the heartbeat ends at once, the loop after its current command. *)
Stop(a) ==
    /\ AtAwait(a)
    /\ running[a]
    /\ running' = [running EXCEPT ![a] = FALSE]
    /\ StopHeartbeat(a)
    /\ UNCHANGED <<pc, recovering, journal, leaseValid, wakeAt, netVars, ghostVars>>

(* while (this.running): start() returns.                                  *)
LoopEnds(a) ==
    /\ pc[a] = "idle"
    /\ ~running[a]
    /\ GoTo(a, "down")
    /\ leaseValid' = [leaseValid EXCEPT ![a] = TRUE]
    /\ Disconnect(a)
    /\ UNCHANGED <<mode, journal, timer, wakeAt, ghostVars>>

(* ServerClient.claim                                                      *)
Poll(a) ==
    /\ pc[a] = "idle"
    /\ running[a]
    /\ Send("claim", a, Null, Null, Null)
    /\ GoTo(a, "claiming")
    /\ UNCHANGED <<mode, journal, timer, leaseValid, wakeAt, replies, ghostVars>>

(* 204, an error status or a failed request: no work.                      *)
ClaimRefused(a, p) ==
    /\ pc[a] = "claiming"
    /\ p \in AwaitingAnswer(a, "claim")
    /\ p.status # 200
    /\ replies' = replies \ {p}
    /\ GoTo(a, "idle")
    /\ UNCHANGED <<mode, journal, timer, leaseValid, wakeAt, requests, ghostVars>>

(* createClaimed, then the heartbeat.                                      *)
ClaimGranted(a, p, t) ==
    /\ pc[a] = "claiming"
    /\ p \in AwaitingAnswer(a, "claim")
    /\ p.status = 200
    /\ journal' = [journal EXCEPT ![a] =
           [commandId      |-> p.grant.commandId,
            leaseId        |-> p.grant.leaseId,
            type           |-> p.grant.type,
            startedAt      |-> p.grant.startedAt,
            scheduledEndAt |-> p.grant.scheduledEndAt,
            httpSnapshot   |-> Null,
            stage          |-> "CLAIMED"]]
    /\ StartHeartbeat(a, p.grant.commandId, p.grant.leaseId, t)
    /\ replies' = replies \ {p}
    /\ GoTo(a, "claimed")
    /\ taken' = taken \cup {p.grant.leaseId}
    /\ UNCHANGED <<mode, wakeAt, requests, requestCount, leftOver>>

(* createClaimed runs outside the try of runOneIteration: when its save    *)
(* throws, the main loop catches and polls again.                          *)
ClaimNotSaved(a, p) ==
    /\ pc[a] = "claiming"
    /\ p \in AwaitingAnswer(a, "claim")
    /\ p.status = 200
    /\ replies' = replies \ {p}
    /\ GoTo(a, "idle")
    /\ UNCHANGED <<mode, journal, timer, leaseValid, wakeAt, requests, ghostVars>>

(* DelayExecutor.execute up to its await; a scheduled end already past     *)
(* resolves at once, before any lease check.  What remains is taken from   *)
(* the agent's wall clock "date"; the timers run on elapsed time "t".      *)
ExecuteDelay(a, t, date) ==
    /\ pc[a] = "claimed"
    /\ HasJournal(a, "DELAY")
    /\ SetStage(a, "IN_PROGRESS")
    /\ LET remainingMs == journal[a].scheduledEndAt - date IN
       IF remainingMs <= 0
       THEN GoTo(a, "elapsed") /\ UNCHANGED wakeAt
       ELSE GoTo(a, "waiting") /\ wakeAt' = [wakeAt EXCEPT ![a] = t + TimeoutDelay(remainingMs)]
    /\ UNCHANGED <<mode, timer, leaseValid, netVars, ghostVars>>

(* HttpGetJsonExecutor.execute: the stage is saved, then the GET leaves.   *)
ExecuteHttpGetJson(a) ==
    /\ pc[a] = "claimed"
    /\ HasJournal(a, "HTTP_GET_JSON")
    /\ SetStage(a, "IN_PROGRESS")
    /\ GoTo(a, "executing")
    /\ UNCHANGED <<mode, timer, leaseValid, wakeAt, netVars, ghostVars>>

FetchUrl(a) ==
    /\ pc[a] = "executing"
    /\ requestCount' = [requestCount EXCEPT ![journal[a].commandId] = @ + 1]
    /\ GoTo(a, "fetching")
    /\ UNCHANGED <<mode, journal, timer, leaseValid, wakeAt, netVars, taken, leftOver>>

(* A response that is no redirect: its timeout is cleared, its body read.  *)
HeadersArrive(a) ==
    /\ pc[a] = "fetching"
    /\ GoTo(a, "reading")
    /\ UNCHANGED <<mode, journal, timer, leaseValid, wakeAt, netVars, ghostVars>>

(* updateHttpSnapshot                                                      *)
SaveHttpSnapshot(a) ==
    /\ journal' = [journal EXCEPT ![a] =
           [@ EXCEPT !.httpSnapshot = [fetchedUnder |-> journal[a].leaseId],
                     !.stage        = "RESULT_SAVED"]]
    /\ GoTo(a, "saved")
    /\ UNCHANGED <<mode, timer, leaseValid, wakeAt, netVars, ghostVars>>

(* No body to read: a redirect, a timeout or an error becomes the result,  *)
(* saved before anything else happens.                                     *)
FetchSettles(a) ==
    /\ pc[a] = "fetching"
    /\ SaveHttpSnapshot(a)

(* The body ended, or broke off.                                           *)
BodyEnds(a) ==
    /\ pc[a] = "reading"
    /\ SaveHttpSnapshot(a)

(* Mutant: the wait ends whenever the timer is looked at.                  *)
WaitCutShort(a, t) ==
    /\ pc[a] = "waiting"
    /\ wakeAt' = [wakeAt EXCEPT ![a] = Null]
    /\ GoTo(a, "elapsed")
    /\ UNCHANGED <<mode, journal, timer, leaseValid, netVars, ghostVars>>

(* The target timer of waitUntil.                                          *)
WaitElapsed(a, t) ==
    /\ pc[a] = "waiting"
    /\ wakeAt[a] <= t
    /\ wakeAt' = [wakeAt EXCEPT ![a] = Null]
    /\ GoTo(a, "elapsed")
    /\ UNCHANGED <<mode, journal, timer, leaseValid, netVars, ghostVars>>

(* Mutant: the result is reported without being saved.                     *)
DelayResultNotSaved(a) ==
    /\ pc[a] = "elapsed"
    /\ GoTo(a, "saved")
    /\ UNCHANGED <<mode, journal, timer, leaseValid, wakeAt, netVars, ghostVars>>

(* updateStage(journal, "RESULT_SAVED"), agent.ts:103 and :162.            *)
SaveDelayResult(a) ==
    /\ pc[a] = "elapsed"
    /\ SetStage(a, "RESULT_SAVED")
    /\ GoTo(a, "saved")
    /\ UNCHANGED <<mode, timer, leaseValid, wakeAt, netVars, ghostVars>>

(* Both catch blocks (agent.ts:105 and :170) stop the heartbeat, delete    *)
(* the journal and go on with the main loop; the server is told nothing.   *)
GiveUp(a, deleted) ==
    /\ StopHeartbeat(a)
    /\ DeleteJournal(a, deleted)
    /\ recovering' = [recovering EXCEPT ![a] = FALSE]
    /\ wakeAt' = [wakeAt EXCEPT ![a] = Null]
    /\ GoTo(a, "idle")
    /\ UNCHANGED <<running, leaseValid, netVars, ghostVars>>

(* The lease-check interval of waitUntil rejects with LeaseExpiredError.   *)
LeaseCheckFails(a, deleted) ==
    /\ pc[a] = "waiting"
    /\ ~leaseValid[a]
    /\ GiveUp(a, deleted)

(* JournalManager.save throws inside an executor or at agent.ts:162.       *)
JournalNotSaved(a, deleted) ==
    /\ \/ pc[a] = "claimed" /\ journal[a].stage = "CLAIMED"
       \/ pc[a] \in {"fetching", "reading", "elapsed"}
    /\ GiveUp(a, deleted)

(* The result of recovery and of the executors is the same function of the *)
(* journal: the snapshot, or scheduledEndAt - startedAt.                   *)
ResultOf(j) ==
    IF j.type = "HTTP_GET_JSON"
    THEN j.httpSnapshot
    ELSE [tookMs |-> j.scheduledEndAt - j.startedAt]

(* reportCompletion up to its await.  The main loop stops the heartbeat    *)
(* before reporting, recovery only afterwards.                             *)
Report(a) ==
    /\ pc[a] = "saved"
    /\ Send("complete", a, journal[a].commandId, journal[a].leaseId, ResultOf(journal[a]))
    /\ IF recovering[a] THEN UNCHANGED timer ELSE StopHeartbeat(a)
    /\ GoTo(a, "reporting")
    /\ UNCHANGED <<mode, journal, leaseValid, wakeAt, replies, ghostVars>>

(* Mutant: the agent goes on only when the server accepted the result.     *)
ReportAccepted(a, p, deleted) ==
    /\ pc[a] = "reporting"
    /\ p \in AwaitingAnswer(a, "complete")
    /\ p.status = 204
    /\ replies' = replies \ {p}
    /\ DeleteJournal(a, deleted)
    /\ StopHeartbeat(a)
    /\ recovering' = [recovering EXCEPT ![a] = FALSE]
    /\ GoTo(a, "idle")
    /\ RecordLeftOver(p, deleted)
    /\ UNCHANGED <<running, leaseValid, wakeAt, requests, requestCount, taken>>

(* Mutant: any answer of the server, a heartbeat's too, ends the report.   *)
ReportOnAnyAnswer(a, p, deleted) ==
    /\ pc[a] = "reporting"
    /\ p.request.agent = a
    /\ replies' = replies \ {p}
    /\ DeleteJournal(a, deleted)
    /\ StopHeartbeat(a)
    /\ recovering' = [recovering EXCEPT ![a] = FALSE]
    /\ GoTo(a, "idle")
    /\ RecordLeftOver(p, deleted)
    /\ UNCHANGED <<running, leaseValid, wakeAt, requests, requestCount, taken>>

(* Whatever the answer was, the journal is deleted.                        *)
ReportAnswered(a, p, deleted) ==
    /\ pc[a] = "reporting"
    /\ p \in AwaitingAnswer(a, "complete")
    /\ replies' = replies \ {p}
    /\ DeleteJournal(a, deleted)
    /\ StopHeartbeat(a)
    /\ recovering' = [recovering EXCEPT ![a] = FALSE]
    /\ GoTo(a, "idle")
    /\ RecordLeftOver(p, deleted)
    /\ UNCHANGED <<running, leaseValid, wakeAt, requests, requestCount, taken>>

(* The interval callback up to its await.                                  *)
Beat(a, t) ==
    /\ AtAwait(a)
    /\ timer[a] # Null
    /\ timer[a].next <= t
    /\ Send("heartbeat", a, timer[a].commandId, timer[a].leaseId, Null)
    /\ timer' = [timer EXCEPT ![a].next = t + HeartbeatIntervalMs]
    /\ UNCHANGED <<pc, mode, journal, leaseValid, wakeAt, replies, ghostVars>>

(* The rest of the callback.  Any answer but 204 invalidates the lease and *)
(* stops the timer of whatever the manager is doing by now.                *)
BeatAnswered(a, p) ==
    /\ AtAwait(a)
    /\ p \in AwaitingAnswer(a, "heartbeat")
    /\ replies' = replies \ {p}
    /\ IF p.status = 204
       THEN UNCHANGED <<timer, leaseValid>>
       ELSE StopHeartbeat(a) /\ leaseValid' = [leaseValid EXCEPT ![a] = FALSE]
    /\ UNCHANGED <<pc, mode, journal, wakeAt, requests, ghostVars>>

(* The process dies: --kill-after, --random-failures or a real crash.      *)
Crash(a) ==
    /\ pc[a] # "down"
    /\ GoTo(a, "down")
    /\ running' = [running EXCEPT ![a] = FALSE]
    /\ recovering' = [recovering EXCEPT ![a] = FALSE]
    /\ timer' = [timer EXCEPT ![a] = Null]
    /\ leaseValid' = [leaseValid EXCEPT ![a] = TRUE]
    /\ wakeAt' = [wakeAt EXCEPT ![a] = Null]
    /\ Disconnect(a)
    /\ UNCHANGED <<journal, ghostVars>>

-----------------------------------------------------------------------------
(* The wire between ServerClient and the server.  fetch() does not retry a *)
(* POST, so a request is handled at most once; requests and answers        *)
(* overtake each other.                                                    *)
Answer(r, status, grant) ==
    /\ requests' = requests \ {r}
    /\ replies' = IF r.awaited
                  THEN replies \cup {[request |-> r, status |-> status, grant |-> grant]}
                  ELSE replies

(* The connection fails before the server has seen the request.            *)
RequestLost(r) ==
    /\ r \in requests
    /\ r.awaited
    /\ Answer(r, 0, Null)
    /\ UNCHANGED <<localVars, ghostVars>>

(* The client gives up on a request that the server handles later.         *)
RequestAbandoned(r) ==
    /\ r \in requests
    /\ r.awaited
    /\ requests' = (requests \ {r}) \cup {[r EXCEPT !.awaited = FALSE]}
    /\ replies' = replies \cup {[request |-> r, status |-> 0, grant |-> Null]}
    /\ UNCHANGED <<localVars, ghostVars>>

(* The server handled the request, the answer never arrives.               *)
ReplyLost(p) ==
    /\ p \in replies
    /\ p.status # 0
    /\ replies' = (replies \ {p}) \cup {[p EXCEPT !.status = 0, !.grant = Null]}
    /\ UNCHANGED <<localVars, requests, ghostVars>>

(* Everything an agent does by itself at time t, its wall clock at "date". *)
StartAgent(a, t) ==
    \/ StartFresh(a)
    \/ RecoverSavedResult(a, t)
    \/ RecoverDelay(a, t)
    \/ DiscardJournal(a, TRUE)

LoopStep(a, t, date) ==
    \/ Poll(a)
    \/ LoopEnds(a)
    \/ ExecuteDelay(a, t, date)
    \/ ExecuteHttpGetJson(a)
    \/ FetchUrl(a)
    \/ HeadersArrive(a)
    \/ FetchSettles(a)
    \/ WaitElapsed(a, t)
    \/ LeaseCheckFails(a, TRUE)
    \/ SaveDelayResult(a)
    \/ Report(a)
    \/ \E p \in replies :
         \/ ClaimRefused(a, p)
         \/ ClaimGranted(a, p, t)
         \/ ReportAnswered(a, p, TRUE)

(* A file operation of the journal fails: a save, a delete.                *)
SaveFails(a) ==
    \/ JournalNotSaved(a, TRUE)
    \/ \E p \in replies : ClaimNotSaved(a, p)

DeleteFails(a) ==
    \/ DiscardJournal(a, FALSE)
    \/ LeaseCheckFails(a, FALSE)
    \/ JournalNotSaved(a, FALSE)
    \/ \E p \in replies : ReportAnswered(a, p, FALSE)
=============================================================================
