--------------------------- MODULE ControlServer ---------------------------
(***************************************************************************)
(* The control server as its clients meet it: the Express routes over the  *)
(* table of CommandStore (routes/commands.ts and the error middleware),    *)
(* the start, the shutdown on a signal and what becomes of the             *)
(* connections (index.ts).                                                 *)
(*                                                                         *)
(* A request is accepted, its body comes in, its handler runs in one go,   *)
(* and its answer may or may not reach the client: the client can go away, *)
(* the process can die or be told to stop at any of these points.  A       *)
(* connection carries one request.                                         *)
(***************************************************************************)
EXTENDS CommandStore

CONSTANTS
    Connections,    \* bound: those open at the same time
    ForceMs         \* how long a shutdown waits for open connections

ASSUME ServerAssumption == ForceMs \in Nat \ {0}

VARIABLES
    dbOpen,     \* the database connection is open
    forceIn,    \* time until the shutdown is forced, Null without a signal
    conn,       \* the request of each open connection and its answer
    told,       \* the answers that reached a client and bind the server
    accepted    \* how many reports about a command were answered with 204

serverVars == <<dbOpen, forceIn, conn, told, accepted>>

vars == <<storeVars, serverVars>>

(* The requests that pass the checks of their route and of the service,    *)
(* and "malformed" for any that does not.                                  *)
Request ==
    [op : {"create"}, payload : CommandPayload]
    \cup [op : {"get"}, commandId : Commands]
    \cup [op : {"claim"}, agentId : Agents, maxLeaseMs : LeaseMs]
    \cup [op : {"heartbeat"}, commandId : Commands, agentId : Agents,
          leaseId : 1..MaxLeases, extendMs : ExtendMs]
    \cup [op : {"complete", "fail"}, commandId : Commands, agentId : Agents,
          leaseId : 1..MaxLeases, result : Results]
    \cup [op : {"malformed"}]

(* The bodies of 2xx answers: to create, to claim, to get, or none.        *)
Body ==
    Commands
    \cup [commandId : Commands, leaseId : LeaseId]
    \cup [status : CommandStatus, result : CommandResult \cup {Null}, agentId : Agents \cup {Null}]
    \cup {Null}

Connection ==
    [request : Request,
     status  : {200, 201, 204, 400, 404, 409, 500, Null},
     body    : Body]

(* What GET /commands/:id shows of a row.                                  *)
Shown(row) == [status |-> row.status, result |-> row.result, agentId |-> row.agentId]

Draining == forceIn # Null

Open == {k \in Connections : conn[k] # Null}

(* Answers that say something of a command that nothing may take back.     *)
Binding(c) ==
    \/ c.request.op \in {"create", "complete", "fail"} /\ c.status \in {201, 204}
    \/ /\ c.request.op = "get"
       /\ c.status = 200
       /\ c.body.status \in {"COMPLETED", "FAILED"}

-----------------------------------------------------------------------------
Init ==
    /\ StoreInit
    /\ dbOpen = FALSE
    /\ forceIn = Null
    /\ conn = [k \in Connections |-> Null]
    /\ told = {}
    /\ accepted = [c \in Commands |-> 0]

(* Mutant: the reset of expired leases is forgotten.                       *)
StartsWithoutRecovery(listening) ==
    /\ ~serverUp
    /\ serverUp' = listening
    /\ dbOpen' = listening
    /\ UNCHANGED <<now, commands, lastLease, forceIn, conn, told, accepted>>

(* startServer; when the port cannot be had the container is disposed.     *)
Starts(listening) ==
    /\ ServerStart(listening)
    /\ dbOpen' = listening
    /\ UNCHANGED <<forceIn, conn, told, accepted>>

(* server.close() ends this.                                               *)
Accepts(k, request) ==
    /\ serverUp
    /\ ~Draining
    /\ k \notin Open
    /\ conn' = [conn EXCEPT ![k] = [request |-> request, status |-> Null, body |-> Null]]
    /\ UNCHANGED <<storeVars, dbOpen, forceIn, told, accepted>>

Respond(k, status, body) ==
    /\ conn' = [conn EXCEPT ![k] =
           [request |-> conn[k].request, status |-> status, body |-> body]]
    /\ UNCHANGED <<dbOpen, forceIn, told>>

Answer(k, status, body) == Respond(k, status, body) /\ UNCHANGED accepted

(* 204 to a complete or fail request.                                      *)
AnswerAccepted(k) ==
    /\ Respond(k, 204, Null)
    /\ accepted' = [accepted EXCEPT ![conn[k].request.commandId] = @ + 1]

Asks(k, op) ==
    /\ k \in Open
    /\ conn[k].status = Null
    /\ conn[k].request.op = op

(* ValidationError, InvalidCommandTypeError and InvalidPayloadError: 400;  *)
(* a body that is no JSON is an unknown error: 500.  Both come before the  *)
(* table is touched.                                                       *)
HandleInvalid(k) ==
    /\ Asks(k, "malformed")
    /\ \E status \in {400, 500} : Answer(k, status, Null)
    /\ UNCHANGED storeVars

(* better-sqlite3 throws on a closed database, which is an unknown error.  *)
HandleWithoutDatabase(k) ==
    /\ \E op \in {"create", "get", "claim", "heartbeat", "complete", "fail"} : Asks(k, op)
    /\ ~dbOpen
    /\ Answer(k, 500, Null)
    /\ UNCHANGED storeVars

Serves(k, op) ==
    /\ Asks(k, op)
    /\ dbOpen

HandleCreate(k) ==
    /\ Serves(k, "create")
    /\ \E c \in Commands :
         /\ CreateCommand(c, conn[k].request.payload)
         /\ Answer(k, 201, c)

HandleGet(k) ==
    /\ Serves(k, "get")
    /\ LET c == conn[k].request.commandId IN
       IF c \in Created THEN Answer(k, 200, Shown(commands[c])) ELSE Answer(k, 404, Null)
    /\ UNCHANGED storeVars

HandleClaim(k) ==
    /\ Serves(k, "claim")
    /\ LET r == conn[k].request IN
       \/ \E c \in Commands :
            /\ ClaimCommand(c, r.agentId, r.maxLeaseMs)
            /\ Answer(k, 200, [commandId |-> c, leaseId |-> commands'[c].leaseId])
       \/ /\ InStatus("PENDING") = {}
          /\ Answer(k, 204, Null)
          /\ UNCHANGED storeVars

(* Mutant: the service does not look at what the UPDATE changed.           *)
ConflictIgnored(k) ==
    /\ LET r == conn[k].request IN ~IsCurrentLease(r.commandId, r.agentId, r.leaseId)
    /\ Answer(k, 204, Null)
    /\ UNCHANGED storeVars

(* LeaseConflictError, also for a command that does not exist: 409.        *)
LeaseConflict(k) ==
    /\ LET r == conn[k].request IN ~IsCurrentLease(r.commandId, r.agentId, r.leaseId)
    /\ Answer(k, 409, Null)
    /\ UNCHANGED storeVars

HandleHeartbeat(k) ==
    /\ Serves(k, "heartbeat")
    /\ LET r == conn[k].request IN
       \/ Heartbeat(r.commandId, r.agentId, r.leaseId, r.extendMs) /\ Answer(k, 204, Null)
       \/ LeaseConflict(k)

HandleComplete(k) ==
    /\ Serves(k, "complete")
    /\ LET r == conn[k].request IN
       \/ CompleteCommand(r.commandId, r.agentId, r.leaseId, r.result) /\ AnswerAccepted(k)
       \/ LeaseConflict(k)

HandleFail(k) ==
    /\ Serves(k, "fail")
    /\ LET r == conn[k].request IN
       \/ FailCommand(r.commandId, r.agentId, r.leaseId, r.result) /\ AnswerAccepted(k)
       \/ LeaseConflict(k)

(* The answer reaches the client.                                          *)
Delivers(k) ==
    /\ k \in Open
    /\ conn[k].status # Null
    /\ told' = IF Binding(conn[k]) THEN told \cup {conn[k]} ELSE told
    /\ conn' = [conn EXCEPT ![k] = Null]
    /\ UNCHANGED <<storeVars, dbOpen, forceIn, accepted>>

(* The client, or the network, gives up.                                   *)
Breaks(k) ==
    /\ k \in Open
    /\ conn' = [conn EXCEPT ![k] = Null]
    /\ UNCHANGED <<storeVars, dbOpen, forceIn, told, accepted>>

(* An error of the listening socket long after it was opened, say of an    *)
(* accept(): the handler of index.ts:91 is still there, disposes the       *)
(* container and rejects a promise that is settled; the server listens on. *)
ListenerErrs ==
    /\ serverUp
    /\ dbOpen' = FALSE
    /\ UNCHANGED <<storeVars, forceIn, conn, told, accepted>>

(* Mutant: the shutdown waits for the connections only.                    *)
SignalWithoutTimer ==
    /\ serverUp
    /\ ~Draining
    /\ now + ForceMs <= MaxNow
    /\ forceIn' = -1
    /\ UNCHANGED <<storeVars, dbOpen, conn, told, accepted>>

(* SIGINT or SIGTERM; a second one is ignored.  (Bound: the clock of the   *)
(* model must reach the end of the wait.)                                  *)
Signal ==
    /\ serverUp
    /\ ~Draining
    /\ now + ForceMs <= MaxNow
    /\ forceIn' = ForceMs
    /\ UNCHANGED <<storeVars, dbOpen, conn, told, accepted>>

(* The process ends, and with it the connections it has.                   *)
Exits ==
    /\ ServerStop
    /\ dbOpen' = FALSE
    /\ forceIn' = Null
    /\ conn' = [k \in Connections |-> Null]
    /\ UNCHANGED <<told, accepted>>

(* The callback of server.close(): every connection has ended.             *)
Drained == Draining /\ Open = {} /\ Exits

Forced == forceIn = 0 /\ Exits

Crashes == Exits

TimePasses ==
    /\ forceIn # 0
    /\ Tick
    /\ forceIn' = IF Draining THEN forceIn - 1 ELSE forceIn
    /\ UNCHANGED <<dbOpen, conn, told, accepted>>

Next ==
    \/ \E listening \in BOOLEAN : Starts(listening)
    \/ \E k \in Connections :
         \/ \E request \in Request : Accepts(k, request)
         \/ HandleInvalid(k) \/ HandleWithoutDatabase(k)
         \/ HandleCreate(k) \/ HandleGet(k) \/ HandleClaim(k)
         \/ HandleHeartbeat(k) \/ HandleComplete(k) \/ HandleFail(k)
         \/ Delivers(k) \/ Breaks(k)
    \/ ListenerErrs
    \/ Signal \/ Drained \/ Forced \/ Crashes
    \/ TimePasses

Spec == Init /\ [][Next]_vars

(* Time passes and timers fire.  Clients owe the server nothing.           *)
FairSpec == Spec /\ WF_vars(TimePasses) /\ WF_vars(Drained) /\ WF_vars(Forced)

-----------------------------------------------------------------------------
(* Type invariant.                                                         *)
ServerTypeOK ==
    /\ dbOpen \in BOOLEAN /\ (dbOpen => serverUp)
    /\ forceIn \in 0..ForceMs \cup {Null} /\ (Draining => serverUp)
    /\ conn \in [Connections -> Connection \cup {Null}] /\ (Open # {} => serverUp)
    /\ told \subseteq Connection
    /\ accepted \in [Commands -> Nat]

(* What the answer says is what the table holds.                           *)
Honest(answer) ==
    LET r == answer.request IN
    /\ r.op = "create" =>
          /\ answer.body \in Created
          /\ commands[answer.body].payload = r.payload
    /\ r.op = "complete" =>
          /\ r.commandId \in InStatus("COMPLETED")
          /\ commands[r.commandId].result = r.result
    /\ r.op = "fail" => r.commandId \in InStatus("FAILED")
    /\ r.op = "get" =>
          /\ r.commandId \in Created
          /\ Shown(commands[r.commandId]) = answer.body

(* What a client was told stays true, whatever the server goes through     *)
(* afterwards: a created command exists as it was posted, an accepted      *)
(* result or failure is what the table holds, and a final status once read *)
(* is the final status for good.                                           *)
ToldStaysTrue == \A answer \in told : Honest(answer)

(* README.md:475: "each command executed at most once successfully".  Of   *)
(* all reports about a command, repeated, late or from different agents,   *)
(* at most one is accepted.                                                *)
OneReportAccepted == \A c \in Commands : accepted[c] <= 1

(* The routes do to the table what the store allows, and nothing else:     *)
(* requests that are refused, and the way the process ends, leave it alone. *)
ImplementsStore == StoreSpec

(* Once a signal came the process ends, even if clients keep their         *)
(* connections open for good.                                              *)
ShutdownEnds == Draining ~> ~serverUp
=============================================================================
