------------------------ MODULE ControlServer_proof ------------------------
(***************************************************************************)
(* For every number of connections, commands and agents: the routes do to  *)
(* the table what CommandStore allows, at most one report about a command  *)
(* is accepted, and what clients were told stays true.                     *)
(***************************************************************************)
EXTENDS ControlServer, CommandStore_proof

(* What the routes rely on: the types and the leases of the table.         *)
TableOK == StoreTypeOK /\ LeaseExclusive /\ ServerTypeOK

-----------------------------------------------------------------------------
(* The fields a request has when it reaches the handler of its route.      *)
LEMMA RequestFields ==
    ASSUME NEW r \in Request
    PROVE  /\ r.op = "create" => r.payload \in CommandPayload
           /\ r.op \in {"get", "heartbeat", "complete", "fail"} => r.commandId \in Commands
           /\ r.op \in {"claim", "heartbeat", "complete", "fail"} => r.agentId \in Agents
           /\ r.op = "claim" => r.maxLeaseMs \in LeaseMs
           /\ r.op \in {"heartbeat", "complete", "fail"} => r.leaseId \in 1..MaxLeases
           /\ r.op = "heartbeat" => r.extendMs \in ExtendMs
           /\ r.op \in {"complete", "fail"} => r.result \in Results
BY DEF Request

(* A lease that is current was issued.                                     *)
LEMMA CurrentLeaseIssued ==
    ASSUME StoreTypeOK, LeaseExclusive, NEW c \in Commands, NEW a \in Agents,
           NEW l \in 1..MaxLeases, IsCurrentLease(c, a, l)
    PROVE  l \in 1..lastLease
<1>1. c \in Created /\ commands[c].leaseId = l
      BY DEF IsCurrentLease, InStatus
<1>2. l \in Int /\ l >= 1 /\ lastLease \in Nat
      BY BoundsAssumption DEF StoreTypeOK
<1>3. l # Null
      BY <1>2, NullAssumption
<1>4. l <= lastLease
      BY <1>1, <1>3 DEF LeaseExclusive
<1>5. QED
      BY <1>2, <1>4

(* Every step of the server is a step of the table or leaves it alone.     *)
LEMMA StepOfStore ==
    ASSUME TableOK, [Next]_vars
    PROVE  [StoreNext]_storeVars
<1> USE DEF TableOK
<1>1. ASSUME NEW k \in Open
      PROVE  conn[k].request \in Request /\ k \in Connections
      BY DEF ServerTypeOK, Open, Connection
<1>2. CASE UNCHANGED vars
      BY <1>2 DEF vars, storeVars
<1>3. ASSUME NEW listening \in BOOLEAN, Starts(listening)
      PROVE  StoreNext
      BY <1>3 DEF Starts, StoreNext
<1>4. ASSUME NEW k \in Connections,
             \/ \E request \in Request : Accepts(k, request)
             \/ HandleInvalid(k) \/ HandleWithoutDatabase(k) \/ HandleGet(k)
             \/ Delivers(k) \/ Breaks(k)
      PROVE  UNCHANGED storeVars
      BY <1>4 DEF Accepts, HandleInvalid, HandleWithoutDatabase, HandleGet, Delivers, Breaks
<1>5. ASSUME NEW k \in Connections, HandleCreate(k)
      PROVE  StoreNext
  <2>1. PICK c \in Commands : CreateCommand(c, conn[k].request.payload)
        BY <1>5 DEF HandleCreate
  <2>2. conn[k].request.payload \in CommandPayload
        BY <1>1, <1>5, RequestFields DEF HandleCreate, Serves, Asks
  <2>3. QED
        BY <2>1, <2>2 DEF StoreNext
<1>6. ASSUME NEW k \in Connections, HandleClaim(k)
      PROVE  StoreNext \/ UNCHANGED storeVars
  <2>1. conn[k].request.agentId \in Agents /\ conn[k].request.maxLeaseMs \in LeaseMs
        BY <1>1, <1>6, RequestFields DEF HandleClaim, Serves, Asks
  <2>2. QED
        BY <1>6, <2>1 DEF HandleClaim, StoreNext
<1>7. ASSUME NEW k \in Connections, HandleHeartbeat(k)
      PROVE  StoreNext \/ UNCHANGED storeVars
  <2> DEFINE r == conn[k].request
  <2>1. /\ r.commandId \in Commands /\ r.agentId \in Agents
        /\ r.leaseId \in 1..MaxLeases /\ r.extendMs \in ExtendMs
        BY <1>1, <1>7, RequestFields DEF HandleHeartbeat, Serves, Asks
  <2>2. CASE Heartbeat(r.commandId, r.agentId, r.leaseId, r.extendMs)
    <3>1. r.leaseId \in 1..lastLease
          BY <2>1, <2>2, CurrentLeaseIssued DEF Heartbeat
    <3>2. QED
          BY <2>1, <2>2, <3>1 DEF StoreNext
  <2>3. QED
        BY <1>7, <2>2 DEF HandleHeartbeat, LeaseConflict
<1>8. ASSUME NEW k \in Connections, HandleComplete(k)
      PROVE  StoreNext \/ UNCHANGED storeVars
  <2> DEFINE r == conn[k].request
  <2>1. /\ r.commandId \in Commands /\ r.agentId \in Agents
        /\ r.leaseId \in 1..MaxLeases /\ r.result \in Results
        BY <1>1, <1>8, RequestFields DEF HandleComplete, Serves, Asks
  <2>2. CASE CompleteCommand(r.commandId, r.agentId, r.leaseId, r.result)
    <3>1. r.leaseId \in 1..lastLease
          BY <2>1, <2>2, CurrentLeaseIssued DEF CompleteCommand
    <3>2. QED
          BY <2>1, <2>2, <3>1 DEF StoreNext
  <2>3. QED
        BY <1>8, <2>2 DEF HandleComplete, LeaseConflict
<1>9. ASSUME NEW k \in Connections, HandleFail(k)
      PROVE  StoreNext \/ UNCHANGED storeVars
  <2> DEFINE r == conn[k].request
  <2>1. /\ r.commandId \in Commands /\ r.agentId \in Agents
        /\ r.leaseId \in 1..MaxLeases /\ r.result \in Results
        BY <1>1, <1>9, RequestFields DEF HandleFail, Serves, Asks
  <2>2. CASE FailCommand(r.commandId, r.agentId, r.leaseId, r.result)
    <3>1. r.leaseId \in 1..lastLease
          BY <2>1, <2>2, CurrentLeaseIssued DEF FailCommand
    <3>2. QED
          BY <2>1, <2>2, <3>1 DEF StoreNext
  <2>3. QED
        BY <1>9, <2>2 DEF HandleFail, LeaseConflict
<1>10. CASE ListenerErrs \/ Signal
       BY <1>10 DEF ListenerErrs, Signal
<1>11. CASE Drained \/ Forced \/ Crashes
       BY <1>11 DEF Drained, Forced, Crashes, Exits, StoreNext
<1>12. CASE TimePasses
       BY <1>12 DEF TimePasses, StoreNext
<1>13. QED
       BY <1>2, <1>3, <1>4, <1>5, <1>6, <1>7, <1>8, <1>9, <1>10, <1>11, <1>12 DEF Next

-----------------------------------------------------------------------------
Status == {200, 201, 204, 400, 404, 409, 500, Null}

(* An answer keeps the request and opens no connection.                    *)
LEMMA AnswerType ==
    ASSUME conn \in [Connections -> Connection \cup {Null}], NEW k \in Open,
           NEW status \in Status, NEW body \in Body, Respond(k, status, body)
    PROVE  /\ conn' \in [Connections -> Connection \cup {Null}]
           /\ Open' \subseteq Open
           /\ conn'[k] = [request |-> conn[k].request, status |-> status, body |-> body]
           /\ \A j \in Connections : j # k => conn'[j] = conn[j]
<1>1. k \in Connections /\ conn[k].request \in Request
      BY DEF Open, Connection
<1>2. [request |-> conn[k].request, status |-> status, body |-> body] \in Connection
      BY <1>1 DEF Connection, Status
<1>3. /\ conn'[k] = [request |-> conn[k].request, status |-> status, body |-> body]
      /\ \A j \in Connections : j # k => conn'[j] = conn[j]
      /\ conn' \in [Connections -> Connection \cup {Null}]
      BY <1>1, <1>2 DEF Respond
<1>4. QED
      BY <1>1, <1>3 DEF Open

(* What a handler answers.                                                 *)
LEMMA HandlerAnswers ==
    ASSUME TableOK, StoreTypeOK', NEW k \in Connections,
           \/ HandleInvalid(k) \/ HandleWithoutDatabase(k)
           \/ HandleCreate(k) \/ HandleGet(k) \/ HandleClaim(k)
           \/ HandleHeartbeat(k) \/ HandleComplete(k) \/ HandleFail(k)
    PROVE  /\ k \in Open
           /\ serverUp' = serverUp
           /\ \E status \in Status, body \in Body : Respond(k, status, body)
           /\ \/ UNCHANGED accepted
              \/ /\ AnswerAccepted(k)
                 /\ conn[k].request.op \in {"complete", "fail"}
<1> USE DEF TableOK
<1>1. k \in Open
      BY DEF HandleInvalid, HandleWithoutDatabase, HandleCreate, HandleGet, HandleClaim,
             HandleHeartbeat, HandleComplete, HandleFail, Serves, Asks
<1>2. conn[k].request \in Request
      BY <1>1 DEF ServerTypeOK, Open, Connection
<1>3. Null \in Body /\ Commands \subseteq Body
      BY DEF Body
<1>4. CASE HandleInvalid(k) \/ HandleWithoutDatabase(k)
      BY <1>1, <1>3, <1>4 DEF HandleInvalid, HandleWithoutDatabase, Answer, Status, storeVars
<1>5. CASE HandleCreate(k)
      BY <1>1, <1>3, <1>5 DEF HandleCreate, Answer, CreateCommand, Status
<1>6. CASE HandleGet(k)
  <2> DEFINE c == conn[k].request.commandId
  <2>1. CASE c \in Created
    <3>1. commands[c] \in Row
          BY <2>1 DEF Created, StoreTypeOK
    <3>2. Shown(commands[c]) \in Body
          BY <3>1 DEF Shown, Row, Body
    <3>3. QED
          BY <1>1, <1>6, <2>1, <3>2 DEF HandleGet, Answer, Status, storeVars
  <2>2. CASE c \notin Created
        BY <1>1, <1>3, <1>6, <2>2 DEF HandleGet, Answer, Status, storeVars
  <2>3. QED
        BY <2>1, <2>2
<1>7. CASE HandleClaim(k)
  <2>1. conn[k].request.agentId \in Agents /\ conn[k].request.maxLeaseMs \in LeaseMs
        BY <1>2, <1>7, RequestFields DEF HandleClaim, Serves, Asks
  <2>2. ASSUME NEW c \in Commands,
               ClaimCommand(c, conn[k].request.agentId, conn[k].request.maxLeaseMs),
               Answer(k, 200, [commandId |-> c, leaseId |-> commands'[c].leaseId])
        PROVE  [commandId |-> c, leaseId |-> commands'[c].leaseId] \in Body /\ serverUp' = serverUp
    <3>1. commands[c] \in Row /\ lastLease + 1 \in LeaseId
          BY <2>2 DEF ClaimCommand, OldestPending, InStatus, Created, StoreTypeOK, LeaseId
    <3>2. commands'[c].leaseId = lastLease + 1
          BY <2>2, <3>1 DEF ClaimCommand, Claimed, FreshLease, StoreTypeOK, Row
    <3>3. QED
          BY <2>2, <3>1, <3>2 DEF Body, ClaimCommand
  <2>3. ASSUME InStatus("PENDING") = {}, Answer(k, 204, Null), UNCHANGED storeVars
        PROVE  (\E status \in Status, body \in Body : Answer(k, status, body)) /\ serverUp' = serverUp
        BY <1>3, <2>3 DEF Status, storeVars
  <2>4. (\E status \in Status, body \in Body : Answer(k, status, body)) /\ serverUp' = serverUp
    <3>1. 200 \in Status
          BY DEF Status
    <3>2. QED
          BY <1>7, <2>2, <2>3, <3>1 DEF HandleClaim
  <2>5. QED
        BY <1>1, <2>4 DEF Answer
<1>8. CASE HandleHeartbeat(k)
      BY <1>1, <1>3, <1>8 DEF HandleHeartbeat, Answer, Heartbeat, LeaseConflict, Status, storeVars
<1>9. CASE HandleComplete(k) \/ HandleFail(k)
      BY <1>1, <1>3, <1>9 DEF HandleComplete, HandleFail, CompleteCommand, FailCommand,
                              Answer, AnswerAccepted, LeaseConflict, Serves, Asks, Status, storeVars
<1>10. QED
       BY <1>4, <1>5, <1>6, <1>7, <1>8, <1>9

(* Each action keeps the types of the connections and of the process.      *)
LEMMA ServerTypeStep == TableOK /\ StoreTypeOK' /\ [Next]_vars => ServerTypeOK'
<1> SUFFICES ASSUME TableOK, StoreTypeOK', [Next]_vars
             PROVE  ServerTypeOK'
    OBVIOUS
<1> USE DEF TableOK, ServerTypeOK
<1>1. CASE UNCHANGED vars
      BY <1>1 DEF vars, storeVars, serverVars, Draining, Open
<1>2. ASSUME NEW listening \in BOOLEAN, Starts(listening)
      PROVE  ServerTypeOK'
      BY <1>2 DEF Starts, ServerStart, Draining, Open
<1>3. ASSUME NEW k \in Connections, NEW request \in Request, Accepts(k, request)
      PROVE  ServerTypeOK'
  <2>1. [request |-> request, status |-> Null, body |-> Null] \in Connection
        BY DEF Connection, Body
  <2>2. conn' \in [Connections -> Connection \cup {Null}]
        BY <1>3, <2>1 DEF Accepts
  <2>3. QED
        BY <1>3, <2>2 DEF Accepts, storeVars, Draining, Open
<1>4. ASSUME NEW k \in Connections,
             \/ HandleInvalid(k) \/ HandleWithoutDatabase(k)
             \/ HandleCreate(k) \/ HandleGet(k) \/ HandleClaim(k)
             \/ HandleHeartbeat(k) \/ HandleComplete(k) \/ HandleFail(k)
      PROVE  ServerTypeOK'
  <2>1. k \in Open /\ serverUp' = serverUp /\ conn[k].request \in Request
        BY <1>4, HandlerAnswers DEF Open, Connection
  <2>2. PICK status \in Status, body \in Body : Respond(k, status, body)
        BY <1>4, HandlerAnswers
  <2>3. conn' \in [Connections -> Connection \cup {Null}] /\ Open' \subseteq Open
        BY <2>1, <2>2, AnswerType
  <2>4. accepted' \in [Commands -> Nat]
    <3>1. CASE UNCHANGED accepted
          BY <3>1
    <3>2. CASE AnswerAccepted(k) /\ conn[k].request.op \in {"complete", "fail"}
      <4>1. conn[k].request.commandId \in Commands
            BY <2>1, <3>2, RequestFields
      <4>2. QED
            BY <3>2, <4>1 DEF AnswerAccepted
    <3>3. QED
          BY <1>4, <3>1, <3>2, HandlerAnswers
  <2>5. QED
        BY <2>1, <2>2, <2>3, <2>4 DEF Respond, Draining
<1>5. ASSUME NEW k \in Connections, Delivers(k) \/ Breaks(k)
      PROVE  ServerTypeOK'
      BY <1>5 DEF Delivers, Breaks, storeVars, Draining, Open
<1>6. CASE ListenerErrs
      BY <1>6 DEF ListenerErrs, storeVars, Draining, Open
<1>7. CASE Signal
      BY <1>7, ServerAssumption DEF Signal, storeVars, Draining, Open
<1>8. CASE Drained \/ Forced \/ Crashes
      BY <1>8 DEF Drained, Forced, Crashes, Exits, ServerStop, Draining, Open
<1>9. CASE TimePasses
  <2>1. forceIn' \in 0..ForceMs \cup {Null} /\ (forceIn' # Null => forceIn # Null)
        BY <1>9, ServerAssumption DEF TimePasses, Draining
  <2>2. QED
        BY <1>9, <2>1 DEF TimePasses, Tick, Draining, Open
<1>10. QED
       BY <1>1, <1>2, <1>3, <1>4, <1>5, <1>6, <1>7, <1>8, <1>9 DEF Next

LEMMA TableOKInvariant == Spec => []TableOK
<1>1. Init => TableOK
  <2> SUFFICES ASSUME Init PROVE TableOK
      OBVIOUS
  <2>1. StoreInit
        BY DEF Init
  <2>2. ServerTypeOK
        BY DEF Init, ServerTypeOK, Open, Draining
  <2>3. StoreTypeOK
    <3>1. commands \in [Commands -> Row \cup {Null}]
          BY <2>1 DEF StoreInit
    <3>2. now \in Time /\ lastLease \in Nat
          BY <2>1 DEF StoreInit, Time
    <3>3. serverUp \in BOOLEAN
          BY <2>1 DEF StoreInit
    <3>4. QED
          BY <3>1, <3>2, <3>3 DEF StoreTypeOK
  <2>4. LeaseExclusive
        BY <2>1 DEF StoreInit, LeaseExclusive, Created
  <2>5. QED
        BY <2>2, <2>3, <2>4 DEF TableOK
<1>2. TableOK /\ [Next]_vars => TableOK'
      BY StepOfStore, TypeStep, LeaseExclusiveStep, ServerTypeStep DEF TableOK
<1>3. QED
      BY <1>1, <1>2, PTL DEF Spec

(* Requests, connections and the state of the process keep their types.    *)
THEOREM ServerTypeCorrect == Spec => []ServerTypeOK
BY TableOKInvariant, PTL DEF TableOK

(* Whatever requests come, break off or meet a closed database, the table  *)
(* only makes steps of CommandStore, so all its theorems hold of a server. *)
THEOREM ServerImplementsStore == Spec => ImplementsStore
<1>1. Init => StoreInit
      BY DEF Init
<1>2. TableOK /\ [Next]_vars => [StoreNext]_storeVars
      BY StepOfStore
<1>3. QED
      BY <1>1, <1>2, TableOKInvariant, PTL DEF Spec, ImplementsStore, StoreSpec

-----------------------------------------------------------------------------
(* Reports are counted once: an accepted report leaves a finished command. *)
ReportsCounted ==
    \A c \in Commands :
        /\ accepted[c] \in {0, 1}
        /\ accepted[c] = 1 => c \in InStatus("COMPLETED") \cup InStatus("FAILED")

(* Finished commands stay finished.                                        *)
LEMMA FinishedStays ==
    ASSUME StoreTypeOK, [StoreNext]_storeVars,
           NEW c \in InStatus("COMPLETED") \cup InStatus("FAILED")
    PROVE  /\ commands'[c] = commands[c]
           /\ c \in InStatus("COMPLETED") => c \in InStatus("COMPLETED")'
           /\ c \in InStatus("FAILED") => c \in InStatus("FAILED")'
<1>1. commands'[c] = commands[c]
      BY TerminalStep
<1>2. QED
      BY <1>1 DEF InStatus, Created

(* What the end of a command puts into its row.                            *)
LEMMA FinishedFields ==
    ASSUME NEW row \in Row, NEW status \in CommandStatus,
           NEW result \in CommandResult \cup {Null}
    PROVE  Finished(row, status, result).status = status /\ Finished(row, status, result).result = result
BY DEF Finished, Row

(* The row after a report was accepted.                                    *)
LEMMA ReportAccepted ==
    ASSUME StoreTypeOK, StoreTypeOK', NEW c \in Commands, NEW a, NEW l,
           NEW result \in CommandResult \cup {Null},
           NEW status \in {"COMPLETED", "FAILED"},
           IsCurrentLease(c, a, l),
           commands' = [commands EXCEPT ![c] = Finished(commands[c], status, result)]
    PROVE  /\ c \in InStatus(status)'
           /\ c \notin InStatus("COMPLETED") \cup InStatus("FAILED")
<1>1. commands[c] \in Row /\ commands[c] # Null /\ commands[c].status = "RUNNING"
      BY DEF IsCurrentLease, InStatus, Created, StoreTypeOK
<1>2. commands'[c] = Finished(commands[c], status, result)
      BY DEF StoreTypeOK
<1>3. commands'[c].status = status
      BY <1>1, <1>2, FinishedFields DEF CommandStatus
<1>4. commands'[c] # Null
      BY <1>1, <1>2, FinishedType, NullRowAssumption DEF CommandStatus
<1>5. QED
      BY <1>1, <1>3, <1>4 DEF InStatus, Created

(* Which steps change the count, and that the others leave it alone.       *)
LEMMA CountedOnce ==
    ASSUME TableOK, [Next]_vars
    PROVE  \/ UNCHANGED accepted
           \/ \E k \in Connections : HandleComplete(k) \/ HandleFail(k)
<1> USE DEF Answer
<1>1. CASE UNCHANGED vars
      BY <1>1 DEF vars, serverVars
<1>2. ASSUME NEW listening \in BOOLEAN, Starts(listening)
      PROVE  UNCHANGED accepted
      BY <1>2 DEF Starts
<1>3. ASSUME NEW k \in Connections, NEW request \in Request, Accepts(k, request)
      PROVE  UNCHANGED accepted
      BY <1>3 DEF Accepts
<1>4. ASSUME NEW k \in Connections,
             \/ HandleInvalid(k) \/ HandleWithoutDatabase(k) \/ HandleCreate(k)
             \/ HandleGet(k) \/ HandleClaim(k) \/ HandleHeartbeat(k)
      PROVE  UNCHANGED accepted
      BY <1>4 DEF HandleInvalid, HandleWithoutDatabase, HandleCreate, HandleGet,
                  HandleClaim, HandleHeartbeat, LeaseConflict
<1>5. ASSUME NEW k \in Connections, Delivers(k) \/ Breaks(k)
      PROVE  UNCHANGED accepted
      BY <1>5 DEF Delivers, Breaks
<1>6. CASE ListenerErrs \/ Signal \/ Drained \/ Forced \/ Crashes \/ TimePasses
      BY <1>6 DEF ListenerErrs, Signal, Drained, Forced, Crashes, Exits, TimePasses
<1>7. QED
      BY <1>1, <1>2, <1>3, <1>4, <1>5, <1>6 DEF Next

LEMMA ReportsCountedStep == TableOK /\ TableOK' /\ ReportsCounted /\ [Next]_vars => ReportsCounted'
<1> SUFFICES ASSUME TableOK, TableOK', ReportsCounted, [Next]_vars
             PROVE  ReportsCounted'
    OBVIOUS
<1>1. StoreTypeOK /\ StoreTypeOK' /\ [StoreNext]_storeVars
      BY StepOfStore DEF TableOK
<1>2. ASSUME NEW c \in Commands, accepted'[c] = accepted[c]
      PROVE  /\ accepted'[c] \in {0, 1}
             /\ accepted'[c] = 1 => c \in (InStatus("COMPLETED") \cup InStatus("FAILED"))'
      BY <1>1, <1>2, FinishedStays DEF ReportsCounted
<1>3. CASE UNCHANGED accepted
      BY <1>2, <1>3 DEF ReportsCounted
<1>4. ASSUME NEW k \in Connections, HandleComplete(k) \/ HandleFail(k), accepted' # accepted
      PROVE  ReportsCounted'
  <2> DEFINE r == conn[k].request
  <2>1. r \in Request /\ r.op \in {"complete", "fail"}
        BY <1>4 DEF HandleComplete, HandleFail, Serves, Asks, Open, TableOK, ServerTypeOK,
                    Connection
  <2>2. r.commandId \in Commands /\ r.result \in CommandResult \cup {Null}
        BY <2>1, RequestFields, ResultsAssumption
  <2>3. AnswerAccepted(k)
        BY <1>4 DEF HandleComplete, HandleFail, LeaseConflict, Answer
  <2>4. PICK status \in {"COMPLETED", "FAILED"} :
            /\ IsCurrentLease(r.commandId, r.agentId, r.leaseId)
            /\ commands' = [commands EXCEPT ![r.commandId] =
                                Finished(commands[r.commandId], status, r.result)]
        BY <1>4 DEF HandleComplete, HandleFail, LeaseConflict, Answer, CompleteCommand, FailCommand
  <2>5. /\ r.commandId \in InStatus(status)'
        /\ r.commandId \notin InStatus("COMPLETED") \cup InStatus("FAILED")
        BY <1>1, <2>2, <2>4, ReportAccepted
  <2>6. accepted[r.commandId] = 0
        BY <2>2, <2>5 DEF ReportsCounted
  <2>7. accepted'[r.commandId] = 1 /\ \A c \in Commands : c # r.commandId => accepted'[c] = accepted[c]
        BY <2>2, <2>3, <2>6 DEF AnswerAccepted, TableOK, ServerTypeOK
  <2>8. ASSUME NEW c \in Commands
        PROVE  /\ accepted'[c] \in {0, 1}
               /\ accepted'[c] = 1 => c \in (InStatus("COMPLETED") \cup InStatus("FAILED"))'
        BY <1>2, <2>5, <2>7
  <2>9. QED
        BY <2>8 DEF ReportsCounted
<1>5. QED
      BY <1>3, <1>4, CountedOnce

(* README.md:475, "each command executed at most once successfully", for   *)
(* any number of clients, repetitions, crashes and restarts: of all        *)
(* reports about a command at most one is accepted.                        *)
THEOREM OneReportEverAccepted == Spec => []OneReportAccepted
<1>1. Init => ReportsCounted
      BY DEF Init, ReportsCounted
<1>2. ReportsCounted => OneReportAccepted
      BY DEF ReportsCounted, OneReportAccepted
<1>3. QED
      BY <1>1, <1>2, ReportsCountedStep, TableOKInvariant, PTL DEF Spec

-----------------------------------------------------------------------------
(* What the table says of an answer once true remains true.                *)
LEMMA HonestStays ==
    ASSUME StoreTypeOK, StoreTypeOK', [StoreNext]_storeVars,
           NEW answer, answer \in Connection, Binding(answer), Honest(answer)
    PROVE  Honest(answer)'
<1> DEFINE r == answer.request
<1>1. CASE r.op = "create"
      BY <1>1, CreatedStays DEF Honest, Created
<1>2. CASE r.op = "complete"
      BY <1>2, FinishedStays DEF Honest
<1>3. CASE r.op = "fail"
      BY <1>3, FinishedStays DEF Honest
<1>4. CASE r.op = "get"
  <2>1. /\ r.commandId \in Created
        /\ Shown(commands[r.commandId]) = answer.body
        /\ answer.body.status \in {"COMPLETED", "FAILED"}
        BY <1>4 DEF Honest, Binding
  <2>2. commands[r.commandId].status \in {"COMPLETED", "FAILED"}
        BY <2>1 DEF Shown
  <2>3. r.commandId \in InStatus("COMPLETED") \cup InStatus("FAILED")
        BY <2>1, <2>2 DEF InStatus
  <2>4. commands'[r.commandId] = commands[r.commandId]
        BY <2>3, TerminalStep
  <2>5. r.commandId \in Created'
        BY <2>1, <2>4 DEF Created
  <2>6. QED
        BY <1>4, <2>1, <2>4, <2>5 DEF Honest
<1>5. QED
      BY <1>1, <1>2, <1>3, <1>4 DEF Binding

(* A binding answer is true when a handler gives it.                       *)
LEMMA AnswersHonest ==
    ASSUME TableOK, TableOK', [StoreNext]_storeVars, NEW k \in Connections,
           \/ HandleInvalid(k) \/ HandleWithoutDatabase(k)
           \/ HandleCreate(k) \/ HandleGet(k) \/ HandleClaim(k)
           \/ HandleHeartbeat(k) \/ HandleComplete(k) \/ HandleFail(k),
           NEW answer, answer = conn'[k], Binding(answer)
    PROVE  Honest(answer)'
<1> DEFINE r == conn[k].request
<1>1. k \in Open /\ StoreTypeOK /\ StoreTypeOK'
      BY HandlerAnswers DEF TableOK
<1>2. r \in Request
      BY <1>1 DEF TableOK, ServerTypeOK, Open, Connection
<1>3. ASSUME NEW status, NEW body, Respond(k, status, body)
      PROVE  answer.request = r /\ answer.status = status /\ answer.body = body
      BY <1>3 DEF Respond, TableOK, ServerTypeOK
<1>4. ASSUME NEW status, NEW body, Respond(k, status, body), status \in {400, 404, 409, 500}
      PROVE  FALSE
      BY <1>3, <1>4 DEF Binding
<1>5. answer.request = r
  <2>1. PICK status \in Status, body \in Body : Respond(k, status, body)
        BY HandlerAnswers DEF TableOK
  <2>2. QED
        BY <1>3, <2>1
<1>6. CASE HandleInvalid(k) \/ HandleWithoutDatabase(k)
      BY <1>4, <1>6 DEF HandleInvalid, HandleWithoutDatabase, Answer
<1>7. CASE HandleClaim(k) \/ HandleHeartbeat(k)
      BY <1>5, <1>7 DEF HandleClaim, HandleHeartbeat, Serves, Asks, Binding
<1>8. CASE HandleCreate(k)
  <2>1. PICK c \in Commands : CreateCommand(c, r.payload) /\ Respond(k, 201, c)
        BY <1>8 DEF HandleCreate, Answer
  <2>2. answer.body = c /\ r.op = "create"
        BY <1>3, <1>8, <2>1 DEF HandleCreate, Serves, Asks
  <2>3. r.payload \in CommandPayload
        BY <1>2, <2>2, RequestFields
  <2>4. commands'[c].payload = r.payload
        BY <1>1, <2>1 DEF CreateCommand, StoreTypeOK
  <2>5. commands'[c] \in Row
        BY <1>1, <2>1, <2>3, CreatedRowType DEF CreateCommand, StoreTypeOK
  <2>6. c \in Created'
        BY <2>5, NullRowAssumption DEF Created
  <2>7. QED
        BY <1>5, <2>2, <2>4, <2>6 DEF Honest
<1>9. CASE HandleGet(k)
  <2>1. r.op = "get" /\ UNCHANGED storeVars
        BY <1>9 DEF HandleGet, Serves, Asks
  <2>2. r.commandId \in Created /\ Respond(k, 200, Shown(commands[r.commandId]))
        BY <1>4, <1>9 DEF HandleGet, Answer
  <2>3. answer.body = Shown(commands[r.commandId])
        BY <1>3, <2>2
  <2>4. commands' = commands
        BY <2>1 DEF storeVars
  <2>5. r.commandId \in Created'
        BY <2>2, <2>4 DEF Created
  <2>6. QED
        BY <1>5, <2>1, <2>3, <2>4, <2>5 DEF Honest, Shown
<1>10. CASE HandleComplete(k)
  <2>1. CompleteCommand(r.commandId, r.agentId, r.leaseId, r.result) /\ r.op = "complete"
        BY <1>4, <1>10 DEF HandleComplete, LeaseConflict, Answer, Serves, Asks
  <2>2. r.commandId \in Commands /\ r.result \in CommandResult \cup {Null}
        BY <1>2, <2>1, RequestFields, ResultsAssumption
  <2>3. /\ IsCurrentLease(r.commandId, r.agentId, r.leaseId)
        /\ commands' = [commands EXCEPT ![r.commandId] =
                            Finished(commands[r.commandId], "COMPLETED", r.result)]
        BY <2>1 DEF CompleteCommand
  <2>4. r.commandId \in InStatus("COMPLETED")'
        BY <1>1, <2>2, <2>3, ReportAccepted
  <2>5. commands'[r.commandId].result = r.result
    <3>1. commands[r.commandId] \in Row
          BY <1>1, <2>3 DEF IsCurrentLease, InStatus, Created, StoreTypeOK
    <3>2. commands'[r.commandId] = Finished(commands[r.commandId], "COMPLETED", r.result)
          BY <1>1, <2>2, <2>3 DEF StoreTypeOK
    <3>3. QED
          BY <2>2, <3>1, <3>2, FinishedFields DEF CommandStatus
  <2>6. QED
        BY <1>5, <2>1, <2>4, <2>5 DEF Honest
<1>11. CASE HandleFail(k)
  <2>1. FailCommand(r.commandId, r.agentId, r.leaseId, r.result) /\ r.op = "fail"
        BY <1>4, <1>11 DEF HandleFail, LeaseConflict, Answer, Serves, Asks
  <2>2. r.commandId \in Commands /\ r.result \in CommandResult \cup {Null}
        BY <1>2, <2>1, RequestFields, ResultsAssumption
  <2>3. r.commandId \in InStatus("FAILED")'
        BY <1>1, <2>1, <2>2, ReportAccepted DEF FailCommand
  <2>4. QED
        BY <1>5, <2>1, <2>3 DEF Honest
<1>12. QED
       BY <1>6, <1>7, <1>8, <1>9, <1>10, <1>11

(* The answers under way are as true as those that arrived.                *)
AnswersTrue ==
    /\ \A answer \in told : Binding(answer) /\ Honest(answer)
    /\ \A k \in Open : Binding(conn[k]) => Honest(conn[k])

(* What a step does to the connections and to what was told.               *)
LEMMA AnswerFate ==
    ASSUME TableOK, StoreTypeOK', [Next]_vars,
           NEW j \in Connections, conn'[j] # Null, conn'[j] # conn[j]
    PROVE  \/ conn'[j].status = Null
           \/ \/ HandleInvalid(j) \/ HandleWithoutDatabase(j)
              \/ HandleCreate(j) \/ HandleGet(j) \/ HandleClaim(j)
              \/ HandleHeartbeat(j) \/ HandleComplete(j) \/ HandleFail(j)
<1> USE DEF TableOK, ServerTypeOK
<1>1. CASE UNCHANGED vars
      BY <1>1 DEF vars, serverVars
<1>2. ASSUME NEW listening \in BOOLEAN, Starts(listening)
      PROVE  FALSE
      BY <1>2 DEF Starts
<1>3. ASSUME NEW k \in Connections, NEW request \in Request, Accepts(k, request)
      PROVE  conn'[j].status = Null
      BY <1>3 DEF Accepts
<1>4. ASSUME NEW k \in Connections,
             \/ HandleInvalid(k) \/ HandleWithoutDatabase(k)
             \/ HandleCreate(k) \/ HandleGet(k) \/ HandleClaim(k)
             \/ HandleHeartbeat(k) \/ HandleComplete(k) \/ HandleFail(k)
      PROVE  j = k
  <2>1. PICK status \in Status, body \in Body : Respond(k, status, body)
        BY <1>4, HandlerAnswers
  <2>2. QED
        BY <2>1 DEF Respond
<1>5. ASSUME NEW k \in Connections, Delivers(k) \/ Breaks(k)
      PROVE  FALSE
      BY <1>5 DEF Delivers, Breaks
<1>6. CASE ListenerErrs \/ Signal \/ TimePasses
      BY <1>6 DEF ListenerErrs, Signal, TimePasses
<1>7. CASE Drained \/ Forced \/ Crashes
      BY <1>7 DEF Drained, Forced, Crashes, Exits
<1>8. QED
      BY <1>1, <1>2, <1>3, <1>4, <1>5, <1>6, <1>7 DEF Next

LEMMA ToldFate ==
    ASSUME TableOK, StoreTypeOK', [Next]_vars, NEW answer \in told', answer \notin told
    PROVE  \E k \in Open : answer = conn[k] /\ Binding(answer)
<1>1. ASSUME NEW k \in Connections, Delivers(k)
      PROVE  \E j \in Open : answer = conn[j] /\ Binding(answer)
      BY <1>1 DEF Delivers
<1>2. ASSUME NEW k \in Connections,
             \/ HandleInvalid(k) \/ HandleWithoutDatabase(k)
             \/ HandleCreate(k) \/ HandleGet(k) \/ HandleClaim(k)
             \/ HandleHeartbeat(k) \/ HandleComplete(k) \/ HandleFail(k)
      PROVE  FALSE
  <2>1. PICK status \in Status, body \in Body : Respond(k, status, body)
        BY <1>2, HandlerAnswers
  <2>2. QED
        BY <2>1 DEF Respond
<1>3. ASSUME NEW k \in Connections, Breaks(k) \/ \E request \in Request : Accepts(k, request)
      PROVE  FALSE
      BY <1>3 DEF Accepts, Breaks
<1>4. CASE UNCHANGED vars \/ \E listening \in BOOLEAN : Starts(listening)
      BY <1>4 DEF vars, serverVars, Starts
<1>5. CASE ListenerErrs \/ Signal \/ Drained \/ Forced \/ Crashes \/ TimePasses
      BY <1>5 DEF ListenerErrs, Signal, Drained, Forced, Crashes, Exits, TimePasses
<1>6. QED
      BY <1>1, <1>2, <1>3, <1>4, <1>5 DEF Next

LEMMA AnswersTrueStep == TableOK /\ TableOK' /\ AnswersTrue /\ [Next]_vars => AnswersTrue'
<1> SUFFICES ASSUME TableOK, TableOK', AnswersTrue, [Next]_vars
             PROVE  AnswersTrue'
    OBVIOUS
<1>1. StoreTypeOK /\ StoreTypeOK' /\ [StoreNext]_storeVars
      BY StepOfStore DEF TableOK
<1>2. ASSUME NEW answer \in told'
      PROVE  Binding(answer) /\ Honest(answer)'
  <2>1. Binding(answer) /\ Honest(answer)
        BY <1>1, ToldFate DEF AnswersTrue
  <2>2. answer \in Connection
        BY DEF TableOK, ServerTypeOK
  <2>3. QED
        BY <1>1, <2>1, <2>2, HonestStays
<1>3. ASSUME NEW k \in Connections, NEW answer, answer = conn'[k], answer # Null, Binding(answer)
      PROVE  Honest(answer)'
  <2>1. CASE answer = conn[k]
    <3>1. k \in Open /\ answer \in Connection
          BY <1>3, <2>1 DEF Open, TableOK, ServerTypeOK
    <3>2. Honest(answer)
          BY <1>3, <2>1, <3>1 DEF AnswersTrue
    <3>3. QED
          BY <1>1, <1>3, <3>1, <3>2, HonestStays
  <2>2. CASE answer.status = Null
        BY <1>3, <2>2, NullAssumption DEF Binding
  <2>3. CASE \/ HandleInvalid(k) \/ HandleWithoutDatabase(k)
             \/ HandleCreate(k) \/ HandleGet(k) \/ HandleClaim(k)
             \/ HandleHeartbeat(k) \/ HandleComplete(k) \/ HandleFail(k)
        BY <1>1, <1>3, <2>3, AnswersHonest
  <2>4. QED
        BY <1>1, <1>3, <2>1, <2>2, <2>3, AnswerFate
<1>4. QED
      BY <1>2, <1>3 DEF AnswersTrue, Open

(* What any client was ever told of a command stays true, through crashes, *)
(* restarts, lost leases and whatever the other clients ask for.           *)
THEOREM ToldStaysTrueForever == Spec => []ToldStaysTrue
<1>1. Init => AnswersTrue
      BY DEF Init, AnswersTrue, Open
<1>2. AnswersTrue => ToldStaysTrue
      BY DEF AnswersTrue, ToldStaysTrue
<1>3. QED
      BY <1>1, <1>2, AnswersTrueStep, TableOKInvariant, PTL DEF Spec
=============================================================================
