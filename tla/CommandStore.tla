---------------------------- MODULE CommandStore ----------------------------
(***************************************************************************)
(* The server's command table and the operations the HTTP routes perform   *)
(* on it: packages/server/src/store, called through                        *)
(* service/command-service.ts and routes/commands.ts.                      *)
(*                                                                         *)
(* better-sqlite3 is synchronous and no handler awaits between reading the *)
(* clock and running its statement, so every operation is one atomic step. *)
(* A committed row survives the process; "serverUp" is the only state a    *)
(* stop of the server loses.  An operation that finds its lease not        *)
(* current changes nothing and answers 409: here its action is disabled,   *)
(* and the modules that compose the store with agents send the reply.      *)
(*                                                                         *)
(* randomUUID() gives a lease id never seen before; "lastLease" counts     *)
(* them.  The error column of failCommand is text no property tells apart  *)
(* and is left out.  "now", the Date.now() of the service, only moves      *)
(* forward here; a wall clock that is set back is not modelled.            *)
(***************************************************************************)
EXTENDS SharedTypes, FiniteSets

CONSTANTS
    LeaseMs,    \* values of "maxLeaseMs" in claim requests
    ExtendMs,   \* values of "extendMs" in heartbeat requests
    Results,    \* results that complete and fail requests carry
    MaxNow,     \* bound: the clock stops here
    MaxLeases   \* bound: claims granted in one behaviour

ASSUME LeaseMsAssumption == LeaseMs \subseteq Int /\ ExtendMs \subseteq Int

ASSUME BoundsAssumption == MaxNow \in Nat /\ MaxLeases \in Nat

ASSUME ResultsAssumption == Results \subseteq CommandResult


VARIABLES
    now,        \* Date.now() of the server
    serverUp,   \* the process listens for requests
    commands,   \* the commands table: a row, or Null for an id not created yet
    lastLease   \* the number of lease ids drawn so far

storeVars == <<now, serverUp, commands, lastLease>>

Row ==
    [payload        : CommandPayload,
     status         : CommandStatus,
     createdAt      : Time,
     agentId        : Agents \cup {Null},
     leaseId        : LeaseId \cup {Null},
     leaseExpiresAt : Time \cup {Null},
     startedAt      : Time \cup {Null},
     scheduledEndAt : Time \cup {Null},
     attempt        : Nat,
     result         : CommandResult \cup {Null}]

ASSUME NullRowAssumption == Null \notin Row /\ Null \notin CommandResult

Created == {c \in Commands : commands[c] # Null}

InStatus(s) == {c \in Created : commands[c].status = s}

(* Mutants: the UPDATE does not ask for RUNNING; nor for the lease; or it  *)
(* also asks that the lease has not run out.                               *)
IsLeaseOfAnyStatus(c, a, l) ==
    /\ c \in Created
    /\ commands[c].agentId = a
    /\ commands[c].leaseId = l

IsRunningAgent(c, a, l) ==
    /\ c \in InStatus("RUNNING")
    /\ commands[c].agentId = a

IsUnexpiredLease(c, a, l) ==
    /\ c \in InStatus("RUNNING")
    /\ commands[c].agentId = a
    /\ commands[c].leaseId = l
    /\ commands[c].leaseExpiresAt > now

(* WHERE id = ? AND status = 'RUNNING' AND agentId = ? AND leaseId = ?     *)
IsCurrentLease(c, a, l) ==
    /\ c \in InStatus("RUNNING")
    /\ commands[c].agentId = a
    /\ commands[c].leaseId = l

(* Mutant: startup recovery takes every RUNNING command back.              *)
AllRunning == InStatus("RUNNING")

(* WHERE status = 'RUNNING' AND leaseExpiresAt IS NOT NULL AND             *)
(* leaseExpiresAt <= ?                                                     *)
ExpiredLeases ==
    {c \in InStatus("RUNNING") :
        /\ commands[c].leaseExpiresAt # Null
        /\ commands[c].leaseExpiresAt <= now}

(* Mutants: no ORDER BY; a command is not handed out twice.                *)
AnyPending == InStatus("PENDING")

NeverTried == {c \in InStatus("PENDING") : commands[c].attempt = 0}

(* ORDER BY createdAt ASC LIMIT 1: any of the oldest, when several         *)
(* commands were created in the same millisecond.                          *)
OldestPending ==
    {c \in InStatus("PENDING") :
        \A d \in InStatus("PENDING") : commands[c].createdAt <= commands[d].createdAt}

(* Mutants: a lease id made from the clock; the first one counted from 0.  *)
LeaseFromClock == now + 1

LeaseFromZero == lastLease

(* randomUUID()                                                            *)
FreshLease == lastLease + 1

-----------------------------------------------------------------------------
StoreInit ==
    /\ now = 0
    /\ serverUp = FALSE
    /\ commands = [c \in Commands |-> Null]
    /\ lastLease = 0

Tick ==
    /\ now < MaxNow
    /\ now' = now + 1
    /\ UNCHANGED <<serverUp, commands, lastLease>>

(* POST /commands, after validation.                                       *)
CreateCommand(c, payload) ==
    /\ serverUp
    /\ commands[c] = Null
    /\ commands' = [commands EXCEPT ![c] =
           [payload        |-> payload,
            status         |-> "PENDING",
            createdAt      |-> now,
            agentId        |-> Null,
            leaseId        |-> Null,
            leaseExpiresAt |-> Null,
            startedAt      |-> Null,
            scheduledEndAt |-> Null,
            attempt        |-> 0,
            result         |-> Null]]
    /\ UNCHANGED <<now, serverUp, lastLease>>

(* Only a DELAY has a scheduled end.                                       *)
ScheduledEnd(payload, startedAt) ==
    IF payload.type = "DELAY" THEN startedAt + payload.ms ELSE Null

(* The row UPDATE_CLAIM leaves, for a claim at time t.                     *)
Claimed(row, a, lease, expiresAt, t) ==
    [row EXCEPT !.status         = "RUNNING",
                !.agentId        = a,
                !.leaseId        = lease,
                !.leaseExpiresAt = expiresAt,
                !.startedAt      = t,
                !.scheduledEndAt = ScheduledEnd(row.payload, t),
                !.attempt        = row.attempt + 1]

(* POST /commands/claim when a PENDING command exists: the transaction     *)
(* that picks the oldest one and leases it.                                *)
ClaimCommand(c, a, maxLeaseMs) ==
    /\ serverUp
    /\ lastLease < MaxLeases
    /\ c \in OldestPending
    /\ lastLease' = lastLease + 1
    /\ commands' = [commands EXCEPT ![c] =
           Claimed(commands[c], a, FreshLease, now + maxLeaseMs, now)]
    /\ UNCHANGED <<now, serverUp>>

(* POST /commands/:id/heartbeat                                            *)
Heartbeat(c, a, l, extendMs) ==
    /\ serverUp
    /\ IsCurrentLease(c, a, l)
    /\ commands' = [commands EXCEPT ![c].leaseExpiresAt = now + extendMs]
    /\ UNCHANGED <<now, serverUp, lastLease>>

(* The row after UPDATE_COMPLETE or UPDATE_FAIL: the holder and the lease  *)
(* id stay, the expiry does not.                                           *)
Finished(row, status, result) ==
    [row EXCEPT !.status = status, !.result = result, !.leaseExpiresAt = Null]

(* POST /commands/:id/complete                                             *)
CompleteCommand(c, a, l, result) ==
    /\ serverUp
    /\ IsCurrentLease(c, a, l)
    /\ commands' = [commands EXCEPT ![c] = Finished(commands[c], "COMPLETED", result)]
    /\ UNCHANGED <<now, serverUp, lastLease>>

(* POST /commands/:id/fail: the partial result is optional.                *)
FailCommand(c, a, l, result) ==
    /\ serverUp
    /\ IsCurrentLease(c, a, l)
    /\ commands' = [commands EXCEPT ![c] = Finished(commands[c], "FAILED", result)]
    /\ UNCHANGED <<now, serverUp, lastLease>>

(* Mutants: the UPDATE forgets the lease id; it clears the attempts too.   *)
RequeuedWithLease(row) ==
    [row EXCEPT !.status = "PENDING", !.agentId = Null, !.leaseExpiresAt = Null,
                !.startedAt = Null, !.scheduledEndAt = Null]

RequeuedAnew(row) ==
    [row EXCEPT !.status = "PENDING", !.agentId = Null, !.leaseId = Null,
                !.leaseExpiresAt = Null, !.startedAt = Null,
                !.scheduledEndAt = Null, !.attempt = 0]

(* The row after RESET_EXPIRED_LEASES: what the claim set is cleared, the  *)
(* attempt counter is kept.                                                *)
Requeued(row) ==
    [row EXCEPT !.status         = "PENDING",
                !.agentId        = Null,
                !.leaseId        = Null,
                !.leaseExpiresAt = Null,
                !.startedAt      = Null,
                !.scheduledEndAt = Null]

(* startServer: expired leases are reset before the port is opened, and    *)
(* opening it may fail (index.ts:91), after which the process ends.        *)
ServerStart(listening) ==
    /\ ~serverUp
    /\ serverUp' = listening
    /\ commands' = [c \in Commands |->
           IF c \in ExpiredLeases THEN Requeued(commands[c]) ELSE commands[c]]
    /\ UNCHANGED <<now, lastLease>>

(* Shutdown by a signal, or a crash: every committed row stays.            *)
ServerStop ==
    /\ serverUp
    /\ serverUp' = FALSE
    /\ UNCHANGED <<now, commands, lastLease>>

StoreNext ==
    \/ Tick
    \/ ServerStop
    \/ \E listening \in BOOLEAN : ServerStart(listening)
    \/ \E c \in Commands :
         \/ \E payload \in CommandPayload : CreateCommand(c, payload)
         \/ \E a \in Agents :
              \/ \E maxLeaseMs \in LeaseMs : ClaimCommand(c, a, maxLeaseMs)
              \/ \E l \in 1..lastLease :
                   \/ \E extendMs \in ExtendMs : Heartbeat(c, a, l, extendMs)
                   \/ \E result \in Results : CompleteCommand(c, a, l, result)
                   \/ \E result \in Results \cup {Null} : FailCommand(c, a, l, result)

StoreSpec == StoreInit /\ [][StoreNext]_storeVars

-----------------------------------------------------------------------------
(* Type invariant.                                                         *)
StoreTypeOK ==
    /\ now \in Time
    /\ serverUp \in BOOLEAN
    /\ commands \in [Commands -> Row \cup {Null}]
    /\ lastLease \in Nat

(* The lease columns agree with the status.  Startup recovery resets only  *)
(* rows with "leaseExpiresAt IS NOT NULL" (queries.ts:62): a RUNNING row   *)
(* without an expiry would be out of its reach for ever.  A finished row   *)
(* keeps who finished it, and a row back in PENDING keeps nothing of the   *)
(* claim that was revoked, so a later claim starts clean.                  *)
RowConsistent(row) ==
    /\ row.status = "PENDING" =>
           /\ row.agentId = Null /\ row.leaseId = Null /\ row.leaseExpiresAt = Null
           /\ row.startedAt = Null /\ row.scheduledEndAt = Null /\ row.result = Null
    /\ row.status # "PENDING" =>
           /\ row.agentId # Null /\ row.leaseId # Null /\ row.startedAt # Null
           /\ row.attempt > 0
           /\ row.scheduledEndAt = ScheduledEnd(row.payload, row.startedAt)
    /\ row.status = "RUNNING" <=> row.leaseExpiresAt # Null
    /\ row.status = "COMPLETED" => row.result # Null
    /\ row.status = "RUNNING" => row.result = Null

RowsConsistent == \A c \in Created : RowConsistent(commands[c])

(* A lease names one claim of one command: no two rows ever carry the same *)
(* lease id, so a heartbeat or result sent under a lease cannot land on a  *)
(* command it was not issued for, whatever id the request names.           *)
LeaseExclusive ==
    /\ \A c \in Created : commands[c].leaseId # Null => commands[c].leaseId <= lastLease
    /\ \A c, d \in Created :
          c # d /\ commands[c].leaseId # Null => commands[c].leaseId # commands[d].leaseId

(* The attempts the rows count, each with the command it was made on.      *)
Attempts == UNION {{c} \X (1 .. commands[c].attempt) : c \in Created}

(* The attempt counters account for every claim ever granted: recovery     *)
(* gives the command back without forgetting that it was tried.            *)
AttemptsMatchClaims == Cardinality(Attempts) = lastLease

(* No overtaking: while a command waits for its first claim, no command    *)
(* created later has ever been handed out, across requeues and restarts.   *)
(* ("Later" is by createdAt, so this needs a clock that is never set back: *)
(* else a new command may get an older createdAt than one handed out.)     *)
NoOvertaking ==
    \A c, d \in Created :
        commands[c].createdAt < commands[d].createdAt /\ commands[c].attempt = 0
            => commands[d].attempt = 0

(* A COMPLETED or FAILED command never changes again: a late or repeated   *)
(* complete, fail or heartbeat and every restart leave it alone.           *)
TerminalIsFinal ==
    [][\A c \in InStatus("COMPLETED") \cup InStatus("FAILED") :
          commands'[c] = commands[c]]_storeVars

(* A lease is taken from its holder only by expiry: a RUNNING command      *)
(* leaves its lease while the server runs only by finishing, and goes back *)
(* to PENDING only if its lease has run out.                               *)
UnexpiredLeaseHonoured ==
    [][\A c \in InStatus("RUNNING") :
          commands'[c].leaseId # commands[c].leaseId =>
              /\ ~serverUp
              /\ commands[c].leaseExpiresAt <= now]_storeVars

(* A lease once replaced or revoked is never current again: whatever lease *)
(* a row takes on is newer than every lease issued before.                 *)
StaleLeaseNeverReturns ==
    [][\A c \in Created :
          commands'[c].leaseId \notin {Null, commands[c].leaseId} =>
              commands'[c].leaseId > lastLease]_storeVars

-----------------------------------------------------------------------------
(* What the lifecycle specification sees of a row.                         *)
LifecycleView ==
    [c \in Commands |->
        IF commands[c] = Null
        THEN Null
        ELSE [status  |-> commands[c].status,
              agentId |-> commands[c].agentId,
              token   |-> commands[c].leaseId,
              result  |-> commands[c].result]]

Lifecycle == INSTANCE CommandLifecycle WITH
    view     <- LifecycleView,
    issued   <- 1..lastLease,
    Tokens   <- 1..MaxLeases,
    Outcomes <- Results

(* The table implements the lifecycle the server promises: every operation *)
(* is one of its steps or leaves what clients see alone.                   *)
ImplementsLifecycle == Lifecycle!LifecycleSpec
=============================================================================
