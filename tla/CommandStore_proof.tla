------------------------- MODULE CommandStore_proof -------------------------
(***************************************************************************)
(* Proofs about CommandStore, for any number of commands and agents, any   *)
(* durations and any bound on the clock and the claims.                    *)
(***************************************************************************)
EXTENDS CommandStore, FiniteSetTheorems, TLAPS

(* A row a command is created with.                                        *)
LEMMA CreatedRowType ==
    ASSUME NEW payload \in CommandPayload, now \in Time
    PROVE  [payload |-> payload, status |-> "PENDING", createdAt |-> now,
            agentId |-> Null, leaseId |-> Null, leaseExpiresAt |-> Null,
            startedAt |-> Null, scheduledEndAt |-> Null, attempt |-> 0,
            result |-> Null] \in Row
BY DEF Row, CommandStatus

(* The scheduled end of a claim is a time or absent.                       *)
LEMMA ScheduledEndType ==
    ASSUME NEW payload \in CommandPayload, NEW t \in Time
    PROVE  ScheduledEnd(payload, t) \in Time \cup {Null}
<1>1. CASE payload \in DelayPayload
  <2>1. payload.type = "DELAY" /\ payload.ms \in Int
        BY <1>1, DelayMsAssumption DEF DelayPayload
  <2>2. QED
        BY <2>1 DEF ScheduledEnd, Time
<1>2. CASE payload \in HttpGetJsonPayload
  <2>1. payload.type # "DELAY"
        BY <1>2 DEF HttpGetJsonPayload
  <2>2. QED
        BY <2>1 DEF ScheduledEnd
<1>3. QED
      BY <1>1, <1>2 DEF CommandPayload

(* Recovery turns a row into a row.                                        *)
LEMMA RequeuedType ==
    ASSUME NEW row \in Row
    PROVE  Requeued(row) \in Row
BY DEF Requeued, Row, CommandStatus

(* So do a claim and the end of a command.                                 *)
LEMMA ClaimedType ==
    ASSUME NEW row \in Row, NEW a \in Agents, NEW lease \in LeaseId,
           NEW expiresAt \in Time, NEW t \in Time
    PROVE  Claimed(row, a, lease, expiresAt, t) \in Row
<1> DEFINE end == ScheduledEnd(row.payload, t)
           try == row.attempt + 1
<1>1. end \in Time \cup {Null}
      BY ScheduledEndType DEF Row
<1>2. try \in Nat
      BY DEF Row
<1>3. Claimed(row, a, lease, expiresAt, t) =
          [row EXCEPT !.status = "RUNNING", !.agentId = a, !.leaseId = lease,
                      !.leaseExpiresAt = expiresAt, !.startedAt = t,
                      !.scheduledEndAt = end, !.attempt = try]
      BY DEF Claimed
<1> HIDE DEF end, try
<1>4. QED
      BY <1>1, <1>2, <1>3 DEF Row, CommandStatus

(* The end of a command turns a row into a row.                            *)
LEMMA FinishedType ==
    ASSUME NEW row \in Row, NEW status \in CommandStatus,
           NEW result \in CommandResult \cup {Null}
    PROVE  Finished(row, status, result) \in Row
BY DEF Finished, Row

(* Every step keeps the type invariant.                                    *)
LEMMA TypeStep == StoreTypeOK /\ [StoreNext]_storeVars => StoreTypeOK'
<1> SUFFICES ASSUME StoreTypeOK, [StoreNext]_storeVars
             PROVE  StoreTypeOK'
    OBVIOUS
<1> USE DEF StoreTypeOK
<1>1. CASE Tick
      BY <1>1 DEF Tick, Time
<1>2. CASE ServerStop
      BY <1>2 DEF ServerStop
<1>3. ASSUME NEW listening \in BOOLEAN, ServerStart(listening)
      PROVE  StoreTypeOK'
      BY <1>3, RequeuedType DEF ServerStart, ExpiredLeases, InStatus, Created
<1>4. ASSUME NEW c \in Commands, NEW payload \in CommandPayload, CreateCommand(c, payload)
      PROVE  StoreTypeOK'
      BY <1>4, CreatedRowType DEF CreateCommand
<1>5. ASSUME NEW c \in Commands, NEW a \in Agents, NEW maxLeaseMs \in LeaseMs,
             ClaimCommand(c, a, maxLeaseMs)
      PROVE  StoreTypeOK'
  <2>1. commands[c] \in Row
        BY <1>5 DEF ClaimCommand, OldestPending, InStatus, Created
  <2>2. now + maxLeaseMs \in Time
        BY LeaseMsAssumption DEF Time
  <2>3. FreshLease \in LeaseId /\ lastLease' \in Nat
        BY <1>5 DEF FreshLease, LeaseId, ClaimCommand
  <2>4. Claimed(commands[c], a, FreshLease, now + maxLeaseMs, now) \in Row
        BY <2>1, <2>2, <2>3, ClaimedType
  <2>5. QED
        BY <1>5, <2>3, <2>4 DEF ClaimCommand
<1>6. ASSUME NEW c \in Commands, NEW a \in Agents, NEW l \in 1..lastLease,
             NEW extendMs \in ExtendMs, Heartbeat(c, a, l, extendMs)
      PROVE  StoreTypeOK'
  <2>1. commands[c] \in Row
        BY <1>6 DEF Heartbeat, IsCurrentLease, InStatus, Created
  <2>2. now + extendMs \in Time
        BY LeaseMsAssumption DEF Time
  <2>3. commands'[c] \in Row
        BY <1>6, <2>1, <2>2 DEF Heartbeat, Row
  <2>4. QED
        BY <1>6, <2>3 DEF Heartbeat
<1>7. ASSUME NEW c \in Commands, NEW a \in Agents, NEW l \in 1..lastLease,
             NEW result \in Results, CompleteCommand(c, a, l, result)
      PROVE  StoreTypeOK'
  <2>1. commands[c] \in Row
        BY <1>7 DEF CompleteCommand, IsCurrentLease, InStatus, Created
  <2>2. Finished(commands[c], "COMPLETED", result) \in Row
        BY <2>1, FinishedType, ResultsAssumption DEF CommandStatus
  <2>3. QED
        BY <1>7, <2>2 DEF CompleteCommand
<1>8. ASSUME NEW c \in Commands, NEW a \in Agents, NEW l \in 1..lastLease,
             NEW result \in Results \cup {Null}, FailCommand(c, a, l, result)
      PROVE  StoreTypeOK'
  <2>1. commands[c] \in Row
        BY <1>8 DEF FailCommand, IsCurrentLease, InStatus, Created
  <2>2. Finished(commands[c], "FAILED", result) \in Row
        BY <2>1, FinishedType, ResultsAssumption DEF CommandStatus
  <2>3. QED
        BY <1>8, <2>2 DEF FailCommand
<1>9. CASE UNCHANGED storeVars
      BY <1>9 DEF storeVars
<1>10. QED
      BY <1>1, <1>2, <1>3, <1>4, <1>5, <1>6, <1>7, <1>8, <1>9 DEF StoreNext

(* The columns of the table always hold values of their types.             *)
THEOREM TypeCorrect == StoreSpec => []StoreTypeOK
<1>1. StoreInit => StoreTypeOK
  <2> SUFFICES ASSUME StoreInit PROVE StoreTypeOK
      OBVIOUS
  <2>1. commands \in [Commands -> Row \cup {Null}]
        BY DEF StoreInit
  <2>2. now \in Time /\ lastLease \in Nat
        BY DEF StoreInit, Time
  <2>3. serverUp \in BOOLEAN
        BY DEF StoreInit
  <2>4. QED
        BY <2>1, <2>2, <2>3 DEF StoreTypeOK
<1>2. QED
      BY <1>1, TypeStep, PTL DEF StoreSpec

-----------------------------------------------------------------------------
(* Each operation leaves a consistent row consistent.                      *)
LEMMA ClaimedConsistent ==
    ASSUME NEW row \in Row, NEW a \in Agents, NEW lease \in LeaseId,
           NEW expiresAt \in Time, NEW t \in Time,
           RowConsistent(row), row.status = "PENDING"
    PROVE  RowConsistent(Claimed(row, a, lease, expiresAt, t))
<1> DEFINE new == Claimed(row, a, lease, expiresAt, t)
<1>1. /\ new.status = "RUNNING" /\ new.agentId = a /\ new.leaseId = lease
      /\ new.leaseExpiresAt = expiresAt /\ new.startedAt = t
      /\ new.scheduledEndAt = ScheduledEnd(row.payload, t)
      /\ new.attempt = row.attempt + 1 /\ new.payload = row.payload
      /\ new.result = row.result
      BY DEF Claimed, Row
<1>2. new.attempt > 0
  <2>1. row.attempt \in Nat
        BY DEF Row
  <2>2. QED
        BY <1>1, <2>1
<1>3. a # Null /\ lease # Null /\ expiresAt # Null /\ t # Null
      BY NullAssumption DEF LeaseId, Time
<1>4. row.result = Null
      BY DEF RowConsistent
<1> HIDE DEF new
<1>5. RowConsistent(new)
      BY <1>1, <1>2, <1>3, <1>4 DEF RowConsistent
<1>6. QED
      BY <1>5 DEF new

(* A RUNNING row that is finished stays consistent.                        *)
LEMMA FinishedConsistent ==
    ASSUME NEW row \in Row, NEW status \in {"COMPLETED", "FAILED"},
           NEW result \in CommandResult \cup {Null},
           RowConsistent(row), row.status = "RUNNING",
           status = "COMPLETED" => result # Null
    PROVE  RowConsistent(Finished(row, status, result))
BY DEF Finished, Row, RowConsistent

(* So does one whose lease is extended,                                    *)
LEMMA ExtendedConsistent ==
    ASSUME NEW row \in Row, NEW expiresAt \in Time,
           RowConsistent(row), row.status = "RUNNING"
    PROVE  RowConsistent([row EXCEPT !.leaseExpiresAt = expiresAt])
BY NullAssumption DEF Time, Row, RowConsistent

(* and one that goes back to PENDING.                                      *)
LEMMA RequeuedConsistent ==
    ASSUME NEW row \in Row, RowConsistent(row), row.status = "RUNNING"
    PROVE  RowConsistent(Requeued(row))
BY DEF Requeued, Row, RowConsistent

(* Every step keeps the rows consistent.                                   *)
LEMMA RowsConsistentStep ==
    StoreTypeOK /\ RowsConsistent /\ [StoreNext]_storeVars => RowsConsistent'
<1> SUFFICES ASSUME StoreTypeOK, RowsConsistent, [StoreNext]_storeVars,
                    NEW d \in Commands, commands'[d] # Null
             PROVE  RowConsistent(commands'[d])
    BY DEF RowsConsistent, Created
<1>1. commands[d] # Null => commands[d] \in Row /\ RowConsistent(commands[d])
      BY DEF StoreTypeOK, RowsConsistent, Created
<1>2. CASE commands'[d] = commands[d]
      BY <1>1, <1>2
<1>3. CASE Tick \/ ServerStop \/ UNCHANGED storeVars
      BY <1>2, <1>3 DEF Tick, ServerStop, storeVars
<1>4. ASSUME NEW listening \in BOOLEAN, ServerStart(listening)
      PROVE  RowConsistent(commands'[d])
  <2>1. CASE d \in ExpiredLeases
    <3>1. commands'[d] = Requeued(commands[d])
          BY <1>4, <2>1 DEF ServerStart
    <3>2. commands[d] # Null /\ commands[d].status = "RUNNING"
          BY <2>1 DEF ExpiredLeases, InStatus, Created
    <3>3. QED
          BY <1>1, <3>1, <3>2, RequeuedConsistent
  <2>2. CASE d \notin ExpiredLeases
        BY <1>2, <1>4, <2>2 DEF ServerStart
  <2>3. QED
        BY <2>1, <2>2
<1>5. ASSUME NEW c \in Commands, NEW payload \in CommandPayload, CreateCommand(c, payload)
      PROVE  RowConsistent(commands'[d])
  <2>1. CASE c = d
        BY <1>5, <2>1 DEF CreateCommand, RowConsistent, StoreTypeOK
  <2>2. CASE c # d
        BY <1>2, <1>5, <2>2 DEF CreateCommand, StoreTypeOK
  <2>3. QED
        BY <2>1, <2>2
<1>6. ASSUME NEW c \in Commands, NEW a \in Agents, NEW maxLeaseMs \in LeaseMs,
             ClaimCommand(c, a, maxLeaseMs)
      PROVE  RowConsistent(commands'[d])
  <2>1. CASE c = d
    <3>1. commands[d] # Null /\ commands[d].status = "PENDING"
          BY <1>6, <2>1 DEF ClaimCommand, OldestPending, InStatus, Created
    <3>2. /\ FreshLease \in LeaseId
          /\ now + maxLeaseMs \in Time
          /\ now \in Time
          BY LeaseMsAssumption DEF FreshLease, LeaseId, Time, StoreTypeOK
    <3>3. commands'[d] = Claimed(commands[d], a, FreshLease, now + maxLeaseMs, now)
          BY <1>6, <2>1 DEF ClaimCommand, StoreTypeOK
    <3>4. QED
          BY <1>1, <3>1, <3>2, <3>3, ClaimedConsistent
  <2>2. CASE c # d
        BY <1>2, <1>6, <2>2 DEF ClaimCommand, StoreTypeOK
  <2>3. QED
        BY <2>1, <2>2
<1>7. ASSUME NEW c \in Commands, NEW a \in Agents, NEW l \in 1..lastLease,
             NEW extendMs \in ExtendMs, Heartbeat(c, a, l, extendMs)
      PROVE  RowConsistent(commands'[d])
  <2>1. CASE c = d
    <3>1. commands[d] # Null /\ commands[d].status = "RUNNING"
          BY <1>7, <2>1 DEF Heartbeat, IsCurrentLease, InStatus, Created
    <3>2. now + extendMs \in Time
          BY LeaseMsAssumption DEF Time, StoreTypeOK
    <3>3. commands'[d] = [commands[d] EXCEPT !.leaseExpiresAt = now + extendMs]
          BY <1>7, <2>1 DEF Heartbeat, StoreTypeOK
    <3>4. QED
          BY <1>1, <3>1, <3>2, <3>3, ExtendedConsistent
  <2>2. CASE c # d
        BY <1>2, <1>7, <2>2 DEF Heartbeat, StoreTypeOK
  <2>3. QED
        BY <2>1, <2>2
<1>8. ASSUME NEW c \in Commands, NEW a \in Agents, NEW l \in 1..lastLease,
             NEW result \in Results, CompleteCommand(c, a, l, result)
      PROVE  RowConsistent(commands'[d])
  <2>1. CASE c = d
    <3>1. commands[d] # Null /\ commands[d].status = "RUNNING"
          BY <1>8, <2>1 DEF CompleteCommand, IsCurrentLease, InStatus, Created
    <3>2. result \in CommandResult \cup {Null} /\ result # Null
          BY ResultsAssumption, NullRowAssumption
    <3>3. commands'[d] = Finished(commands[d], "COMPLETED", result)
          BY <1>8, <2>1 DEF CompleteCommand, StoreTypeOK
    <3>4. QED
          BY <1>1, <3>1, <3>2, <3>3, FinishedConsistent
  <2>2. CASE c # d
        BY <1>2, <1>8, <2>2 DEF CompleteCommand, StoreTypeOK
  <2>3. QED
        BY <2>1, <2>2
<1>9. ASSUME NEW c \in Commands, NEW a \in Agents, NEW l \in 1..lastLease,
             NEW result \in Results \cup {Null}, FailCommand(c, a, l, result)
      PROVE  RowConsistent(commands'[d])
  <2>1. CASE c = d
    <3>1. commands[d] # Null /\ commands[d].status = "RUNNING"
          BY <1>9, <2>1 DEF FailCommand, IsCurrentLease, InStatus, Created
    <3>2. result \in CommandResult \cup {Null}
          BY ResultsAssumption
    <3>3. commands'[d] = Finished(commands[d], "FAILED", result)
          BY <1>9, <2>1 DEF FailCommand, StoreTypeOK
    <3>4. QED
          BY <1>1, <3>1, <3>2, <3>3, FinishedConsistent
  <2>2. CASE c # d
        BY <1>2, <1>9, <2>2 DEF FailCommand, StoreTypeOK
  <2>3. QED
        BY <2>1, <2>2
<1>10. QED
      BY <1>3, <1>4, <1>5, <1>6, <1>7, <1>8, <1>9 DEF StoreNext

(* The lease columns agree with the status in every reachable state, so    *)
(* the "IS NOT NULL" of startup recovery never passes over a RUNNING row.  *)
THEOREM RowsAlwaysConsistent == StoreSpec => []RowsConsistent
<1>1. StoreInit => RowsConsistent
      BY DEF StoreInit, RowsConsistent, Created
<1>2. StoreTypeOK /\ RowsConsistent /\ [StoreNext]_storeVars => RowsConsistent'
      BY RowsConsistentStep
<1>3. QED
      BY <1>1, <1>2, TypeCorrect, PTL DEF StoreSpec

-----------------------------------------------------------------------------
(* What a step can do to the row of a command: create, claim, extend,      *)
(* finish or requeue it.  The action properties below are read off this.   *)
CreatedNow(d) ==
    /\ commands[d] = Null
    /\ commands'[d] # Null
    /\ commands'[d].status = "PENDING"
    /\ commands'[d].leaseId = Null
    /\ commands'[d].attempt = 0
    /\ commands'[d].createdAt = now

ClaimedNow(d) ==
    /\ d \in OldestPending
    /\ lastLease' = lastLease + 1
    /\ \E a \in Agents, expiresAt \in Time :
          commands'[d] = Claimed(commands[d], a, lastLease', expiresAt, now)
    /\ \A c \in Commands : c # d => commands'[c] = commands[c]

ExtendedNow(d) ==
    /\ d \in InStatus("RUNNING")
    /\ \E expiresAt \in Time :
          commands'[d] = [commands[d] EXCEPT !.leaseExpiresAt = expiresAt]

FinishedNow(d) ==
    /\ d \in InStatus("RUNNING")
    /\ \E status \in {"COMPLETED", "FAILED"}, result \in CommandResult \cup {Null} :
          commands'[d] = Finished(commands[d], status, result)

RequeuedNow(d) ==
    /\ ~serverUp
    /\ d \in ExpiredLeases
    /\ commands'[d] = Requeued(commands[d])

(* What one step may do to one row.                                        *)
LEMMA RowFate ==
    ASSUME StoreTypeOK, [StoreNext]_storeVars,
           NEW d \in Commands, commands'[d] # commands[d]
    PROVE  CreatedNow(d) \/ ClaimedNow(d) \/ ExtendedNow(d) \/ FinishedNow(d) \/ RequeuedNow(d)
<1>1. CASE Tick \/ ServerStop \/ UNCHANGED storeVars
      BY <1>1 DEF Tick, ServerStop, storeVars
<1>2. ASSUME NEW listening \in BOOLEAN, ServerStart(listening)
      PROVE  RequeuedNow(d)
      BY <1>2 DEF ServerStart, RequeuedNow
<1>3. ASSUME NEW c \in Commands, NEW payload \in CommandPayload, CreateCommand(c, payload)
      PROVE  CreatedNow(d)
  <2>1. c = d
        BY <1>3 DEF CreateCommand, StoreTypeOK
  <2>2. commands'[d] \in Row
        BY <1>3, <2>1, CreatedRowType DEF CreateCommand, StoreTypeOK
  <2>3. QED
        BY <1>3, <2>1, <2>2, NullRowAssumption DEF CreateCommand, CreatedNow, StoreTypeOK
<1>4. ASSUME NEW c \in Commands, NEW a \in Agents, NEW maxLeaseMs \in LeaseMs,
             ClaimCommand(c, a, maxLeaseMs)
      PROVE  ClaimedNow(d)
  <2>1. c = d
        BY <1>4 DEF ClaimCommand, StoreTypeOK
  <2>2. now + maxLeaseMs \in Time
        BY LeaseMsAssumption DEF Time, StoreTypeOK
  <2>3. commands'[d] = Claimed(commands[d], a, lastLease', now + maxLeaseMs, now)
        BY <1>4, <2>1 DEF ClaimCommand, FreshLease, StoreTypeOK
  <2>4. QED
        BY <1>4, <2>1, <2>2, <2>3 DEF ClaimCommand, ClaimedNow, StoreTypeOK
<1>5. ASSUME NEW c \in Commands, NEW a \in Agents, NEW l \in 1..lastLease,
             NEW extendMs \in ExtendMs, Heartbeat(c, a, l, extendMs)
      PROVE  ExtendedNow(d)
  <2>1. c = d
        BY <1>5 DEF Heartbeat, StoreTypeOK
  <2>2. now + extendMs \in Time
        BY LeaseMsAssumption DEF Time, StoreTypeOK
  <2>3. QED
        BY <1>5, <2>1, <2>2 DEF Heartbeat, IsCurrentLease, ExtendedNow, StoreTypeOK
<1>6. ASSUME NEW c \in Commands, NEW a \in Agents, NEW l \in 1..lastLease,
             NEW result \in Results, CompleteCommand(c, a, l, result)
      PROVE  FinishedNow(d)
  <2>1. c = d
        BY <1>6 DEF CompleteCommand, StoreTypeOK
  <2>2. result \in CommandResult \cup {Null}
        BY ResultsAssumption
  <2>3. commands'[d] = Finished(commands[d], "COMPLETED", result)
        BY <1>6, <2>1 DEF CompleteCommand, StoreTypeOK
  <2>4. QED
        BY <1>6, <2>1, <2>2, <2>3 DEF CompleteCommand, IsCurrentLease, FinishedNow
<1>7. ASSUME NEW c \in Commands, NEW a \in Agents, NEW l \in 1..lastLease,
             NEW result \in Results \cup {Null}, FailCommand(c, a, l, result)
      PROVE  FinishedNow(d)
  <2>1. c = d
        BY <1>7 DEF FailCommand, StoreTypeOK
  <2>2. result \in CommandResult \cup {Null}
        BY ResultsAssumption
  <2>3. commands'[d] = Finished(commands[d], "FAILED", result)
        BY <1>7, <2>1 DEF FailCommand, StoreTypeOK
  <2>4. QED
        BY <1>7, <2>1, <2>2, <2>3 DEF FailCommand, IsCurrentLease, FinishedNow
<1>8. QED
      BY <1>1, <1>2, <1>3, <1>4, <1>5, <1>6, <1>7 DEF StoreNext

(* The counter of leases never goes back.                                  *)
LEMMA LastLeaseGrows ==
    StoreTypeOK /\ [StoreNext]_storeVars => lastLease' >= lastLease
<1> SUFFICES ASSUME StoreTypeOK, [StoreNext]_storeVars
             PROVE  lastLease' >= lastLease
    OBVIOUS
<1>1. lastLease \in Nat
      BY DEF StoreTypeOK
<1>2. lastLease' = lastLease \/ lastLease' = lastLease + 1
      BY DEF StoreNext, storeVars, Tick, ServerStop, ServerStart, CreateCommand,
             ClaimCommand, Heartbeat, CompleteCommand, FailCommand
<1>3. QED
      BY <1>1, <1>2

(* What each change of a row does to its lease.                            *)
LEMMA LeaseFate ==
    ASSUME StoreTypeOK, [StoreNext]_storeVars,
           NEW d \in Commands, commands'[d] # Null
    PROVE  \/ commands'[d].leaseId = Null
           \/ commands[d] # Null /\ commands'[d].leaseId = commands[d].leaseId
           \/ ClaimedNow(d) /\ commands'[d].leaseId = lastLease + 1
<1>1. commands[d] \in Row \/ commands[d] = Null
      BY DEF StoreTypeOK
<1>2. CASE commands'[d] = commands[d]
      BY <1>2
<1>3. CASE CreatedNow(d)
      BY <1>3 DEF CreatedNow
<1>4. CASE ClaimedNow(d)
  <2>1. commands[d] \in Row
        BY <1>1, <1>4 DEF ClaimedNow, OldestPending, InStatus, Created
  <2>2. PICK a \in Agents, expiresAt \in Time :
            commands'[d] = Claimed(commands[d], a, lastLease', expiresAt, now)
        BY <1>4 DEF ClaimedNow
  <2>3. commands'[d].leaseId = lastLease'
        BY <2>1, <2>2 DEF Claimed, Row
  <2>4. QED
        BY <1>4, <2>3 DEF ClaimedNow
<1>5. CASE ExtendedNow(d)
  <2>1. commands[d] \in Row /\ commands[d] # Null
        BY <1>1, <1>5 DEF ExtendedNow, InStatus, Created
  <2>2. QED
        BY <1>5, <2>1 DEF ExtendedNow, Row
<1>6. CASE FinishedNow(d)
  <2>1. commands[d] \in Row /\ commands[d] # Null
        BY <1>1, <1>6 DEF FinishedNow, InStatus, Created
  <2>2. QED
        BY <1>6, <2>1 DEF FinishedNow, Finished, Row
<1>7. CASE RequeuedNow(d)
  <2>1. commands[d] \in Row
        BY <1>1, <1>7 DEF RequeuedNow, ExpiredLeases, InStatus, Created
  <2>2. QED
        BY <1>7, <2>1 DEF RequeuedNow, Requeued, Row
<1>8. QED
      BY <1>2, <1>3, <1>4, <1>5, <1>6, <1>7, RowFate

(* A claim takes a lease id of its own, and nothing else gives one.        *)
LEMMA LeaseExclusiveStep ==
    StoreTypeOK /\ StoreTypeOK' /\ LeaseExclusive /\ [StoreNext]_storeVars => LeaseExclusive'
<1> SUFFICES ASSUME StoreTypeOK, StoreTypeOK', LeaseExclusive, [StoreNext]_storeVars
             PROVE  LeaseExclusive'
    OBVIOUS
<1>1. lastLease \in Nat /\ lastLease' \in Nat /\ lastLease' >= lastLease
      BY LastLeaseGrows DEF StoreTypeOK
<1>2. ASSUME NEW d \in Commands, commands'[d] # Null, commands'[d].leaseId # Null
      PROVE  commands'[d].leaseId <= lastLease'
  <2>1. CASE commands[d] # Null /\ commands'[d].leaseId = commands[d].leaseId
    <3>1. commands[d].leaseId \in LeaseId /\ commands[d].leaseId <= lastLease
          BY <1>2, <2>1 DEF LeaseExclusive, Created, StoreTypeOK, Row
    <3>2. QED
          BY <1>1, <2>1, <3>1 DEF LeaseId
  <2>2. CASE ClaimedNow(d) /\ commands'[d].leaseId = lastLease + 1
        BY <1>1, <2>2 DEF ClaimedNow
  <2>3. QED
        BY <1>2, <2>1, <2>2, LeaseFate
<1>3. ASSUME NEW c \in Commands, NEW d \in Commands, c # d,
             commands'[c] # Null, commands'[d] # Null, commands'[c].leaseId # Null,
             commands'[c].leaseId = commands'[d].leaseId
      PROVE  FALSE
  <2>1. CASE ClaimedNow(c) /\ commands'[c].leaseId = lastLease + 1
    <3>1. commands'[d] = commands[d]
          BY <1>3, <2>1 DEF ClaimedNow
    <3>2. commands[d].leaseId <= lastLease
          BY <1>3, <3>1 DEF LeaseExclusive, Created
    <3>3. commands[d].leaseId = lastLease + 1
          BY <1>3, <2>1, <3>1
    <3>4. QED
          BY <1>1, <3>2, <3>3
  <2>2. CASE ClaimedNow(d) /\ commands'[d].leaseId = lastLease + 1
    <3>1. commands'[c] = commands[c]
          BY <1>3, <2>2 DEF ClaimedNow
    <3>2. commands[c].leaseId <= lastLease
          BY <1>3, <3>1 DEF LeaseExclusive, Created
    <3>3. commands[c].leaseId = lastLease + 1
          BY <1>3, <2>2, <3>1
    <3>4. QED
          BY <1>1, <3>2, <3>3
  <2>3. CASE /\ commands[c] # Null /\ commands'[c].leaseId = commands[c].leaseId
             /\ commands[d] # Null /\ commands'[d].leaseId = commands[d].leaseId
        BY <1>3, <2>3 DEF LeaseExclusive, Created
  <2>4. QED
        BY <1>3, <2>1, <2>2, <2>3, LeaseFate
<1>4. QED
      BY <1>2, <1>3 DEF LeaseExclusive, Created

(* No two rows carry the same lease id, in any reachable state.            *)
THEOREM LeasesExclusive == StoreSpec => []LeaseExclusive
<1>1. StoreInit => LeaseExclusive
      BY DEF StoreInit, LeaseExclusive, Created
<1>2. StoreTypeOK /\ StoreTypeOK' /\ LeaseExclusive /\ [StoreNext]_storeVars => LeaseExclusive'
      BY LeaseExclusiveStep
<1>3. QED
      BY <1>1, <1>2, TypeCorrect, PTL DEF StoreSpec

-----------------------------------------------------------------------------
(* A command that was created stays, with the payload it was posted with.  *)
LEMMA CreatedStays ==
    ASSUME StoreTypeOK, StoreTypeOK', [StoreNext]_storeVars, NEW c \in Created
    PROVE  commands'[c] # Null /\ commands'[c].payload = commands[c].payload
<1>1. /\ c \in Commands /\ lastLease + 1 \in LeaseId /\ now \in Time
      /\ commands[c] # Null /\ commands[c] \in Row
      BY DEF Created, StoreTypeOK, LeaseId
<1>2. CASE commands'[c] = commands[c]
      BY <1>1, <1>2
<1>3. CASE CreatedNow(c)
      BY <1>1, <1>3 DEF CreatedNow
<1>4. CASE ClaimedNow(c)
  <2>1. PICK a \in Agents, e \in Time :
            commands'[c] = Claimed(commands[c], a, lastLease + 1, e, now)
        BY <1>4 DEF ClaimedNow
  <2>2. commands'[c] \in Row
        BY <1>1, <2>1, ClaimedType
  <2>3. commands'[c].payload = commands[c].payload
        BY <1>1, <2>1 DEF Claimed, Row
  <2>4. QED
        BY <2>2, <2>3, NullRowAssumption
<1>5. CASE ExtendedNow(c)
  <2>1. PICK e \in Time : commands'[c] = [commands[c] EXCEPT !.leaseExpiresAt = e]
        BY <1>5 DEF ExtendedNow
  <2>2. commands'[c] \in Row /\ commands'[c].payload = commands[c].payload
        BY <1>1, <2>1 DEF Row
  <2>3. QED
        BY <2>2, NullRowAssumption
<1>6. CASE FinishedNow(c)
  <2>1. PICK status \in {"COMPLETED", "FAILED"}, result \in CommandResult \cup {Null} :
            commands'[c] = Finished(commands[c], status, result)
        BY <1>6 DEF FinishedNow
  <2>2. commands'[c] \in Row
        BY <1>1, <2>1, FinishedType DEF CommandStatus
  <2>3. commands'[c].payload = commands[c].payload
        BY <1>1, <2>1 DEF Finished, Row
  <2>4. QED
        BY <2>2, <2>3, NullRowAssumption
<1>7. CASE RequeuedNow(c)
  <2>1. commands'[c] \in Row
        BY <1>1, <1>7, RequeuedType DEF RequeuedNow
  <2>2. commands'[c].payload = commands[c].payload
        BY <1>1, <1>7 DEF RequeuedNow, Requeued, Row
  <2>3. QED
        BY <2>1, <2>2, NullRowAssumption
<1>8. QED
      BY <1>1, <1>2, <1>3, <1>4, <1>5, <1>6, <1>7, RowFate

(* No operation and no start touches a finished row.                       *)
LEMMA TerminalStep ==
    ASSUME StoreTypeOK, [StoreNext]_storeVars,
           NEW c \in InStatus("COMPLETED") \cup InStatus("FAILED")
    PROVE  commands'[c] = commands[c]
<1>1. c \in Commands /\ commands[c] # Null /\ commands[c].status \in {"COMPLETED", "FAILED"}
      BY DEF InStatus, Created
<1>2. ~CreatedNow(c)
      BY <1>1 DEF CreatedNow
<1>3. ~ClaimedNow(c)
      BY <1>1 DEF ClaimedNow, OldestPending, InStatus
<1>4. ~ExtendedNow(c) /\ ~FinishedNow(c) /\ ~RequeuedNow(c)
      BY <1>1 DEF ExtendedNow, FinishedNow, RequeuedNow, ExpiredLeases, InStatus
<1>5. QED
      BY <1>1, <1>2, <1>3, <1>4, RowFate

(* A COMPLETED or FAILED row is never written again.                       *)
THEOREM TerminalStaysFinal == StoreSpec => TerminalIsFinal
<1>1. StoreTypeOK /\ [StoreNext]_storeVars =>
          [\A c \in InStatus("COMPLETED") \cup InStatus("FAILED") :
              commands'[c] = commands[c]]_storeVars
      BY TerminalStep
<1>2. QED
      BY <1>1, TypeCorrect, PTL DEF StoreSpec, TerminalIsFinal

(* A RUNNING command loses its lease only at start-up and only if expired. *)
THEOREM UnexpiredLeasesHonoured == StoreSpec => UnexpiredLeaseHonoured
<1>1. ASSUME StoreTypeOK, [StoreNext]_storeVars, NEW c \in InStatus("RUNNING"),
             commands'[c].leaseId # commands[c].leaseId
      PROVE  ~serverUp /\ commands[c].leaseExpiresAt <= now
  <2>1. /\ c \in Commands /\ commands[c] # Null /\ commands[c].status = "RUNNING"
        /\ commands[c] \in Row
        BY <1>1 DEF InStatus, Created, StoreTypeOK
  <2>2. ~CreatedNow(c)
        BY <2>1 DEF CreatedNow
  <2>3. ~ClaimedNow(c)
        BY <2>1 DEF ClaimedNow, OldestPending, InStatus
  <2>4. ~ExtendedNow(c)
        BY <1>1, <2>1 DEF ExtendedNow, Row
  <2>5. ~FinishedNow(c)
        BY <1>1, <2>1 DEF FinishedNow, Finished, Row
  <2>6. RequeuedNow(c)
        BY <1>1, <2>1, <2>2, <2>3, <2>4, <2>5, RowFate
  <2>7. QED
        BY <2>6 DEF RequeuedNow, ExpiredLeases
<1>2. StoreTypeOK /\ [StoreNext]_storeVars =>
          [\A c \in InStatus("RUNNING") :
              commands'[c].leaseId # commands[c].leaseId =>
                  /\ ~serverUp
                  /\ commands[c].leaseExpiresAt <= now]_storeVars
      BY <1>1
<1>3. QED
      BY <1>2, TypeCorrect, PTL DEF StoreSpec, UnexpiredLeaseHonoured

(* Once replaced or revoked, a lease is never current again.               *)
THEOREM StaleLeasesNeverReturn == StoreSpec => StaleLeaseNeverReturns
<1>1. ASSUME StoreTypeOK, StoreTypeOK', [StoreNext]_storeVars, NEW c \in Created,
             commands'[c].leaseId \notin {Null, commands[c].leaseId}
      PROVE  commands'[c].leaseId > lastLease
  <2>1. c \in Commands /\ lastLease \in Nat
        BY <1>1 DEF Created, StoreTypeOK
  <2>2. commands'[c] # Null
        BY <1>1, CreatedStays
  <2>3. commands'[c].leaseId = lastLease + 1
        BY <1>1, <2>1, <2>2, LeaseFate
  <2>4. QED
        BY <2>1, <2>3
<1>2. StoreTypeOK /\ StoreTypeOK' /\ [StoreNext]_storeVars =>
          [\A c \in Created :
              commands'[c].leaseId \notin {Null, commands[c].leaseId} =>
                  commands'[c].leaseId > lastLease]_storeVars
      BY <1>1
<1>3. QED
      BY <1>2, TypeCorrect, PTL DEF StoreSpec, StaleLeaseNeverReturns

-----------------------------------------------------------------------------
(* No row is younger than the clock.                                       *)
CreatedInPast == \A c \in Created : commands[c].createdAt <= now

(* What a step does to the age of a row and its attempts.                  *)
LEMMA AgeFate ==
    ASSUME StoreTypeOK, [StoreNext]_storeVars,
           NEW d \in Commands, commands'[d] # Null
    PROVE  \/ CreatedNow(d)
           \/ /\ commands[d] # Null
              /\ commands'[d].createdAt = commands[d].createdAt
              /\ \/ commands'[d].attempt = commands[d].attempt
                 \/ ClaimedNow(d) /\ commands'[d].attempt # 0
<1>1. commands[d] # Null => commands[d] \in Row
      BY DEF StoreTypeOK
<1>2. CASE commands'[d] = commands[d]
      BY <1>2
<1>3. CASE ClaimedNow(d)
  <2>1. commands[d] \in Row /\ commands[d] # Null
        BY <1>1, <1>3 DEF ClaimedNow, OldestPending, InStatus, Created
  <2>2. PICK a \in Agents, expiresAt \in Time :
            commands'[d] = Claimed(commands[d], a, lastLease', expiresAt, now)
        BY <1>3 DEF ClaimedNow
  <2>3. /\ commands'[d].createdAt = commands[d].createdAt
        /\ commands'[d].attempt = commands[d].attempt + 1
        BY <2>1, <2>2 DEF Claimed, Row
  <2>4. commands[d].attempt \in Nat
        BY <2>1 DEF Row
  <2>5. commands'[d].attempt # 0
        BY <2>3, <2>4
  <2>6. QED
        BY <1>3, <2>1, <2>3, <2>5
<1>4. CASE ExtendedNow(d)
  <2>1. commands[d] \in Row /\ commands[d] # Null
        BY <1>1, <1>4 DEF ExtendedNow, InStatus, Created
  <2>2. QED
        BY <1>4, <2>1 DEF ExtendedNow, Row
<1>5. CASE FinishedNow(d)
  <2>1. commands[d] \in Row /\ commands[d] # Null
        BY <1>1, <1>5 DEF FinishedNow, InStatus, Created
  <2>2. QED
        BY <1>5, <2>1 DEF FinishedNow, Finished, Row
<1>6. CASE RequeuedNow(d)
  <2>1. commands[d] \in Row /\ commands[d] # Null
        BY <1>1, <1>6 DEF RequeuedNow, ExpiredLeases, InStatus, Created
  <2>2. QED
        BY <1>6, <2>1 DEF RequeuedNow, Requeued, Row
<1>7. QED
      BY <1>2, <1>3, <1>4, <1>5, <1>6, RowFate

(* The clock never goes back.                                              *)
LEMMA ClockGrows ==
    StoreTypeOK /\ [StoreNext]_storeVars => now' >= now
<1> SUFFICES ASSUME StoreTypeOK, [StoreNext]_storeVars
             PROVE  now' >= now
    OBVIOUS
<1>1. now \in Int
      BY DEF StoreTypeOK, Time
<1>2. now' = now \/ now' = now + 1
      BY DEF StoreNext, storeVars, Tick, ServerStop, ServerStart, CreateCommand,
             ClaimCommand, Heartbeat, CompleteCommand, FailCommand
<1>3. QED
      BY <1>1, <1>2

(* While a command waits for its first claim no younger command has been   *)
(* claimed.  The invariant needs that a row without attempts is PENDING,   *)
(* and that no row is younger than the clock.                              *)
THEOREM NeverOvertaken == StoreSpec => []NoOvertaking
<1> DEFINE Inv == CreatedInPast /\ NoOvertaking
<1>1. StoreInit => Inv
      BY DEF StoreInit, CreatedInPast, NoOvertaking, Created
<1>2. /\ StoreTypeOK /\ StoreTypeOK' /\ RowsConsistent /\ Inv
      /\ [StoreNext]_storeVars
      => Inv'
  <2> SUFFICES ASSUME StoreTypeOK, StoreTypeOK', RowsConsistent, Inv, [StoreNext]_storeVars
               PROVE  Inv'
      OBVIOUS
  <2>1. now \in Int /\ now' \in Int /\ now' >= now
        BY ClockGrows DEF StoreTypeOK, Time
  <2>2. ASSUME NEW d \in Commands, commands'[d] # Null
        PROVE  commands'[d].createdAt <= now'
    <3>1. CASE CreatedNow(d)
          BY <2>1, <3>1 DEF CreatedNow
    <3>2. CASE commands[d] # Null /\ commands'[d].createdAt = commands[d].createdAt
      <4>1. commands[d].createdAt \in Int /\ commands[d].createdAt <= now
            BY <3>2 DEF CreatedInPast, Created, StoreTypeOK, Row, Time
      <4>2. QED
            BY <2>1, <3>2, <4>1
    <3>3. QED
          BY <2>2, <3>1, <3>2, AgeFate
  <2>3. ASSUME NEW c \in Commands, NEW d \in Commands,
               commands'[c] # Null, commands'[d] # Null,
               commands'[c].createdAt < commands'[d].createdAt,
               commands'[c].attempt = 0, commands'[d].attempt # 0
        PROVE  FALSE
    <3>1. /\ commands[d] # Null
          /\ commands'[d].createdAt = commands[d].createdAt
          /\ commands'[d].attempt = commands[d].attempt \/ ClaimedNow(d)
          BY <2>3, AgeFate DEF CreatedNow
    <3>2. commands[d].createdAt \in Int /\ commands[d].createdAt <= now
          BY <3>1 DEF CreatedInPast, Created, StoreTypeOK, Row, Time
    <3>3. ~CreatedNow(c)
          BY <2>1, <2>3, <3>1, <3>2 DEF CreatedNow
    <3>4. /\ commands[c] # Null
          /\ commands'[c].createdAt = commands[c].createdAt
          /\ commands[c].attempt = 0
          BY <2>3, <3>3, AgeFate
    <3>5. commands[d].attempt = 0
          BY <2>3, <3>1, <3>4 DEF NoOvertaking, Created
    <3>6. d \in OldestPending
          BY <2>3, <3>1, <3>5 DEF ClaimedNow
    <3>7. commands[c].status = "PENDING"
      <4>1. ~(commands[c].attempt > 0)
            BY <3>4
      <4>2. QED
            BY <3>4, <4>1 DEF RowsConsistent, RowConsistent, Created
    <3>8. commands[d].createdAt <= commands[c].createdAt
          BY <3>4, <3>6, <3>7 DEF OldestPending, InStatus, Created
    <3>9. commands[c].createdAt \in Int
          BY <3>4 DEF StoreTypeOK, Row, Time
    <3>10. QED
          BY <2>3, <3>1, <3>2, <3>4, <3>8, <3>9
  <2>4. QED
        BY <2>2, <2>3 DEF CreatedInPast, NoOvertaking, Created
<1>3. Inv => NoOvertaking
      OBVIOUS
<1>4. QED
      BY <1>1, <1>2, <1>3, TypeCorrect, RowsAlwaysConsistent, PTL DEF StoreSpec

-----------------------------------------------------------------------------
(* A pair is an attempt when its command exists and has counted that far.  *)
LEMMA AttemptsAre ==
    ASSUME NEW c, NEW n
    PROVE  <<c, n>> \in Attempts <=> c \in Created /\ n \in 1 .. commands[c].attempt
BY DEF Attempts

(* The attempts of a set of rows are pairs.                                *)
LEMMA AttemptsArePairs ==
    ASSUME NEW x \in Attempts
    PROVE  x = <<x[1], x[2]>>
BY DEF Attempts

(* A step that claims nothing makes no attempt.                            *)
LEMMA AttemptsStay ==
    ASSUME StoreTypeOK, StoreTypeOK', [StoreNext]_storeVars,
           \A d \in Commands : ~ClaimedNow(d)
    PROVE  Attempts' = Attempts
<1>1. ASSUME NEW c, NEW n
      PROVE  <<c, n>> \in Attempts' <=> <<c, n>> \in Attempts
  <2>1. <<c, n>> \in Attempts' <=>
            c \in Commands /\ commands'[c] # Null /\ n \in 1 .. commands'[c].attempt
        BY DEF Attempts, Created
  <2>2. CASE c \in Commands /\ commands'[c] # Null
    <3>1. CASE CreatedNow(c)
          BY <2>1, <2>2, <3>1, AttemptsAre DEF CreatedNow, Created
    <3>2. CASE commands[c] # Null /\ commands'[c].attempt = commands[c].attempt
          BY <2>1, <2>2, <3>2, AttemptsAre DEF Created
    <3>3. QED
          BY <2>2, <3>1, <3>2, AgeFate
  <2>3. CASE ~(c \in Commands /\ commands'[c] # Null)
    <3>1. c \notin Created
          BY <2>3, CreatedStays DEF Created
    <3>2. QED
          BY <2>1, <2>3, <3>1, AttemptsAre
  <2>4. QED
        BY <2>2, <2>3
<1>2. ASSUME NEW x \in Attempts' PROVE x \in Attempts
  <2>1. x = <<x[1], x[2]>>
        BY <1>2 DEF Attempts
  <2>2. QED
        BY <1>1, <1>2, <2>1
<1>3. ASSUME NEW x \in Attempts PROVE x \in Attempts'
  <2>1. x = <<x[1], x[2]>>
        BY <1>3, AttemptsArePairs
  <2>2. QED
        BY <1>1, <1>3, <2>1
<1>4. QED
      BY <1>2, <1>3

(* A claim makes one attempt, the next of the command it leases.           *)
LEMMA ClaimAttempts ==
    ASSUME StoreTypeOK, StoreTypeOK', NEW d \in Commands, ClaimedNow(d)
    PROVE  /\ <<d, commands[d].attempt + 1>> \notin Attempts
           /\ Attempts' = Attempts \cup {<<d, commands[d].attempt + 1>>}
<1>1. commands[d] \in Row /\ commands[d] # Null
      BY DEF ClaimedNow, OldestPending, InStatus, Created, StoreTypeOK
<1>2. commands[d].attempt \in Nat
      BY <1>1 DEF Row
<1>3. PICK a \in Agents, expiresAt \in Time :
          commands'[d] = Claimed(commands[d], a, lastLease', expiresAt, now)
      BY DEF ClaimedNow
<1>4. commands'[d].attempt = commands[d].attempt + 1
      BY <1>1, <1>3 DEF Claimed, Row
<1>5. lastLease' \in LeaseId /\ now \in Time
      BY DEF ClaimedNow, StoreTypeOK, LeaseId
<1>6. commands'[d] # Null
  <2>1. commands'[d] \in Row
        BY <1>1, <1>3, <1>5, ClaimedType
  <2>2. QED
        BY <2>1, NullRowAssumption
<1>7. <<d, commands[d].attempt + 1>> \notin Attempts
      BY <1>2, AttemptsAre
<1>8. ASSUME NEW c, NEW n
      PROVE  <<c, n>> \in Attempts' <=>
                 <<c, n>> \in Attempts \/ <<c, n>> = <<d, commands[d].attempt + 1>>
  <2>1. <<c, n>> \in Attempts' <=>
            c \in Commands /\ commands'[c] # Null /\ n \in 1 .. commands'[c].attempt
        BY DEF Attempts, Created
  <2>2. CASE c = d
    <3>1. n \in 1 .. commands'[d].attempt <=>
              n \in 1 .. commands[d].attempt \/ n = commands[d].attempt + 1
          BY <1>2, <1>4
    <3>2. QED
          BY <1>1, <1>6, <2>1, <2>2, <3>1, AttemptsAre DEF Created
  <2>3. CASE c # d
    <3>1. c \in Commands => commands'[c] = commands[c]
          BY <2>3 DEF ClaimedNow
    <3>2. QED
          BY <2>1, <2>3, <3>1, AttemptsAre DEF Created
  <2>4. QED
        BY <2>2, <2>3
<1>9. ASSUME NEW x \in Attempts'
      PROVE  x \in Attempts \cup {<<d, commands[d].attempt + 1>>}
  <2>1. x = <<x[1], x[2]>>
        BY <1>9 DEF Attempts
  <2>2. QED
        BY <1>8, <1>9, <2>1
<1>10. ASSUME NEW x \in Attempts \cup {<<d, commands[d].attempt + 1>>}
       PROVE  x \in Attempts'
  <2>1. x \in Attempts => x = <<x[1], x[2]>>
        BY AttemptsArePairs
  <2>2. QED
        BY <1>8, <1>10, <2>1
<1>11. QED
       BY <1>7, <1>9, <1>10

(* A step that claims nothing draws no lease id.                           *)
LEMMA LeasesStay ==
    ASSUME StoreTypeOK, [StoreNext]_storeVars, \A d \in Commands : ~ClaimedNow(d)
    PROVE  lastLease' = lastLease
<1>1. ASSUME NEW c \in Commands, NEW a \in Agents, NEW maxLeaseMs \in LeaseMs,
             ClaimCommand(c, a, maxLeaseMs)
      PROVE  ClaimedNow(c)
  <2>1. now + maxLeaseMs \in Time
        BY LeaseMsAssumption DEF Time, StoreTypeOK
  <2>2. lastLease' = lastLease + 1 /\ FreshLease = lastLease'
        BY <1>1 DEF ClaimCommand, FreshLease
  <2>3. commands'[c] = Claimed(commands[c], a, lastLease', now + maxLeaseMs, now)
        BY <1>1, <2>2 DEF ClaimCommand, StoreTypeOK
  <2>4. \A d \in Commands : d # c => commands'[d] = commands[d]
        BY <1>1 DEF ClaimCommand, StoreTypeOK
  <2>5. QED
        BY <1>1, <2>1, <2>2, <2>3, <2>4 DEF ClaimedNow, ClaimCommand
<1>2. QED
      BY <1>1 DEF StoreNext, storeVars, Tick, ServerStop, ServerStart, CreateCommand,
                  Heartbeat, CompleteCommand, FailCommand

(* The attempt counters account for every claim the server has granted:    *)
(* neither a requeue at start-up nor the end of a command forgets one, and *)
(* no claim is counted on two rows or twice on one.                        *)
THEOREM AttemptsAlwaysMatch == StoreSpec => []AttemptsMatchClaims
<1> DEFINE Inv == IsFiniteSet(Attempts) /\ AttemptsMatchClaims
<1>1. StoreInit => Inv
  <2> SUFFICES ASSUME StoreInit PROVE Inv
      OBVIOUS
  <2>1. Attempts = {}
        BY DEF StoreInit, Attempts, Created
  <2>2. QED
        BY <2>1, FS_EmptySet DEF StoreInit, AttemptsMatchClaims
<1>2. StoreTypeOK /\ StoreTypeOK' /\ Inv /\ [StoreNext]_storeVars => Inv'
  <2> SUFFICES ASSUME StoreTypeOK, StoreTypeOK', Inv, [StoreNext]_storeVars
               PROVE  Inv'
      OBVIOUS
  <2>1. CASE \A d \in Commands : ~ClaimedNow(d)
    <3>1. Attempts' = Attempts /\ lastLease' = lastLease
          BY <2>1, AttemptsStay, LeasesStay
    <3>2. QED
          BY <3>1 DEF AttemptsMatchClaims
  <2>2. ASSUME NEW d \in Commands, ClaimedNow(d)
        PROVE  Inv'
    <3>1. PICK new : new \notin Attempts /\ Attempts' = Attempts \cup {new}
          BY <2>2, ClaimAttempts
    <3>2. lastLease' = lastLease + 1
          BY <2>2 DEF ClaimedNow
    <3>3. /\ IsFiniteSet(Attempts \cup {new})
          /\ Cardinality(Attempts \cup {new}) = Cardinality(Attempts) + 1
          BY <3>1, FS_AddElement
    <3>4. QED
          BY <3>1, <3>2, <3>3 DEF AttemptsMatchClaims
  <2>3. QED
        BY <2>1, <2>2
<1>3. Inv => AttemptsMatchClaims
      OBVIOUS
<1>4. QED
      BY <1>1, <1>2, <1>3, TypeCorrect, PTL DEF StoreSpec
=============================================================================
