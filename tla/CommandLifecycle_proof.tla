----------------------- MODULE CommandLifecycle_proof -----------------------
(***************************************************************************)
(* The table of CommandStore implements CommandLifecycle: each operation   *)
(* on the rows is a step of the lifecycle or one its clients cannot see.   *)
(***************************************************************************)
EXTENDS CommandStore_proof

LeasesBounded == lastLease <= MaxLeases

(* The claims granted never exceed the bound on lease ids.                 *)
LEMMA LeasesAlwaysBounded == StoreSpec => []LeasesBounded
<1>1. StoreInit => LeasesBounded
      BY BoundsAssumption DEF StoreInit, LeasesBounded
<1>2. StoreTypeOK /\ LeasesBounded /\ [StoreNext]_storeVars => LeasesBounded'
  <2> SUFFICES ASSUME StoreTypeOK, LeasesBounded, [StoreNext]_storeVars
               PROVE  LeasesBounded'
      OBVIOUS
  <2>1. lastLease' = lastLease \/ (lastLease' = lastLease + 1 /\ lastLease < MaxLeases)
        BY DEF StoreNext, storeVars, Tick, ServerStop, ServerStart, CreateCommand,
               ClaimCommand, Heartbeat, CompleteCommand, FailCommand
  <2>2. QED
        BY <2>1, BoundsAssumption DEF LeasesBounded, StoreTypeOK
<1>3. QED
      BY <1>1, <1>2, TypeCorrect, PTL DEF StoreSpec

(* What the lifecycle sees of a row, and when a step leaves it alone.      *)
RowView(row) ==
    IF row = Null
    THEN Null
    ELSE [status |-> row.status, agentId |-> row.agentId,
          token |-> row.leaseId, result |-> row.result]

(* The refinement mapping, row by row: before a step                       *)
LEMMA ViewOfRows == LifecycleView = [c \in Commands |-> RowView(commands[c])]
BY DEF LifecycleView, RowView

(* and after it.                                                           *)
LEMMA ViewOfRowsNext == LifecycleView' = [c \in Commands |-> RowView(commands'[c])]
BY DEF LifecycleView, RowView

(* A step that rewrites one row changes the view at that command only.     *)
LEMMA OneRowChanges ==
    ASSUME NEW c \in Commands, NEW row, StoreTypeOK,
           commands' = [commands EXCEPT ![c] = row]
    PROVE  LifecycleView' = [LifecycleView EXCEPT ![c] = RowView(row)]
<1>1. \A d \in Commands : commands'[d] = IF d = c THEN row ELSE commands[d]
      BY DEF StoreTypeOK
<1>2. QED
      BY <1>1, ViewOfRows, ViewOfRowsNext

(* A row in RUNNING is a command assigned to the holder of its lease.      *)
LEMMA RunningIsAssigned ==
    ASSUME StoreTypeOK, RowsConsistent, LeaseExclusive, NEW c \in InStatus("RUNNING")
    PROVE  /\ c \in Commands /\ commands[c] \in Row /\ commands[c] # Null
           /\ commands[c].agentId \in Agents
           /\ commands[c].leaseId \in 1..lastLease
           /\ LifecycleView[c] =
                 Lifecycle!Assigned(commands[c].agentId, commands[c].leaseId)
<1>1. c \in Commands /\ commands[c] \in Row /\ commands[c] # Null
      BY DEF InStatus, Created, StoreTypeOK
<1>2. RowConsistent(commands[c]) /\ commands[c].status = "RUNNING"
      BY DEF RowsConsistent, InStatus
<1>3. /\ commands[c].agentId # Null /\ commands[c].leaseId # Null
      /\ commands[c].result = Null
      BY <1>2 DEF RowConsistent
<1>4. commands[c].agentId \in Agents /\ commands[c].leaseId \in LeaseId
      BY <1>1, <1>3 DEF Row
<1>5. commands[c].leaseId <= lastLease
      BY <1>1, <1>3 DEF LeaseExclusive, Created
<1>6. commands[c].leaseId \in 1..lastLease
      BY <1>4, <1>5 DEF LeaseId, StoreTypeOK
<1>7. LifecycleView[c] = Lifecycle!Assigned(commands[c].agentId, commands[c].leaseId)
      BY <1>1, <1>2, <1>3 DEF LifecycleView, Lifecycle!Assigned, Lifecycle!View
<1>8. QED
      BY <1>1, <1>4, <1>6, <1>7

(* A row in PENDING is a command that waits.                               *)
LEMMA PendingIsWaiting ==
    ASSUME RowsConsistent, NEW c \in InStatus("PENDING")
    PROVE  LifecycleView[c] = Lifecycle!Waiting
<1>1. c \in Commands /\ commands[c] # Null
      BY DEF InStatus, Created
<1>2. RowConsistent(commands[c]) /\ commands[c].status = "PENDING"
      BY DEF RowsConsistent, InStatus
<1>3. QED
      BY <1>1, <1>2 DEF LifecycleView, Lifecycle!Waiting, Lifecycle!View, RowConsistent

-----------------------------------------------------------------------------
(* The operations, one by one.                                             *)
LEMMA CreateIsSubmit ==
    ASSUME StoreTypeOK, NEW c \in Commands, NEW payload \in CommandPayload,
           CreateCommand(c, payload)
    PROVE  Lifecycle!Submit(c)
<1> DEFINE row == [payload |-> payload, status |-> "PENDING", createdAt |-> now,
                   agentId |-> Null, leaseId |-> Null, leaseExpiresAt |-> Null,
                   startedAt |-> Null, scheduledEndAt |-> Null, attempt |-> 0,
                   result |-> Null]
<1>1. commands[c] = Null /\ commands' = [commands EXCEPT ![c] = row] /\ lastLease' = lastLease
      BY DEF CreateCommand
<1>2. row # Null
      BY CreatedRowType, NullRowAssumption DEF StoreTypeOK
<1>3. RowView(row) = Lifecycle!Waiting
      BY <1>2 DEF RowView, Lifecycle!Waiting, Lifecycle!View
<1>4. LifecycleView[c] = Null
      BY <1>1 DEF LifecycleView
<1> HIDE DEF row
<1>5. LifecycleView' = [LifecycleView EXCEPT ![c] = Lifecycle!Waiting]
      BY <1>1, <1>3, OneRowChanges
<1>6. QED
      BY <1>1, <1>4, <1>5 DEF Lifecycle!Submit

(* A claim hands a waiting command out under a fresh token.                *)
LEMMA ClaimIsAssign ==
    ASSUME StoreTypeOK, StoreTypeOK', RowsConsistent, LeaseExclusive, NEW c \in Commands,
           NEW a \in Agents, NEW maxLeaseMs \in LeaseMs, ClaimCommand(c, a, maxLeaseMs)
    PROVE  /\ lastLease + 1 \in 1..MaxLeases
           /\ Lifecycle!Assign(c, a, lastLease + 1)
<1> DEFINE row == Claimed(commands[c], a, FreshLease, now + maxLeaseMs, now)
<1>1. /\ c \in InStatus("PENDING") /\ lastLease < MaxLeases
      /\ lastLease' = lastLease + 1
      /\ commands' = [commands EXCEPT ![c] = row]
      BY DEF ClaimCommand, OldestPending
<1>2. lastLease \in Nat
      BY DEF StoreTypeOK
<1>3. lastLease + 1 \in 1..MaxLeases
      BY <1>1, <1>2, BoundsAssumption
<1>4. commands[c] \in Row /\ commands[c] # Null /\ commands[c].status = "PENDING"
      BY <1>1 DEF InStatus, Created, StoreTypeOK
<1>5. commands[c].result = Null
      BY <1>4 DEF RowsConsistent, RowConsistent, Created
<1>6. row \in Row
  <2>1. now + maxLeaseMs \in Time /\ now \in Time
        BY LeaseMsAssumption DEF StoreTypeOK, Time
  <2>2. FreshLease \in LeaseId
        BY <1>2 DEF FreshLease, LeaseId
  <2>3. QED
        BY <1>4, <2>1, <2>2, ClaimedType
<1>7. row # Null
      BY <1>6, NullRowAssumption
<1>8. /\ row.status = "RUNNING" /\ row.agentId = a
      /\ row.leaseId = lastLease + 1 /\ row.result = Null
      BY <1>4, <1>5 DEF Claimed, Row, FreshLease
<1> HIDE DEF row
<1>9. RowView(row) = Lifecycle!Assigned(a, lastLease + 1)
      BY <1>7, <1>8 DEF RowView, Lifecycle!Assigned, Lifecycle!View
<1>10. LifecycleView' = [LifecycleView EXCEPT ![c] = Lifecycle!Assigned(a, lastLease + 1)]
      BY <1>1, <1>9, OneRowChanges
<1>11. LifecycleView[c] = Lifecycle!Waiting
      BY <1>1, PendingIsWaiting
<1>12. lastLease + 1 \notin 1..lastLease /\ 1..lastLease' = 1..lastLease \cup {lastLease + 1}
      BY <1>1, <1>2
<1>13. QED
      BY <1>3, <1>10, <1>11, <1>12 DEF Lifecycle!Assign

(* A heartbeat changes nothing clients can see.                            *)
LEMMA HeartbeatIsInvisible ==
    ASSUME StoreTypeOK, NEW c \in Commands, NEW a, NEW l, NEW extendMs \in ExtendMs,
           Heartbeat(c, a, l, extendMs)
    PROVE  UNCHANGED <<LifecycleView, 1..lastLease>>
<1> DEFINE row == [commands[c] EXCEPT !.leaseExpiresAt = now + extendMs]
<1>1. /\ commands[c] \in Row /\ commands[c] # Null
      /\ commands' = [commands EXCEPT ![c] = row] /\ lastLease' = lastLease
      BY DEF Heartbeat, IsCurrentLease, InStatus, Created, StoreTypeOK
<1>2. row \in Row
  <2>1. now + extendMs \in Time
        BY LeaseMsAssumption DEF StoreTypeOK, Time
  <2>2. QED
        BY <1>1, <2>1 DEF Row
<1>3. RowView(row) = RowView(commands[c])
  <2>1. row # Null
        BY <1>2, NullRowAssumption
  <2>2. /\ row.status = commands[c].status /\ row.agentId = commands[c].agentId
        /\ row.leaseId = commands[c].leaseId /\ row.result = commands[c].result
        BY <1>1 DEF Row
  <2> HIDE DEF row
  <2>3. QED
        BY <1>1, <2>1, <2>2 DEF RowView
<1> HIDE DEF row
<1>4. LifecycleView' = [LifecycleView EXCEPT ![c] = RowView(commands[c])]
      BY <1>1, <1>3, OneRowChanges
<1>5. LifecycleView' = LifecycleView
      BY <1>4, ViewOfRows
<1>6. QED
      BY <1>1, <1>5

(* Complete and fail finish a command under its current token.             *)
LEMMA FinishIsFinish ==
    ASSUME StoreTypeOK, RowsConsistent, LeaseExclusive, LeasesBounded,
           NEW c \in Commands, NEW a \in Agents, NEW l \in 1..lastLease,
           NEW status \in CommandStatus, NEW result \in CommandResult \cup {Null},
           IsCurrentLease(c, a, l), lastLease' = lastLease,
           commands' = [commands EXCEPT ![c] = Finished(commands[c], status, result)]
    PROVE  l \in 1..MaxLeases /\ Lifecycle!Finish(c, a, l, status, result)
<1> DEFINE row == Finished(commands[c], status, result)
<1>1. c \in InStatus("RUNNING") /\ commands[c].agentId = a /\ commands[c].leaseId = l
      BY DEF IsCurrentLease
<1>2. commands[c] \in Row /\ LifecycleView[c] = Lifecycle!Assigned(a, l)
      BY <1>1, RunningIsAssigned
<1>3. l \in 1..MaxLeases
      BY BoundsAssumption DEF LeasesBounded, StoreTypeOK
<1>4. row # Null
      BY <1>2, FinishedType, NullRowAssumption
<1>5. row.status = status /\ row.agentId = a /\ row.leaseId = l /\ row.result = result
      BY <1>1, <1>2 DEF Finished, Row
<1> HIDE DEF row
<1>6. RowView(row) = Lifecycle!View(status, a, l, result)
      BY <1>4, <1>5 DEF RowView, Lifecycle!View
<1>7. LifecycleView' = [LifecycleView EXCEPT ![c] = Lifecycle!View(status, a, l, result)]
      BY <1>6, OneRowChanges DEF row
<1>8. QED
      BY <1>2, <1>3, <1>7 DEF Lifecycle!Finish

(* A start of the server takes the expired leases back.                    *)
LEMMA StartTakesBack ==
    ASSUME StoreTypeOK, StoreTypeOK', RowsConsistent, LeaseExclusive,
           NEW listening \in BOOLEAN, ServerStart(listening)
    PROVE  Lifecycle!TakeBack(ExpiredLeases)
<1>1. \A c \in ExpiredLeases : Lifecycle!IsAssigned(c)
  <2> SUFFICES ASSUME NEW c \in ExpiredLeases PROVE Lifecycle!IsAssigned(c)
      OBVIOUS
  <2>1. c \in InStatus("RUNNING")
        BY DEF ExpiredLeases
  <2>2. QED
        BY <2>1, RunningIsAssigned DEF Lifecycle!IsAssigned
<1>2. ASSUME NEW c \in ExpiredLeases
      PROVE  RowView(Requeued(commands[c])) = Lifecycle!Waiting
  <2>1. c \in InStatus("RUNNING")
        BY <1>2 DEF ExpiredLeases
  <2>2. /\ commands[c] \in Row /\ commands[c] # Null /\ commands[c].status = "RUNNING"
        /\ RowConsistent(commands[c])
        BY <2>1 DEF InStatus, Created, StoreTypeOK, RowsConsistent
  <2>3. commands[c].result = Null
        BY <2>2 DEF RowConsistent
  <2>4. Requeued(commands[c]) # Null
        BY <2>2, RequeuedType, NullRowAssumption
  <2>5. QED
        BY <2>2, <2>3, <2>4 DEF RowView, Requeued, Row, Lifecycle!Waiting, Lifecycle!View
<1>3. LifecycleView' =
          [c \in Commands |->
              IF c \in ExpiredLeases THEN Lifecycle!Waiting ELSE LifecycleView[c]]
      BY <1>2, ViewOfRows, ViewOfRowsNext DEF ServerStart
<1>4. lastLease' = lastLease
      BY DEF ServerStart
<1>5. QED
      BY <1>1, <1>3, <1>4 DEF Lifecycle!TakeBack

-----------------------------------------------------------------------------
(* The table keeps the promise of CommandLifecycle.  The invariant the     *)
(* steps need: rows are consistent, lease ids are exclusive and issued,    *)
(* and no more of them than there are tokens.                              *)
THEOREM TableImplementsLifecycle == StoreSpec => ImplementsLifecycle
<1> DEFINE IInv == StoreTypeOK /\ RowsConsistent /\ LeaseExclusive /\ LeasesBounded
<1>1. StoreInit => Lifecycle!LifecycleInit
      BY DEF StoreInit, Lifecycle!LifecycleInit, LifecycleView
<1>2. IInv /\ IInv' /\ [StoreNext]_storeVars =>
          [Lifecycle!LifecycleNext]_<<LifecycleView, 1..lastLease>>
  <2> SUFFICES ASSUME IInv, IInv', [StoreNext]_storeVars
               PROVE  \/ Lifecycle!LifecycleNext
                      \/ UNCHANGED <<LifecycleView, 1..lastLease>>
      OBVIOUS
  <2>1. CASE Tick \/ ServerStop \/ UNCHANGED storeVars
        BY <2>1 DEF Tick, ServerStop, storeVars, LifecycleView
  <2>2. ASSUME NEW listening \in BOOLEAN, ServerStart(listening)
        PROVE  Lifecycle!LifecycleNext
    <3>1. ExpiredLeases \in SUBSET Commands
          BY DEF ExpiredLeases, InStatus, Created
    <3>2. QED
          BY <2>2, <3>1, StartTakesBack DEF Lifecycle!LifecycleNext
  <2>3. ASSUME NEW c \in Commands, NEW payload \in CommandPayload, CreateCommand(c, payload)
        PROVE  Lifecycle!LifecycleNext
        BY <2>3, CreateIsSubmit DEF Lifecycle!LifecycleNext
  <2>4. ASSUME NEW c \in Commands, NEW a \in Agents, NEW maxLeaseMs \in LeaseMs,
               ClaimCommand(c, a, maxLeaseMs)
        PROVE  Lifecycle!LifecycleNext
        BY <2>4, ClaimIsAssign DEF Lifecycle!LifecycleNext
  <2>5. ASSUME NEW c \in Commands, NEW a \in Agents, NEW l \in 1..lastLease,
               NEW extendMs \in ExtendMs, Heartbeat(c, a, l, extendMs)
        PROVE  UNCHANGED <<LifecycleView, 1..lastLease>>
        BY <2>5, HeartbeatIsInvisible
  <2>6. ASSUME NEW c \in Commands, NEW a \in Agents, NEW l \in 1..lastLease,
               NEW result \in Results, CompleteCommand(c, a, l, result)
        PROVE  Lifecycle!LifecycleNext
    <3>1. /\ IsCurrentLease(c, a, l) /\ lastLease' = lastLease
          /\ commands' = [commands EXCEPT ![c] = Finished(commands[c], "COMPLETED", result)]
          BY <2>6 DEF CompleteCommand
    <3>2. l \in 1..MaxLeases /\ Lifecycle!Finish(c, a, l, "COMPLETED", result)
          BY <3>1, FinishIsFinish, ResultsAssumption DEF CommandStatus
    <3>3. QED
          BY <3>2 DEF Lifecycle!LifecycleNext
  <2>7. ASSUME NEW c \in Commands, NEW a \in Agents, NEW l \in 1..lastLease,
               NEW result \in Results \cup {Null}, FailCommand(c, a, l, result)
        PROVE  Lifecycle!LifecycleNext
    <3>1. /\ IsCurrentLease(c, a, l) /\ lastLease' = lastLease
          /\ commands' = [commands EXCEPT ![c] = Finished(commands[c], "FAILED", result)]
          BY <2>7 DEF FailCommand
    <3>2. l \in 1..MaxLeases /\ Lifecycle!Finish(c, a, l, "FAILED", result)
          BY <3>1, FinishIsFinish, ResultsAssumption DEF CommandStatus
    <3>3. QED
          BY <3>2 DEF Lifecycle!LifecycleNext
  <2>8. QED
        BY <2>1, <2>2, <2>3, <2>4, <2>5, <2>6, <2>7 DEF StoreNext
<1>3. QED
      BY <1>1, <1>2, TypeCorrect, RowsAlwaysConsistent, LeasesExclusive,
         LeasesAlwaysBounded, PTL
      DEF StoreSpec, ImplementsLifecycle, Lifecycle!LifecycleSpec, Lifecycle!lifecycleVars
=============================================================================
