---------------------------- MODULE SharedTypes ----------------------------
(***************************************************************************)
(* The vocabulary the server and the agent share (packages/shared): the    *)
(* commands, their payloads and life-cycle statuses, and the journal.      *)
(*                                                                         *)
(* A URL, a response body and an error text are data nothing below tells   *)
(* apart, so an HTTP_GET_JSON payload has no field but its type, and its   *)
(* result is known by the lease under which the URL was fetched.  Times    *)
(* and durations are integers in one unit; a duration comes from a request *)
(* body, where the server asks only that it be a number                    *)
(* (require-fields.ts), so it may be zero or negative.                     *)
(***************************************************************************)
EXTENDS Integers, FiniteSets

CONSTANTS
    Commands,   \* command ids, each drawn once by randomUUID()
    Agents,     \* agent ids
    Null,       \* null in TypeScript, NULL in SQLite
    DelayMs     \* values of "ms" in a DELAY payload

ASSUME DelayMsAssumption == DelayMs \subseteq Int

ASSUME NullAssumption == Null \notin Int /\ Null \notin Agents /\ Null \notin Commands

Time == Int

LeaseId == Nat \ {0}

CommandStatus == {"PENDING", "RUNNING", "COMPLETED", "FAILED"}

DelayPayload == [type : {"DELAY"}, ms : DelayMs]

HttpGetJsonPayload == [type : {"HTTP_GET_JSON"}]

CommandPayload == DelayPayload \cup HttpGetJsonPayload

(* What ends up in resultJson: how long a DELAY took, or the response that *)
(* was fetched while the agent held the lease "fetchedUnder".              *)
DelayResult == [tookMs : Int]

HttpGetJsonResult == [fetchedUnder : LeaseId]

CommandResult == DelayResult \cup HttpGetJsonResult

JournalStage == {"CLAIMED", "IN_PROGRESS", "RESULT_SAVED"}

AgentJournal ==
    [commandId      : Commands,
     leaseId        : LeaseId,
     type           : {"DELAY", "HTTP_GET_JSON"},
     startedAt      : Time,
     scheduledEndAt : Time \cup {Null},
     httpSnapshot   : HttpGetJsonResult \cup {Null},
     stage          : JournalStage]
=============================================================================
