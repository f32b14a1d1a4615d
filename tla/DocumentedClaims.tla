-------------------------- MODULE DocumentedClaims --------------------------
(***************************************************************************)
(* What the README, the comments and the tests of the repository say of    *)
(* the system and the code does not do: each definition states one such    *)
(* sentence, and a run of its own shows a behaviour that breaks it.        *)
(***************************************************************************)
EXTENDS ReliableSystem

(* README.md:35: "At most one agent executes a command at any time".  A    *)
(* holder that lost its lease goes on until a heartbeat fails - and an     *)
(* HTTP_GET_JSON never looks at the lease at all.                          *)
AtMostOneExecutes ==
    \A a, b \in WithJournal :
        /\ a # b
        /\ pc[a] \in {"waiting", "fetching", "reading"}
        /\ pc[b] \in {"waiting", "fetching", "reading"}
        => journal[a].commandId # journal[b].commandId

(* delay.ts:64: "Throws LeaseExpiredError if lease becomes invalid".  The  *)
(* late answer to a heartbeat of the previous command invalidates the      *)
(* lease of the current one, which the server still honours.               *)
LeaseLostOnlyIfInvalid ==
    \A a \in WithJournal :
        /\ pc[a] = "waiting"
        /\ ~leaseValid[a]
        => ~IsCurrentLease(journal[a].commandId, a, journal[a].leaseId)

(* delay.ts:63: "Wait until the target time, checking lease validity       *)
(* periodically".  Beyond 2^31-1 ms setTimeout fires after 1 ms.           *)
LongDelayNotEarly ==
    \A c \in InStatus("COMPLETED") :
        commands[c].payload.type = "DELAY" => commands[c].scheduledEndAt <= now

(* README.md:446: "Automatic recovery when agents crash".  Expired leases  *)
(* are reset only while the server starts, so the command of an agent that *)
(* died before its journal was written stays RUNNING for good.             *)
RecoversAutomatically ==
    \A c \in Commands :
        (c \in ExpiredLeases) ~> (c \notin ExpiredLeases)
=============================================================================
