-------------------------- MODULE CommandLifecycle --------------------------
(***************************************************************************)
(* What the control server promises to its clients and agents, without     *)
(* clocks, rows or processes: a submitted command is handed to one agent   *)
(* at a time under a token never used before, only the current holder can  *)
(* finish it, it is finished at most once, and a command taken back from   *)
(* its holder waits to be handed out again.                                *)
(*                                                                         *)
(* When a command may be taken back is left open here; CommandStore, which *)
(* implements this specification, takes back exactly the expired leases    *)
(* and only while it starts.                                               *)
(***************************************************************************)
EXTENDS SharedTypes

CONSTANTS
    Tokens,     \* lease ids
    Outcomes    \* results a command can finish with

VARIABLES
    view,       \* what GET /commands/:id shows, and the current token
    issued      \* the tokens handed out so far

lifecycleVars == <<view, issued>>

View(status, agentId, token, result) ==
    [status |-> status, agentId |-> agentId, token |-> token, result |-> result]

Waiting == View("PENDING", Null, Null, Null)

Assigned(a, token) == View("RUNNING", a, token, Null)

LifecycleInit ==
    /\ view = [c \in Commands |-> Null]
    /\ issued = {}

Submit(c) ==
    /\ view[c] = Null
    /\ view' = [view EXCEPT ![c] = Waiting]
    /\ UNCHANGED issued

Assign(c, a, token) ==
    /\ view[c] = Waiting
    /\ token \notin issued
    /\ view' = [view EXCEPT ![c] = Assigned(a, token)]
    /\ issued' = issued \cup {token}

Finish(c, a, token, status, result) ==
    /\ view[c] = Assigned(a, token)
    /\ token \in issued
    /\ view' = [view EXCEPT ![c] = View(status, a, token, result)]
    /\ UNCHANGED issued

IsAssigned(c) == \E a \in Agents, token \in issued : view[c] = Assigned(a, token)

TakeBack(taken) ==
    /\ \A c \in taken : IsAssigned(c)
    /\ view' = [c \in Commands |-> IF c \in taken THEN Waiting ELSE view[c]]
    /\ UNCHANGED issued

LifecycleNext ==
    \/ \E c \in Commands :
         \/ Submit(c)
         \/ \E a \in Agents, token \in Tokens :
              \/ Assign(c, a, token)
              \/ \E result \in Outcomes : Finish(c, a, token, "COMPLETED", result)
              \/ \E result \in Outcomes \cup {Null} : Finish(c, a, token, "FAILED", result)
    \/ \E taken \in SUBSET Commands : TakeBack(taken)

LifecycleSpec == LifecycleInit /\ [][LifecycleNext]_lifecycleVars
=============================================================================
