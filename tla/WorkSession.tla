---------------------------- MODULE WorkSession ----------------------------
(***************************************************************************)
(* What an agent promises with its journal (README of the repository,      *)
(* "Agent Persistence"): it works under one lease at a time, which nobody  *)
(* ever works under again; what it found out is never replaced; and once   *)
(* it has a result, the work ends only after that result was sent and the  *)
(* request settled, that is, was answered or failed.  To die and to        *)
(* recover is a stuttering step, except while a result is being reported:  *)
(* then it is sent again.                                                  *)
(***************************************************************************)
EXTENDS FiniteSets

CONSTANTS Agents, Commands, Leases, Outcomes, Null

VARIABLES
    session,    \* the work each agent has in its journal, or Null
    begun       \* the leases work was ever begun under

sessionVars == <<session, begun>>

(* How far the report of the result has come.                              *)
Phase == {"unsent", "sent", "settled"}

Session ==
    [commandId : Commands,
     leaseId   : Leases,
     outcome   : Outcomes \cup {Null},
     phase     : Phase]

SessionInit ==
    /\ session = [a \in Agents |-> Null]
    /\ begun = {}

(* createClaimed                                                           *)
Begin(a, c, l) ==
    /\ l \notin begun
    /\ begun' = begun \cup {l}
    /\ session[a] = Null
    /\ session' = [session EXCEPT ![a] =
           [commandId |-> c, leaseId |-> l, outcome |-> Null, phase |-> "unsent"]]

(* RESULT_SAVED                                                            *)
FindOut(a) ==
    /\ session[a] # Null
    /\ session[a].outcome = Null
    /\ \E result \in Outcomes : session' = [session EXCEPT ![a].outcome = result]
    /\ UNCHANGED begun

(* The lease was lost, recovery cannot go on, or the journal cannot be     *)
(* written: work without a result is dropped.                              *)
Drop(a) ==
    /\ session[a] # Null
    /\ session[a].outcome = Null
    /\ session' = [session EXCEPT ![a] = Null]
    /\ UNCHANGED begun

(* reportCompletion up to its await.                                       *)
SendOutcome(a) ==
    /\ session[a] # Null
    /\ session[a].outcome # Null
    /\ session[a].phase = "unsent"
    /\ session' = [session EXCEPT ![a].phase = "sent"]
    /\ UNCHANGED begun

(* The server answered the report, or the request failed.                  *)
Settle(a) ==
    /\ session[a] # Null
    /\ session[a].phase = "sent"
    /\ session' = [session EXCEPT ![a].phase = "settled"]
    /\ UNCHANGED begun

(* The agent dies before it has closed the session: it will send again.    *)
Interrupt(a) ==
    /\ session[a] # Null
    /\ session[a].phase # "unsent"
    /\ session' = [session EXCEPT ![a].phase = "unsent"]
    /\ UNCHANGED begun

(* reportCompletion after its await: only a settled report ends the work.  *)
Close(a) ==
    /\ session[a] # Null
    /\ session[a].phase = "settled"
    /\ session' = [session EXCEPT ![a] = Null]
    /\ UNCHANGED begun

SessionNext ==
    \E a \in Agents :
        \/ \E c \in Commands, l \in Leases : Begin(a, c, l)
        \/ FindOut(a)
        \/ Drop(a)
        \/ SendOutcome(a)
        \/ Settle(a)
        \/ Interrupt(a)
        \/ Close(a)

SessionSpec == SessionInit /\ [][SessionNext]_sessionVars
=============================================================================
