--------------------------- MODULE AtomicJournal ---------------------------
(***************************************************************************)
(* What JournalManager promises the agent (README of the repository,       *)
(* "Atomic Writes"): a journal is there as a whole or not at all, a save   *)
(* that returned outlives the process, and what a start finds is what the  *)
(* last save or deletion that took effect left.  Agent.tla relies on       *)
(* exactly this when it writes the journal in one step.                    *)
(***************************************************************************)
CONSTANTS Procs, Contents, Null, Down

VARIABLES
    kept,     \* the journal a start would find
    known     \* the journal the running process believes in, or Down

journalVars == <<kept, known>>

JournalInit ==
    /\ kept = [p \in Procs |-> Null]
    /\ known = [p \in Procs |-> Down]

Save(p, content) ==
    /\ known[p] # Down
    /\ kept' = [kept EXCEPT ![p] = content]
    /\ known' = [known EXCEPT ![p] = content]

(* A failed deletion is swallowed: the process believes the journal gone.  *)
Delete(p, deleted) ==
    /\ known[p] # Down
    /\ kept' = IF deleted THEN [kept EXCEPT ![p] = Null] ELSE kept
    /\ known' = [known EXCEPT ![p] = Null]

Die(p) ==
    /\ known' = [known EXCEPT ![p] = Down]
    /\ UNCHANGED kept

(* Any error while reading counts as no journal.                           *)
Recover(p, readable) ==
    /\ known[p] = Down
    /\ known' = [known EXCEPT ![p] = IF readable THEN kept[p] ELSE Null]
    /\ UNCHANGED kept

JournalNext ==
    \E p \in Procs :
        \/ \E content \in Contents : Save(p, content)
        \/ \E done \in BOOLEAN : Delete(p, done) \/ Recover(p, done)
        \/ Die(p)

JournalSpec == JournalInit /\ [][JournalNext]_journalVars
=============================================================================
