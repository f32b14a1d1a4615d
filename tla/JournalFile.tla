---------------------------- MODULE JournalFile ----------------------------
(***************************************************************************)
(* The state directory and the agent processes that keep their journals in *)
(* it: JournalManagerImpl (packages/agent/src/journal.ts), one file system *)
(* call per step, and how a process gets the agent id its file is named    *)
(* after (config/).  The calls of one save are synchronous, but the        *)
(* process can die between any two of them.                                *)
(*                                                                         *)
(* The system itself keeps running: a power failure, after which a file    *)
(* that was renamed but never fsync'ed may be torn, is outside.            *)
(***************************************************************************)
EXTENDS Naturals, FiniteSets

CONSTANTS
    Procs,        \* agent processes that share one state directory
    AgentIds,     \* agent ids
    CliAgentId,   \* --agent-id of each process, Null without the option
    EnvAgentId,   \* AGENT_ID of each process, Null when it is not set
    Contents,     \* journals an agent may save
    Null,
    Torn,         \* what a file holds while it is being written
    Down,         \* in place of what a process knows, when there is none
    MaxTemps      \* bound: saves in one behaviour

(* cli.agentId ?? env.agentId; without either, an id is drawn at random.   *)
ConfiguredId(p) == IF CliAgentId[p] # Null THEN CliAgentId[p] ELSE EnvAgentId[p]

Configured == {p \in Procs : ConfiguredId(p) # Null}

ASSUME IdsAssumption ==
    /\ CliAgentId \in [Procs -> AgentIds \cup {Null}]
    /\ EnvAgentId \in [Procs -> AgentIds \cup {Null}]
    /\ Null \notin AgentIds

(* README.md:363: "Unique agent identifier".                               *)
ASSUME UniqueIdsAssumption ==
    \A p, q \in Configured : p # q => ConfiguredId(p) # ConfiguredId(q)

ASSUME ContentsAssumption ==
    /\ Null \notin Contents /\ Torn \notin Contents /\ Down \notin Contents
    /\ Null # Torn /\ Null # Down

ASSUME MaxTempsAssumption == MaxTemps \in Nat

VARIABLES
    files,      \* the state directory: content by file name, Null if absent
    step,       \* where each process stands: down, up or inside save()
    id,         \* config.agentId of each process since it last started
    writing,    \* the journal it is saving
    temp,       \* the number in its temporary file's name
    known,      \* the journal it believes in: last saved, loaded or deleted
    drawn,      \* numbers randomUUID has given to temporary files
    mishaps     \* deaths inside save() and temporary files not cleaned up

vars == <<files, step, id, writing, temp, known, drawn, mishaps>>

FileName == AgentIds \X (0..MaxTemps)

Step == {"down", "up", "writing", "written"}

(* <agentId>.json                                                          *)
JournalPath(i) == <<i, 0>>

(* Mutant: the journal is written in place.                                *)
InPlace(i, n) == <<i, 0>>

(* <agentId>.json.<uuid>.tmp                                               *)
TempPath(i, n) == <<i, n>>

(* Mutant: numbers from zero on.                                           *)
FirstTempZero == drawn

(* randomUUID()                                                            *)
FreshTemp == drawn + 1

SavesTo(p) == TempPath(id[p], temp[p])

(* generateAgentId: an id nobody has or has left a file under.             *)
RandomIds ==
    {i \in AgentIds :
        /\ \A p \in Procs : i # id[p] /\ i # ConfiguredId(p)
        /\ \A n \in 0..MaxTemps : files[<<i, n>>] = Null}

(* loadConfig: the option, else the environment, else a random id.         *)
IdsFor(p) == IF p \in Configured THEN {ConfiguredId(p)} ELSE RandomIds

(* load(): what does not parse is no journal.                              *)
Load(i) == IF files[JournalPath(i)] \in Contents THEN files[JournalPath(i)] ELSE Null

-----------------------------------------------------------------------------
Init ==
    /\ files = [name \in FileName |-> Null]
    /\ step = [p \in Procs |-> "down"]
    /\ id = [p \in Procs |-> Null]
    /\ writing = [p \in Procs |-> Null]
    /\ temp = [p \in Procs |-> 0]
    /\ known = [p \in Procs |-> Down]
    /\ drawn = 0
    /\ mishaps = 0

(* loadConfig, then load(), which catches every error.                     *)
Start(p, i, readable) ==
    /\ step[p] = "down"
    /\ i \in IdsFor(p)
    /\ step' = [step EXCEPT ![p] = "up"]
    /\ id' = [id EXCEPT ![p] = i]
    /\ known' = [known EXCEPT ![p] = IF readable THEN Load(i) ELSE Null]
    /\ UNCHANGED <<files, writing, temp, drawn, mishaps>>

(* save(): writeFileSync opens and fills the temporary file.  (When the    *)
(* directory or the file cannot be made, nothing happens but the throw.)   *)
SaveBegins(p, content) ==
    /\ step[p] = "up"
    /\ drawn < MaxTemps
    /\ drawn' = drawn + 1
    /\ temp' = [temp EXCEPT ![p] = FreshTemp]
    /\ writing' = [writing EXCEPT ![p] = content]
    /\ files' = [files EXCEPT ![TempPath(id[p], FreshTemp)] = Torn]
    /\ step' = [step EXCEPT ![p] = "writing"]
    /\ UNCHANGED <<id, known, mishaps>>

WriteEnds(p) ==
    /\ step[p] = "writing"
    /\ files' = [files EXCEPT ![SavesTo(p)] = writing[p]]
    /\ step' = [step EXCEPT ![p] = "written"]
    /\ UNCHANGED <<id, writing, temp, known, drawn, mishaps>>

(* renameSync, and save() returns.                                         *)
Renames(p) ==
    /\ step[p] = "written"
    /\ files' = [files EXCEPT ![JournalPath(id[p])] = files[SavesTo(p)], ![SavesTo(p)] = Null]
    /\ known' = [known EXCEPT ![p] = writing[p]]
    /\ step' = [step EXCEPT ![p] = "up"]
    /\ UNCHANGED <<id, writing, temp, drawn, mishaps>>

(* Mutant: the temporary file is left behind.                              *)
SaveThrowsOnly(p) ==
    /\ step[p] \in {"writing", "written"}
    /\ step' = [step EXCEPT ![p] = "up"]
    /\ UNCHANGED <<files, id, writing, temp, known, drawn, mishaps>>

(* A write or rename fails: the temporary file is removed and save()       *)
(* throws; the agent goes on from the journal it had.                      *)
SaveThrows(p) ==
    /\ step[p] \in {"writing", "written"}
    /\ files' = [files EXCEPT ![SavesTo(p)] = Null]
    /\ step' = [step EXCEPT ![p] = "up"]
    /\ UNCHANGED <<id, writing, temp, known, drawn, mishaps>>

(* ... or it cannot be removed either, which is ignored.                   *)
CleanupFails(p) ==
    /\ step[p] \in {"writing", "written"}
    /\ step' = [step EXCEPT ![p] = "up"]
    /\ mishaps' = mishaps + 1
    /\ UNCHANGED <<files, id, writing, temp, known, drawn>>

(* delete(); when unlinkSync fails the caller is not told.                 *)
Delete(p, deleted) ==
    /\ step[p] = "up"
    /\ files' = IF deleted THEN [files EXCEPT ![JournalPath(id[p])] = Null] ELSE files
    /\ known' = [known EXCEPT ![p] = Null]
    /\ UNCHANGED <<step, id, writing, temp, drawn, mishaps>>

Dies(p) ==
    /\ step[p] # "down"
    /\ mishaps' = IF step[p] = "up" THEN mishaps ELSE mishaps + 1
    /\ step' = [step EXCEPT ![p] = "down"]
    /\ known' = [known EXCEPT ![p] = Down]
    /\ UNCHANGED <<files, id, writing, temp, drawn>>

Next ==
    \E p \in Procs :
        \/ \E i \in AgentIds, readable \in BOOLEAN : Start(p, i, readable)
        \/ \E content \in Contents : SaveBegins(p, content)
        \/ WriteEnds(p)
        \/ Renames(p)
        \/ SaveThrows(p)
        \/ CleanupFails(p)
        \/ \E deleted \in BOOLEAN : Delete(p, deleted)
        \/ Dies(p)

Spec == Init /\ [][Next]_vars

-----------------------------------------------------------------------------
(* Type invariant.                                                         *)
TypeOK ==
    /\ files \in [FileName -> Contents \cup {Torn, Null}]
    /\ step \in [Procs -> Step]
    /\ id \in [Procs -> AgentIds \cup {Null}]
    /\ writing \in [Procs -> Contents \cup {Null}]
    /\ temp \in [Procs -> 0..MaxTemps]
    /\ known \in [Procs -> Contents \cup {Null, Down}]
    /\ drawn \in 0..MaxTemps
    /\ mishaps \in Nat
    /\ \A p \in Procs : step[p] # "down" => id[p] # Null
    /\ \A p \in Procs : step[p] \in {"writing", "written"} => temp[p] \in 1..drawn

TempFiles == {name \in FileName : name[2] # 0 /\ files[name] # Null}

Saving == {p \in Procs : step[p] \in {"writing", "written"}}

(* Nobody ever reads or removes a temporary file that outlived its save():  *)
(* each one in the directory belongs to a save in progress or is due to a   *)
(* process that died inside save() or a clean-up that failed.               *)
OrphansAreMishaps == Cardinality(TempFiles) <= Cardinality(Saving) + mishaps

KeptView == [p \in Configured |-> files[JournalPath(ConfiguredId(p))]]

KnownView == [p \in Configured |-> known[p]]

Atomic == INSTANCE AtomicJournal WITH
    Procs <- Configured, kept <- KeptView, known <- KnownView

(* To a process with a configured id the files are an atomic journal: no   *)
(* death inside save(), no failed write and no other process in the same   *)
(* directory - with a random id or not - makes a start find anything but   *)
(* what its own last completed save or deletion left.                      *)
ImplementsAtomicJournal == Atomic!JournalSpec
=============================================================================
