------------------------- MODULE JournalFile_proof -------------------------
(***************************************************************************)
(* For every number of processes, ids and journals: the files of           *)
(* JournalFile are the atomic journal of AtomicJournal to each process     *)
(* whose agent id is configured.                                           *)
(***************************************************************************)
EXTENDS JournalFile, FiniteSetTheorems, TLAPS

(* A process that runs has an id of its own: the configured one, or one    *)
(* that is nobody's.                                                       *)
OwnIds ==
    \A p \in Procs :
        /\ step[p] = "down" <=> known[p] = Down
        /\ step[p] # "down" /\ p \in Configured => id[p] = ConfiguredId(p)
        /\ \A q \in Configured : step[p] # "down" /\ p # q => id[p] # ConfiguredId(q)

(* Two saves in progress write two temporary files, and what was written   *)
(* completely is there until it is renamed.                                *)
SavesApart ==
    /\ \A p, q \in Saving : p # q => temp[p] # temp[q]
    /\ \A p \in Saving : writing[p] \in Contents
    /\ \A p \in Procs : step[p] = "written" => files[SavesTo(p)] = writing[p]

(* No journal is ever half there.                                          *)
JournalsWhole == \A i \in AgentIds : files[JournalPath(i)] \in Contents \cup {Null}

-----------------------------------------------------------------------------
(* Every variable keeps its type, for any processes and bounds.            *)
THEOREM TypeCorrect == Spec => []TypeOK
<1>1. Init => TypeOK
      BY IdsAssumption, MaxTempsAssumption DEF Init, TypeOK, Step, FileName
<1>2. TypeOK /\ [Next]_vars => TypeOK'
  <2> SUFFICES ASSUME TypeOK, [Next]_vars PROVE TypeOK'
      OBVIOUS
  <2> USE MaxTempsAssumption DEF TypeOK, Step
  <2>1. ASSUME NEW p \in Procs, NEW i \in AgentIds, NEW readable \in BOOLEAN,
               Start(p, i, readable)
        PROVE  TypeOK'
        BY <2>1, IdsAssumption DEF Start, Load
  <2>2. ASSUME NEW p \in Procs, NEW content \in Contents, SaveBegins(p, content)
        PROVE  TypeOK'
    <3>1. FreshTemp \in 1..MaxTemps /\ drawn' = FreshTemp
          BY <2>2 DEF SaveBegins, FreshTemp
    <3>2. \A q \in Procs : step'[q] \in {"writing", "written"} => temp'[q] \in 1..drawn'
          BY <2>2, <3>1 DEF SaveBegins, FreshTemp
    <3>3. /\ files' \in [FileName -> Contents \cup {Torn, Null}]
          /\ step' \in [Procs -> Step]
          BY <2>2 DEF SaveBegins
    <3>4. /\ writing' \in [Procs -> Contents \cup {Null}]
          /\ temp' \in [Procs -> 0..MaxTemps]
          /\ drawn' \in 0..MaxTemps
          BY <2>2, <3>1 DEF SaveBegins
    <3>5. UNCHANGED <<id, known, mishaps>>
          BY <2>2 DEF SaveBegins
    <3>6. \A q \in Procs : step'[q] # "down" => id'[q] # Null
          BY <2>2 DEF SaveBegins
    <3>7. QED
          BY <3>2, <3>3, <3>4, <3>5, <3>6
  <2>3. ASSUME NEW p \in Procs, WriteEnds(p)
        PROVE  TypeOK'
        BY <2>3 DEF WriteEnds
  <2>4. ASSUME NEW p \in Procs, Renames(p)
        PROVE  TypeOK'
    <3>1. files' \in [FileName -> Contents \cup {Torn, Null}]
      <4>1. SavesTo(p) \in FileName
            BY <2>4 DEF Renames, SavesTo, TempPath, FileName
      <4>2. QED
            BY <2>4, <4>1 DEF Renames
    <3>2. QED
          BY <2>4, <3>1 DEF Renames
  <2>5. ASSUME NEW p \in Procs, SaveThrows(p)
        PROVE  TypeOK'
        BY <2>5 DEF SaveThrows
  <2>6. ASSUME NEW p \in Procs, CleanupFails(p)
        PROVE  TypeOK'
        BY <2>6 DEF CleanupFails
  <2>7. ASSUME NEW p \in Procs, NEW deleted \in BOOLEAN, Delete(p, deleted)
        PROVE  TypeOK'
        BY <2>7 DEF Delete
  <2>8. ASSUME NEW p \in Procs, Dies(p)
        PROVE  TypeOK'
        BY <2>8 DEF Dies
  <2>9. CASE UNCHANGED vars
        BY <2>9 DEF vars
  <2>10. QED
        BY <2>1, <2>2, <2>3, <2>4, <2>5, <2>6, <2>7, <2>8, <2>9 DEF Next
<1>3. QED
      BY <1>1, <1>2, PTL DEF Spec

-----------------------------------------------------------------------------
(* Where the files of running processes are, and that they differ.         *)
LEMMA Paths ==
    ASSUME TypeOK
    PROVE  /\ \A p \in Procs : step[p] # "down" => id[p] \in AgentIds
           /\ \A i \in AgentIds : JournalPath(i) \in FileName
           /\ \A p \in Saving : SavesTo(p) \in FileName /\ SavesTo(p)[2] \in 1..drawn
           /\ \A i \in AgentIds, n \in 0..MaxTemps : TempPath(i, n) \in FileName
BY MaxTempsAssumption DEF TypeOK, JournalPath, TempPath, SavesTo, FileName, Saving

(* A process has its own id from its start to its death.                   *)
LEMMA IdsStayOwn == TypeOK /\ OwnIds /\ SavesApart /\ [Next]_vars => OwnIds'
<1> SUFFICES ASSUME TypeOK, OwnIds, SavesApart, [Next]_vars PROVE OwnIds'
    OBVIOUS
<1> USE ContentsAssumption DEF TypeOK, OwnIds, Step
<1>1. ASSUME NEW p \in Procs, NEW i \in AgentIds, NEW readable \in BOOLEAN,
             Start(p, i, readable)
      PROVE  OwnIds'
  <2>1. /\ step' = [step EXCEPT ![p] = "up"]
        /\ id' = [id EXCEPT ![p] = i]
        BY <1>1 DEF Start
  <2>2. known'[p] # Down /\ \A q \in Procs \ {p} : known'[q] = known[q]
        BY <1>1 DEF Start, Load
  <2>3. p \in Configured => i = ConfiguredId(p)
        BY <1>1 DEF Start, IdsFor
  <2>4. \A q \in Configured : q # p => i # ConfiguredId(q)
        BY <1>1, UniqueIdsAssumption DEF Start, IdsFor, RandomIds, Configured
  <2>5. QED
        BY <2>1, <2>2, <2>3, <2>4
<1>2. ASSUME NEW p \in Procs, NEW content \in Contents, SaveBegins(p, content)
      PROVE  OwnIds'
      BY <1>2 DEF SaveBegins
<1>3. ASSUME NEW p \in Procs, WriteEnds(p)
      PROVE  OwnIds'
      BY <1>3 DEF WriteEnds
<1>4. ASSUME NEW p \in Procs, Renames(p)
      PROVE  OwnIds'
  <2>1. writing[p] \in Contents
        BY <1>4 DEF Renames, SavesApart, Saving
  <2>2. QED
        BY <1>4, <2>1 DEF Renames
<1>5. ASSUME NEW p \in Procs, SaveThrows(p)
      PROVE  OwnIds'
      BY <1>5 DEF SaveThrows
<1>6. ASSUME NEW p \in Procs, CleanupFails(p)
      PROVE  OwnIds'
      BY <1>6 DEF CleanupFails
<1>7. ASSUME NEW p \in Procs, NEW deleted \in BOOLEAN, Delete(p, deleted)
      PROVE  OwnIds'
      BY <1>7 DEF Delete
<1>8. ASSUME NEW p \in Procs, Dies(p)
      PROVE  OwnIds'
      BY <1>8 DEF Dies
<1>9. CASE UNCHANGED vars
      BY <1>9 DEF vars, Configured, ConfiguredId
<1>10. QED
       BY <1>1, <1>2, <1>3, <1>4, <1>5, <1>6, <1>7, <1>8, <1>9 DEF Next

(* Saves in progress stay apart, and no step leaves half a journal.        *)
LEMMA SavesStayApart ==
    TypeOK /\ SavesApart /\ JournalsWhole /\ [Next]_vars => SavesApart' /\ JournalsWhole'
<1> SUFFICES ASSUME TypeOK, SavesApart, JournalsWhole, [Next]_vars
             PROVE  SavesApart' /\ JournalsWhole'
    OBVIOUS
<1> USE DEF TypeOK, SavesApart, JournalsWhole, Saving, Step
<1>1. ASSUME NEW p \in Procs, NEW i \in AgentIds, NEW readable \in BOOLEAN,
             Start(p, i, readable)
      PROVE  SavesApart' /\ JournalsWhole'
  <2>1. /\ UNCHANGED <<files, writing, temp>>
        /\ step' = [step EXCEPT ![p] = "up"]
        /\ \A q \in Procs \ {p} : id'[q] = id[q]
        BY <1>1 DEF Start
  <2>2. QED
        BY <2>1 DEF SavesTo, TempPath
<1>2. ASSUME NEW p \in Procs, NEW content \in Contents, SaveBegins(p, content)
      PROVE  SavesApart' /\ JournalsWhole'
  <2>1. /\ FreshTemp \in 1..MaxTemps
        /\ \A q \in Saving : temp[q] # FreshTemp
        BY <1>2, MaxTempsAssumption DEF SaveBegins, FreshTemp
  <2>2. /\ step' = [step EXCEPT ![p] = "writing"]
        /\ temp' = [temp EXCEPT ![p] = FreshTemp]
        /\ writing' = [writing EXCEPT ![p] = content]
        /\ id' = id
        /\ files' = [files EXCEPT ![TempPath(id[p], FreshTemp)] = Torn]
        BY <1>2 DEF SaveBegins
  <2>3. /\ \A q, r \in Saving' : q # r => temp'[q] # temp'[r]
        /\ \A q \in Saving' : writing'[q] \in Contents
        BY <2>1, <2>2
  <2>4. ASSUME NEW q \in Procs, step'[q] = "written"
        PROVE  files'[SavesTo(q)'] = writing'[q]
    <3>1. q # p /\ step[q] = "written" /\ SavesTo(q)' = SavesTo(q)
          BY <2>2, <2>4 DEF SavesTo
    <3>2. SavesTo(q) # TempPath(id[p], FreshTemp) /\ SavesTo(q) \in FileName
          BY <3>1, <2>1, Paths DEF SavesTo, TempPath
    <3>3. QED
          BY <2>2, <3>1, <3>2
  <2>5. JournalsWhole'
    <3>1. \A i \in AgentIds : JournalPath(i) # TempPath(id[p], FreshTemp)
          BY <2>1 DEF JournalPath, TempPath
    <3>2. QED
          BY <2>2, <3>1, Paths DEF JournalPath
  <2>6. QED
        BY <2>3, <2>4, <2>5
<1>3. ASSUME NEW p \in Procs, WriteEnds(p)
      PROVE  SavesApart' /\ JournalsWhole'
  <2>1. /\ step[p] = "writing"
        /\ files' = [files EXCEPT ![SavesTo(p)] = writing[p]]
        /\ step' = [step EXCEPT ![p] = "written"]
        /\ UNCHANGED <<id, writing, temp>>
        BY <1>3 DEF WriteEnds
  <2>2. SavesTo(p) \in FileName /\ SavesTo(p)[2] \in 1..drawn
        BY <2>1, Paths
  <2>3. ASSUME NEW q \in Procs, step'[q] = "written"
        PROVE  files'[SavesTo(q)'] = writing'[q]
    <3>1. CASE q = p
          BY <2>1, <2>2, <3>1 DEF SavesTo
    <3>2. CASE q # p
      <4>1. step[q] = "written" /\ SavesTo(q)' = SavesTo(q)
            BY <2>1, <2>3, <3>2 DEF SavesTo
      <4>2. SavesTo(q) # SavesTo(p) /\ SavesTo(q) \in FileName
            BY <2>1, <3>2, <4>1, Paths DEF SavesTo, TempPath
      <4>3. QED
            BY <2>1, <4>1, <4>2
    <3>3. QED
          BY <3>1, <3>2
  <2>4. JournalsWhole'
    <3>1. \A i \in AgentIds : JournalPath(i) # SavesTo(p)
          BY <2>2 DEF JournalPath
    <3>2. QED
          BY <2>1, <3>1, Paths DEF JournalPath
  <2>5. QED
        BY <2>1, <2>3, <2>4
<1>4. ASSUME NEW p \in Procs, Renames(p)
      PROVE  SavesApart' /\ JournalsWhole'
  <2>1. /\ step[p] = "written"
        /\ files' = [files EXCEPT ![JournalPath(id[p])] = files[SavesTo(p)],
                                  ![SavesTo(p)] = Null]
        /\ step' = [step EXCEPT ![p] = "up"]
        /\ UNCHANGED <<id, writing, temp>>
        BY <1>4 DEF Renames
  <2>2. /\ SavesTo(p) \in FileName /\ SavesTo(p)[2] \in 1..drawn
        /\ files[SavesTo(p)] \in Contents
        BY <2>1, Paths
  <2>3. ASSUME NEW q \in Procs, step'[q] = "written"
        PROVE  files'[SavesTo(q)'] = writing'[q]
    <3>1. q # p /\ step[q] = "written" /\ SavesTo(q)' = SavesTo(q)
          BY <2>1, <2>3 DEF SavesTo
    <3>2. /\ SavesTo(q) # SavesTo(p) /\ SavesTo(q) # JournalPath(id[p])
          /\ SavesTo(q) \in FileName
          BY <2>1, <3>1, Paths DEF SavesTo, TempPath, JournalPath
    <3>3. QED
          BY <2>1, <3>1, <3>2
  <2>4. JournalsWhole'
    <3>1. \A i \in AgentIds : JournalPath(i) # SavesTo(p)
          BY <2>2 DEF JournalPath
    <3>2. QED
          BY <2>1, <2>2, <3>1, Paths DEF JournalPath
  <2>5. QED
        BY <2>1, <2>3, <2>4
<1>5. ASSUME NEW p \in Procs, SaveThrows(p)
      PROVE  SavesApart' /\ JournalsWhole'
  <2>1. /\ p \in Saving
        /\ files' = [files EXCEPT ![SavesTo(p)] = Null]
        /\ step' = [step EXCEPT ![p] = "up"]
        /\ UNCHANGED <<id, writing, temp>>
        BY <1>5 DEF SaveThrows
  <2>2. SavesTo(p) \in FileName /\ SavesTo(p)[2] \in 1..drawn
        BY <2>1, Paths
  <2>3. ASSUME NEW q \in Procs, step'[q] = "written"
        PROVE  files'[SavesTo(q)'] = writing'[q]
    <3>1. q # p /\ step[q] = "written" /\ SavesTo(q)' = SavesTo(q)
          BY <2>1, <2>3 DEF SavesTo
    <3>2. SavesTo(q) # SavesTo(p) /\ SavesTo(q) \in FileName
          BY <2>1, <3>1, Paths DEF SavesTo, TempPath
    <3>3. QED
          BY <2>1, <3>1, <3>2
  <2>4. JournalsWhole'
    <3>1. \A i \in AgentIds : JournalPath(i) # SavesTo(p)
          BY <2>2 DEF JournalPath
    <3>2. QED
          BY <2>1, <3>1, Paths DEF JournalPath
  <2>5. QED
        BY <2>1, <2>3, <2>4
<1>6. ASSUME NEW p \in Procs, CleanupFails(p)
      PROVE  SavesApart' /\ JournalsWhole'
      BY <1>6 DEF CleanupFails, SavesTo, TempPath, JournalPath
<1>7. ASSUME NEW p \in Procs, NEW deleted \in BOOLEAN, Delete(p, deleted)
      PROVE  SavesApart' /\ JournalsWhole'
  <2>1. /\ files' = files \/ files' = [files EXCEPT ![JournalPath(id[p])] = Null]
        /\ UNCHANGED <<step, id, writing, temp>>
        BY <1>7 DEF Delete
  <2>2. \A q \in Saving : SavesTo(q) # JournalPath(id[p]) /\ SavesTo(q)' = SavesTo(q)
        BY <2>1, Paths DEF SavesTo, TempPath, JournalPath
  <2>3. SavesApart'
        BY <2>1, <2>2, Paths
  <2>4. JournalsWhole'
        BY <2>1, Paths DEF JournalPath
  <2>5. QED
        BY <2>3, <2>4
<1>8. ASSUME NEW p \in Procs, Dies(p)
      PROVE  SavesApart' /\ JournalsWhole'
      BY <1>8 DEF Dies, SavesTo, TempPath, JournalPath
<1>9. CASE UNCHANGED vars
      BY <1>9 DEF vars, SavesTo, TempPath, JournalPath
<1>10. QED
       BY <1>1, <1>2, <1>3, <1>4, <1>5, <1>6, <1>7, <1>8, <1>9 DEF Next

(* The inductive invariant of the refinement.                              *)
LEMMA FilesInvariant == Spec => [](TypeOK /\ OwnIds /\ SavesApart /\ JournalsWhole)
<1>1. Init => OwnIds /\ SavesApart /\ JournalsWhole
      BY MaxTempsAssumption
      DEF Init, OwnIds, SavesApart, JournalsWhole, Saving, JournalPath, FileName
<1>2. QED
      BY <1>1, TypeCorrect, IdsStayOwn, SavesStayApart, PTL DEF Spec

-----------------------------------------------------------------------------
(* What the two views show when one process learns something, and when one *)
(* journal file changes.                                                   *)
LEMMA KnownViewChanges ==
    ASSUME TypeOK, NEW p \in Procs, NEW x, known' = [known EXCEPT ![p] = x]
    PROVE  KnownView' = IF p \in Configured THEN [KnownView EXCEPT ![p] = x] ELSE KnownView
BY DEF TypeOK, KnownView, Configured, ConfiguredId

(* One journal file changes: one process sees it, if it is a configured    *)
(* one.                                                                    *)
LEMMA KeptViewChanges ==
    ASSUME TypeOK, OwnIds, NEW p \in Procs, step[p] # "down", NEW x,
           \A i \in AgentIds : files'[JournalPath(i)] =
               IF i = id[p] THEN x ELSE files[JournalPath(i)]
    PROVE  KeptView' = IF p \in Configured THEN [KeptView EXCEPT ![p] = x] ELSE KeptView
<1>1. \A q \in Configured : q \in Procs /\ ConfiguredId(q) \in AgentIds
      BY IdsAssumption DEF Configured, ConfiguredId
<1>2. \A q \in Configured : ConfiguredId(q) = id[p] <=> q = p
      BY <1>1 DEF OwnIds
<1>3. KeptView' = [q \in Configured |-> files'[JournalPath(ConfiguredId(q))]]
      BY DEF KeptView, Configured, ConfiguredId, JournalPath
<1>4. \A q \in Configured : files'[JournalPath(ConfiguredId(q))] =
          IF q = p THEN x ELSE files[JournalPath(ConfiguredId(q))]
      BY <1>1, <1>2
<1>5. QED
      BY <1>3, <1>4 DEF KeptView

(* No journal file changes: no process sees anything.                      *)
LEMMA KeptViewStays ==
    ASSUME \A i \in AgentIds : files'[JournalPath(i)] = files[JournalPath(i)]
    PROVE  KeptView' = KeptView
BY IdsAssumption DEF KeptView, Configured, ConfiguredId, JournalPath

(* To every process with a configured id, the files are an atomic journal. *)
(* A save takes effect at its rename; the steps before, and the failures,  *)
(* touch temporary files only.                                             *)
THEOREM JournalIsAtomic == Spec => ImplementsAtomicJournal
<1> DEFINE IInv == TypeOK /\ OwnIds /\ SavesApart /\ JournalsWhole
<1>1. Init => Atomic!JournalInit
      BY IdsAssumption, MaxTempsAssumption
      DEF Init, Atomic!JournalInit, KeptView, KnownView, Configured, ConfiguredId,
          JournalPath, FileName
<1>2. IInv /\ [Next]_vars => [Atomic!JournalNext]_<<KeptView, KnownView>>
  <2> SUFFICES ASSUME IInv, [Next]_vars
               PROVE  Atomic!JournalNext \/ UNCHANGED <<KeptView, KnownView>>
      OBVIOUS
  <2> USE DEF Saving
  <2>1. ASSUME NEW p \in Procs, NEW i \in AgentIds, NEW readable \in BOOLEAN,
               Start(p, i, readable)
        PROVE  Atomic!JournalNext \/ UNCHANGED <<KeptView, KnownView>>
    <3>1. KeptView' = KeptView
          BY <2>1, KeptViewStays DEF Start
    <3>2. CASE p \in Configured
      <4>1. i = ConfiguredId(p) /\ known[p] = Down
            BY <2>1, <3>2 DEF Start, IdsFor, OwnIds
      <4>2. Load(i) = KeptView[p]
            BY <3>2, <4>1 DEF JournalsWhole, Load, KeptView
      <4>3. KnownView' = [KnownView EXCEPT ![p] = IF readable THEN KeptView[p] ELSE Null]
            BY <2>1, <3>2, <4>2, KnownViewChanges DEF Start
      <4>4. Atomic!Recover(p, readable)
            BY <3>1, <3>2, <4>1, <4>3 DEF Atomic!Recover, KnownView
      <4>5. QED
            BY <3>2, <4>4 DEF Atomic!JournalNext
    <3>3. CASE p \notin Configured
          BY <2>1, <3>1, <3>3, KnownViewChanges DEF Start
    <3>4. QED
          BY <3>2, <3>3
  <2>2. ASSUME NEW p \in Procs, NEW content \in Contents, SaveBegins(p, content)
        PROVE  UNCHANGED <<KeptView, KnownView>>
    <3>1. \A i \in AgentIds : JournalPath(i) # TempPath(id[p], FreshTemp)
          BY <2>2 DEF SaveBegins, TypeOK, FreshTemp, JournalPath, TempPath
    <3>2. \A i \in AgentIds : files'[JournalPath(i)] = files[JournalPath(i)]
          BY <2>2, <3>1, Paths DEF SaveBegins, TypeOK
    <3>3. QED
          BY <2>2, <3>2, KeptViewStays DEF SaveBegins, KnownView, Configured, ConfiguredId
  <2>3. ASSUME NEW p \in Procs, WriteEnds(p)
        PROVE  UNCHANGED <<KeptView, KnownView>>
    <3>1. \A i \in AgentIds : JournalPath(i) # SavesTo(p)
          BY <2>3, Paths, MaxTempsAssumption DEF WriteEnds, TypeOK, JournalPath
    <3>2. \A i \in AgentIds : files'[JournalPath(i)] = files[JournalPath(i)]
          BY <2>3, <3>1, Paths DEF WriteEnds, TypeOK
    <3>3. QED
          BY <2>3, <3>2, KeptViewStays DEF WriteEnds, KnownView, Configured, ConfiguredId
  <2>4. ASSUME NEW p \in Procs, Renames(p)
        PROVE  Atomic!JournalNext \/ UNCHANGED <<KeptView, KnownView>>
    <3>1. /\ step[p] = "written" /\ p \in Saving
          /\ files' = [files EXCEPT ![JournalPath(id[p])] = files[SavesTo(p)],
                                    ![SavesTo(p)] = Null]
          /\ known' = [known EXCEPT ![p] = writing[p]]
          BY <2>4 DEF Renames
    <3>2. files[SavesTo(p)] = writing[p] /\ writing[p] \in Contents
          BY <3>1 DEF SavesApart
    <3>3. \A i \in AgentIds : JournalPath(i) # SavesTo(p)
          BY <3>1, Paths, MaxTempsAssumption DEF TypeOK, JournalPath
    <3>4. \A i \in AgentIds : files'[JournalPath(i)] =
              IF i = id[p] THEN writing[p] ELSE files[JournalPath(i)]
          BY <3>1, <3>2, <3>3, Paths DEF TypeOK, JournalPath
    <3>5. CASE p \in Configured
      <4>1. Atomic!Save(p, writing[p])
            BY <3>1, <3>4, <3>5, KeptViewChanges, KnownViewChanges
            DEF Atomic!Save, OwnIds, KnownView
      <4>2. QED
            BY <3>2, <3>5, <4>1 DEF Atomic!JournalNext
    <3>6. CASE p \notin Configured
          BY <3>1, <3>4, <3>6, KeptViewChanges, KnownViewChanges
    <3>7. QED
          BY <3>5, <3>6
  <2>5. ASSUME NEW p \in Procs, SaveThrows(p)
        PROVE  UNCHANGED <<KeptView, KnownView>>
    <3>1. \A i \in AgentIds : JournalPath(i) # SavesTo(p)
          BY <2>5, Paths, MaxTempsAssumption DEF SaveThrows, TypeOK, JournalPath
    <3>2. \A i \in AgentIds : files'[JournalPath(i)] = files[JournalPath(i)]
          BY <2>5, <3>1, Paths DEF SaveThrows, TypeOK
    <3>3. QED
          BY <2>5, <3>2, KeptViewStays DEF SaveThrows, KnownView, Configured, ConfiguredId
  <2>6. ASSUME NEW p \in Procs, CleanupFails(p)
        PROVE  UNCHANGED <<KeptView, KnownView>>
        BY <2>6, KeptViewStays DEF CleanupFails, KnownView, Configured, ConfiguredId
  <2>7. ASSUME NEW p \in Procs, NEW deleted \in BOOLEAN, Delete(p, deleted)
        PROVE  Atomic!JournalNext \/ UNCHANGED <<KeptView, KnownView>>
    <3>1. /\ step[p] = "up"
          /\ files' = IF deleted THEN [files EXCEPT ![JournalPath(id[p])] = Null] ELSE files
          /\ known' = [known EXCEPT ![p] = Null]
          BY <2>7 DEF Delete
    <3>2. \A i \in AgentIds : files'[JournalPath(i)] =
              IF i = id[p]
              THEN IF deleted THEN Null ELSE files[JournalPath(id[p])]
              ELSE files[JournalPath(i)]
          BY <3>1, Paths DEF TypeOK, JournalPath
    <3>3. CASE p \in Configured
      <4>1. /\ id[p] = ConfiguredId(p) /\ known[p] # Down
            /\ KeptView[p] = files[JournalPath(id[p])]
            BY <3>1, <3>3 DEF OwnIds, KeptView
      <4>2. KeptView' = IF deleted THEN [KeptView EXCEPT ![p] = Null] ELSE KeptView
        <5>1. CASE deleted
          <6>1. \A i \in AgentIds : files'[JournalPath(i)] =
                    IF i = id[p] THEN Null ELSE files[JournalPath(i)]
                BY <3>2, <5>1
          <6>2. QED
                BY <3>1, <3>3, <5>1, <6>1, KeptViewChanges
        <5>2. CASE ~deleted
              BY <3>1, <5>2, KeptViewStays
        <5>3. QED
              BY <5>1, <5>2
      <4>3. Atomic!Delete(p, deleted)
            BY <3>1, <3>3, <4>1, <4>2, KnownViewChanges DEF Atomic!Delete, KnownView
      <4>4. QED
            BY <3>3, <4>3 DEF Atomic!JournalNext
    <3>4. CASE p \notin Configured
      <4>1. KeptView' = KeptView
            BY <3>1, <3>2, <3>4, KeptViewChanges
      <4>2. QED
            BY <3>1, <3>4, <4>1, KnownViewChanges
    <3>5. QED
          BY <3>3, <3>4
  <2>8. ASSUME NEW p \in Procs, Dies(p)
        PROVE  Atomic!JournalNext \/ UNCHANGED <<KeptView, KnownView>>
    <3>1. KeptView' = KeptView
          BY <2>8, KeptViewStays DEF Dies
    <3>2. CASE p \in Configured
      <4>1. Atomic!Die(p)
            BY <2>8, <3>1, <3>2, KnownViewChanges DEF Dies, Atomic!Die
      <4>2. QED
            BY <3>2, <4>1 DEF Atomic!JournalNext
    <3>3. CASE p \notin Configured
          BY <2>8, <3>1, <3>3, KnownViewChanges DEF Dies
    <3>4. QED
          BY <3>2, <3>3
  <2>9. CASE UNCHANGED vars
        BY <2>9, KeptViewStays DEF vars, KnownView, Configured, ConfiguredId
  <2>10. QED
        BY <2>1, <2>2, <2>3, <2>4, <2>5, <2>6, <2>7, <2>8, <2>9 DEF Next
<1>3. QED
      BY <1>1, <1>2, FilesInvariant, PTL
      DEF Spec, ImplementsAtomicJournal, Atomic!JournalSpec, Atomic!journalVars

-----------------------------------------------------------------------------
(* Every save in progress has its temporary file.                          *)
SavesHaveFiles == \A p \in Saving : files[SavesTo(p)] # Null

(* Both sets are finite, so their members can be counted.                  *)
OrphansCounted ==
    /\ IsFiniteSet(TempFiles) /\ IsFiniteSet(Saving)
    /\ OrphansAreMishaps

(* What one step does to the temporary files, the saves in progress and    *)
(* the count of mishaps: nothing, a save begins, one ends and cleans up,   *)
(* or one ends and leaves its file.                                        *)
FilesStay == TempFiles' \subseteq TempFiles /\ Saving' = Saving /\ mishaps' = mishaps

(* A save opens its temp file,                                             *)
SaveOpens ==
    /\ mishaps' = mishaps
    /\ \E p \in Procs \ Saving, name \in FileName :
          Saving' = Saving \cup {p} /\ TempFiles' \subseteq TempFiles \cup {name}

(* ends without one (rename, or unlink after a failure),                   *)
SaveCleansUp ==
    /\ mishaps' = mishaps
    /\ \E p \in Saving : \E name \in TempFiles :
          Saving' = Saving \ {p} /\ TempFiles' \subseteq TempFiles \ {name}

(* or leaves it behind: a crash, or an unlink that failed.                 *)
SaveOrphans ==
    /\ mishaps' = mishaps + 1
    /\ \E p \in Saving : Saving' = Saving \ {p} /\ TempFiles' = TempFiles

(* Each file system call of journal.ts is one of the four, and none takes  *)
(* the temporary file of somebody else's save.                             *)
LEMMA OrphanCases ==
    ASSUME TypeOK, SavesApart, SavesHaveFiles, [Next]_vars
    PROVE  /\ FilesStay \/ SaveOpens \/ SaveCleansUp \/ SaveOrphans
           /\ SavesHaveFiles'
<1> USE DEF TypeOK, Step, SavesHaveFiles, Saving
<1>1. ASSUME NEW p \in Procs, NEW i \in AgentIds, NEW readable \in BOOLEAN,
             Start(p, i, readable)
      PROVE  FilesStay /\ SavesHaveFiles'
  <2>1. /\ UNCHANGED <<files, temp, mishaps>>
        /\ step' = [step EXCEPT ![p] = "up"] /\ step[p] = "down"
        /\ \A q \in Procs \ {p} : id'[q] = id[q]
        BY <1>1 DEF Start
  <2>2. SavesHaveFiles'
        BY <2>1 DEF SavesTo, TempPath
  <2>3. FilesStay
        BY <2>1 DEF FilesStay, TempFiles
  <2>4. QED
        BY <2>2, <2>3
<1>2. ASSUME NEW p \in Procs, NEW content \in Contents, SaveBegins(p, content)
      PROVE  SaveOpens /\ SavesHaveFiles'
  <2> DEFINE name == TempPath(id[p], FreshTemp)
  <2>1. /\ FreshTemp \in 1..MaxTemps /\ id[p] \in AgentIds
        /\ \A q \in Saving : temp[q] # FreshTemp
        BY <1>2, MaxTempsAssumption DEF SaveBegins, FreshTemp
  <2>2. /\ step' = [step EXCEPT ![p] = "writing"] /\ step[p] = "up"
        /\ temp' = [temp EXCEPT ![p] = FreshTemp]
        /\ files' = [files EXCEPT ![name] = Torn]
        /\ UNCHANGED <<id, mishaps>>
        BY <1>2 DEF SaveBegins
  <2>3. name \in FileName
        BY <2>1 DEF TempPath, FileName
  <2>4. ASSUME NEW q \in Saving'
        PROVE  files'[SavesTo(q)'] # Null
    <3>1. CASE q = p
      <4>1. SavesTo(q)' = name
            BY <2>2, <3>1 DEF SavesTo
      <4>2. QED
            BY <2>2, <2>3, <4>1, ContentsAssumption
    <3>2. CASE q # p
      <4>1. q \in Saving /\ SavesTo(q)' = SavesTo(q)
            BY <2>2, <3>2 DEF SavesTo
      <4>2. SavesTo(q) # name /\ SavesTo(q) \in FileName
            BY <2>1, <4>1, Paths DEF SavesTo, TempPath
      <4>3. QED
            BY <2>2, <4>1, <4>2
    <3>3. QED
          BY <3>1, <3>2
  <2>5. Saving' = Saving \cup {p} /\ p \in Procs \ Saving
        BY <2>2
  <2>6. TempFiles' \subseteq TempFiles \cup {name}
        BY <2>2 DEF TempFiles
  <2>7. QED
        BY <2>2, <2>3, <2>4, <2>5, <2>6 DEF SaveOpens
<1>3. ASSUME NEW p \in Procs, WriteEnds(p)
      PROVE  FilesStay /\ SavesHaveFiles'
  <2>1. /\ step[p] = "writing"
        /\ files' = [files EXCEPT ![SavesTo(p)] = writing[p]]
        /\ step' = [step EXCEPT ![p] = "written"]
        /\ UNCHANGED <<id, temp, mishaps>>
        BY <1>3 DEF WriteEnds
  <2>2. /\ SavesTo(p) \in FileName /\ SavesTo(p)[2] \in 1..drawn
        /\ files[SavesTo(p)] # Null /\ writing[p] # Null
        BY <2>1, Paths, ContentsAssumption DEF SavesApart
  <2>3. Saving' = Saving /\ \A q \in Saving : SavesTo(q)' = SavesTo(q)
        BY <2>1 DEF SavesTo
  <2>4. SavesHaveFiles'
        BY <2>1, <2>2, <2>3, Paths
  <2>5. TempFiles' \subseteq TempFiles
        BY <2>1, <2>2 DEF TempFiles
  <2>6. QED
        BY <2>1, <2>3, <2>4, <2>5 DEF FilesStay
<1>4. ASSUME NEW p \in Procs, p \in Saving, step' = [step EXCEPT ![p] = "up"],
             \/ files' = [files EXCEPT ![SavesTo(p)] = Null]
             \/ files' = [files EXCEPT ![JournalPath(id[p])] = files[SavesTo(p)],
                                       ![SavesTo(p)] = Null],
             UNCHANGED <<id, temp, mishaps>>
      PROVE  SaveCleansUp /\ SavesHaveFiles'
  <2>1. /\ SavesTo(p) \in FileName /\ SavesTo(p)[2] \in 1..drawn /\ drawn \in Nat
        /\ JournalPath(id[p]) \in FileName /\ JournalPath(id[p])[2] = 0
        BY <1>4, Paths, MaxTempsAssumption DEF JournalPath
  <2>2. SavesTo(p) \in TempFiles
        BY <1>4, <2>1 DEF TempFiles
  <2>3. Saving' = Saving \ {p}
        BY <1>4
  <2>4. TempFiles' \subseteq TempFiles \ {SavesTo(p)}
        BY <1>4, <2>1 DEF TempFiles
  <2>5. ASSUME NEW q \in Saving'
        PROVE  files'[SavesTo(q)'] # Null
    <3>1. q \in Saving /\ q # p /\ SavesTo(q)' = SavesTo(q)
          BY <1>4, <2>3, <2>5 DEF SavesTo
    <3>2. /\ SavesTo(q) # SavesTo(p) /\ SavesTo(q) # JournalPath(id[p])
          /\ SavesTo(q) \in FileName
          BY <1>4, <3>1, Paths, MaxTempsAssumption DEF SavesApart, SavesTo, TempPath, JournalPath
    <3>3. QED
          BY <1>4, <3>1, <3>2
  <2>6. QED
        BY <1>4, <2>2, <2>3, <2>4, <2>5 DEF SaveCleansUp
<1>5. ASSUME NEW p \in Procs, Renames(p) \/ SaveThrows(p)
      PROVE  SaveCleansUp /\ SavesHaveFiles'
      BY <1>4, <1>5 DEF Renames, SaveThrows
<1>6. ASSUME NEW p \in Procs, CleanupFails(p) \/ (Dies(p) /\ step[p] # "up")
      PROVE  SaveOrphans /\ SavesHaveFiles'
  <2>1. p \in Saving /\ Saving' = Saving \ {p} /\ files' = files
        /\ mishaps' = mishaps + 1 /\ temp' = temp /\ id' = id
        BY <1>6 DEF CleanupFails, Dies
  <2>2. SavesHaveFiles'
        BY <2>1 DEF SavesTo, TempPath
  <2>3. TempFiles' = TempFiles
        BY <2>1 DEF TempFiles
  <2>4. QED
        BY <2>1, <2>2, <2>3 DEF SaveOrphans
<1>7. ASSUME NEW p \in Procs, Dies(p), step[p] = "up"
      PROVE  FilesStay /\ SavesHaveFiles'
      BY <1>7 DEF Dies, FilesStay, TempFiles, SavesTo, TempPath
<1>8. ASSUME NEW p \in Procs, NEW deleted \in BOOLEAN, Delete(p, deleted)
      PROVE  FilesStay /\ SavesHaveFiles'
  <2>1. /\ files' = files \/ files' = [files EXCEPT ![JournalPath(id[p])] = Null]
        /\ UNCHANGED <<step, id, temp, mishaps>>
        BY <1>8 DEF Delete
  <2>2. \A q \in Saving : SavesTo(q) # JournalPath(id[p]) /\ SavesTo(q)' = SavesTo(q)
        BY <2>1, Paths DEF SavesTo, TempPath, JournalPath
  <2>3. SavesHaveFiles'
        BY <2>1, <2>2, Paths
  <2>4. FilesStay
        BY <2>1 DEF FilesStay, TempFiles
  <2>5. QED
        BY <2>3, <2>4
<1>9. CASE UNCHANGED vars
  <2>1. FilesStay
        BY <1>9 DEF vars, FilesStay, TempFiles
  <2>2. SavesHaveFiles'
        BY <1>9 DEF vars, SavesTo, TempPath
  <2>3. QED
        BY <2>1, <2>2
<1>10. QED
       BY <1>1, <1>2, <1>3, <1>5, <1>6, <1>7, <1>8, <1>9 DEF Next

(* Each of these keeps the count.                                          *)
LEMMA OrphansCountedStep ==
    ASSUME TypeOK, OrphansCounted, FilesStay \/ SaveOpens \/ SaveCleansUp \/ SaveOrphans
    PROVE  OrphansCounted'
<1>1. PICK T, S, T1, S1 : T = TempFiles /\ S = Saving /\ T1 = TempFiles' /\ S1 = Saving'
      OBVIOUS
<1>2. /\ IsFiniteSet(T) /\ IsFiniteSet(S) /\ mishaps \in Nat
      /\ Cardinality(T) \in Nat /\ Cardinality(S) \in Nat
      /\ Cardinality(T) <= Cardinality(S) + mishaps
      BY <1>1, FS_CardinalityType DEF OrphansCounted, OrphansAreMishaps, TypeOK
<1>3. SUFFICES /\ IsFiniteSet(T1) /\ IsFiniteSet(S1)
               /\ Cardinality(T1) <= Cardinality(S1) + mishaps'
      BY <1>1 DEF OrphansCounted, OrphansAreMishaps
<1>4. ASSUME NEW U, IsFiniteSet(U), T1 \subseteq U
      PROVE  /\ IsFiniteSet(T1) /\ Cardinality(T1) \in Nat /\ Cardinality(U) \in Nat
             /\ Cardinality(T1) <= Cardinality(U)
  <2>1. T1 \in SUBSET U
        BY <1>4
  <2>2. IsFiniteSet(T1) /\ Cardinality(T1) <= Cardinality(U)
        BY <1>4, <2>1, FS_Subset
  <2>3. QED
        BY <1>4, <2>2, FS_CardinalityType
<1>5. CASE FilesStay
      BY <1>1, <1>2, <1>4, <1>5 DEF FilesStay
<1>6. CASE SaveOpens
  <2>1. PICK p, name : p \notin S /\ S1 = S \cup {p} /\ T1 \subseteq T \cup {name}
        BY <1>1, <1>6 DEF SaveOpens
  <2>2. IsFiniteSet(S1) /\ Cardinality(S1) = Cardinality(S) + 1
        BY <1>2, <2>1, FS_AddElement
  <2>3. /\ IsFiniteSet(T \cup {name})
        /\ \/ Cardinality(T \cup {name}) = Cardinality(T)
           \/ Cardinality(T \cup {name}) = Cardinality(T) + 1
        BY <1>2, FS_AddElement
  <2>4. IsFiniteSet(T1) /\ Cardinality(T1) \in Nat /\ Cardinality(T1) <= Cardinality(T \cup {name})
        BY <1>4, <2>1, <2>3
  <2>5. mishaps' = mishaps
        BY <1>6 DEF SaveOpens
  <2>6. QED
        BY <1>2, <2>2, <2>3, <2>4, <2>5
<1>7. CASE SaveCleansUp
  <2>1. PICK p, name : p \in S /\ name \in T /\ S1 = S \ {p} /\ T1 \subseteq T \ {name}
        BY <1>1, <1>7 DEF SaveCleansUp
  <2>2. IsFiniteSet(S1) /\ Cardinality(S1) = Cardinality(S) - 1
        BY <1>2, <2>1, FS_RemoveElement
  <2>3. IsFiniteSet(T \ {name}) /\ Cardinality(T \ {name}) = Cardinality(T) - 1
        BY <1>2, <2>1, FS_RemoveElement
  <2>4. IsFiniteSet(T1) /\ Cardinality(T1) \in Nat /\ Cardinality(T1) <= Cardinality(T \ {name})
        BY <1>4, <2>1, <2>3
  <2>5. mishaps' = mishaps
        BY <1>7 DEF SaveCleansUp
  <2>6. QED
        BY <1>2, <2>2, <2>3, <2>4, <2>5
<1>8. CASE SaveOrphans
  <2>1. PICK p : p \in S /\ S1 = S \ {p} /\ T1 = T
        BY <1>1, <1>8 DEF SaveOrphans
  <2>2. IsFiniteSet(S1) /\ Cardinality(S1) = Cardinality(S) - 1
        BY <1>2, <2>1, FS_RemoveElement
  <2>3. mishaps' = mishaps + 1
        BY <1>8 DEF SaveOrphans
  <2>4. QED
        BY <1>2, <2>1, <2>2, <2>3
<1>9. QED
      BY <1>5, <1>6, <1>7, <1>8

(* journal.ts:53: a save that ends - renamed, thrown or cut short - leaves *)
(* its temporary file behind only when it was a mishap, for any number of  *)
(* processes in one directory.                                             *)
THEOREM OrphansAlwaysMishaps == Spec => []OrphansAreMishaps
<1>1. Init => SavesHaveFiles /\ OrphansCounted
  <2> SUFFICES ASSUME Init PROVE SavesHaveFiles /\ OrphansCounted
      OBVIOUS
  <2>1. TempFiles = {} /\ Saving = {} /\ mishaps = 0
        BY DEF Init, TempFiles, Saving
  <2>2. QED
        BY <2>1, FS_EmptySet DEF SavesHaveFiles, OrphansCounted, OrphansAreMishaps
<1>2. TypeOK /\ SavesApart /\ SavesHaveFiles /\ OrphansCounted /\ [Next]_vars
          => SavesHaveFiles' /\ OrphansCounted'
      BY OrphanCases, OrphansCountedStep
<1>3. OrphansCounted => OrphansAreMishaps
      BY DEF OrphansCounted
<1>4. QED
      BY <1>1, <1>2, <1>3, FilesInvariant, PTL DEF Spec
=============================================================================
