# Formal model of reliable-server-agent

TLA+ specifications of the control server and its agents, the TLC
configurations that check them on small instances, and proofs that every safety
property holds for every instance: of the server's command table and answers,
of the agents with their journals and messages, and of the whole system.  Paths such as `agent.ts:141` are relative to `packages/*/src`.

## 1. The system

A client posts commands (`DELAY`, `HTTP_GET_JSON`) to a control server.  Agents
poll the server, are leased one command at a time, execute it, keep the lease
alive with heartbeats and report the result.  The server keeps its table in
SQLite; each agent keeps one journal file.  Server and agents may stop at any
moment and are started again (`restart: unless-stopped`, docker-compose.yml).

| Component | State | Operations | Interacts by | Module |
|---|---|---|---|---|
| Command store (`server/store`) | table `commands` | create, get, claim, heartbeat, complete, fail, reset expired leases | called by the service | `CommandStore` |
| Command service, routes (`server/service`, `server/routes`) | requests under way | one handler per route, error middleware | HTTP from clients and agents | `ControlServer` |
| Server process (`server/index.ts`) | listening, database open, shutdown timer | start (reset, then listen), signal, drain, forced exit | signals, connections | `ControlServer` |
| Agent loop and recovery (`agent.ts`) | position in the loop, `running` | recover, claim, execute, report, stop | server client, journal, executors | `Agent` |
| Executors (`executors/`) | target timer; fetch and its abort timer | wait until `scheduledEndAt`; GET a URL | journal, `checkLeaseValid` | `Agent`, `HttpGetJson` |
| Heartbeat manager (`heartbeat.ts`) | interval timer, current lease, `leaseValid` | start, tick, late answer, stop | server client | `Agent` |
| Journal (`journal.ts`) | one file per agent, temporary files | load, save (temp file and rename), delete | survives a crash | `JournalFile` |
| Server client (`server-client.ts`) | requests under way | claim, heartbeat, complete | HTTP | `Agent` |
| Shared types (`packages/shared`) | - | - | - | `SharedTypes` |
| Configuration, CLI | the agent id and its sources | choose an id at the start | names the journal file | `JournalFile`, in part |
| DI containers, logging, test helpers | - | - | - | not modelled, section 8 |

What makes it hard:

* *Crashes at any point.*  An agent has several points where dying means
  something different: inside the save of a journal, before the journal exists,
  before the GET, between GET and snapshot, between the server's commit and the
  deletion of the journal.  A server may die between commit and answer.
* *Messages.*  A request may be lost, handled after the agent gave up on it, or
  its answer may be lost; heartbeats overtake completions and each other.
* *Stale work.*  A lease that has expired still counts until a server restart
  resets it; then the old holder goes on while a new one works.
* *Failed file operations.*  A save that throws drops the work, a delete that
  fails is swallowed and leaves a journal of a command already reported, a file
  that cannot be read counts as none.
* *One event loop.*  Heartbeat callbacks read the manager's state after their
  await, when it may serve another command; an abort timer may outlive its GET.
* *Time.*  Expiry, scheduled ends, `setTimeout` limits and two different wall
  clocks meet at boundaries.

What makes each component correct: the table never mixes up leases, never
reopens a finished command and never starves a waiting one; what a client was
told stays true; an agent never fetches twice under one lease, never loses a
saved result while the report is open, never reports early, and always comes
back to polling; a journal is there as a whole or not at all.  `PROJECT.json`
lists every hazard with its line and the properties aimed at it.

## 2. Modules

| Module | Models | Composes |
|---|---|---|
| `SharedTypes` | `packages/shared`: payloads, results, journal | - |
| `CommandLifecycle` | abstract: submit, assign, finish, take back | - |
| `CommandStore` | the table, the server's start and stop | `SharedTypes`; implements `CommandLifecycle` |
| `ControlServer` | routes, connections, signals, shutdown | `CommandStore`, and implements it |
| `Agent` | loop, recovery, executors, heartbeats, journal, the wire | `SharedTypes` |
| `ReliableSystem` | server and agents together, faults, fairness | `CommandStore`, `Agent`; implements `WorkSession` |
| `WorkSession` | abstract: what an agent promises with its journal | - |
| `JournalFile` | the state directory, file system call by call | implements `AtomicJournal` |
| `AtomicJournal` | abstract: a journal saved, deleted and found in one step | - |
| `HttpGetJson` | successive GETs, their timers, headers and bodies | - |
| `DocumentedClaims` | sentences of the repository the code does not keep | `ReliableSystem` |
| `MC*` | model values, definitions and symmetry for TLC | |
| `CommandStore_proof`, `CommandLifecycle_proof`, `ControlServer_proof`, `JournalFile_proof`, `HttpGetJson_proof` | theorems about the module they are named after | |
| `ReliableSystem_proof` | the inductive invariant of server, wire and agents | `CommandLifecycle_proof` |
| `SystemSafety_proof` | the safety properties of `ReliableSystem` | `ReliableSystem_proof` |
| `WorkSession_proof` | the agents implement `WorkSession` | `SystemSafety_proof` |

**CommandStore.**  `commands` maps each id to its row or `Null`; `now` is
`Date.now()`, `serverUp` says whether the port is open, `lastLease` numbers the
lease ids drawn by `randomUUID()`.  better-sqlite3 is synchronous and no handler
awaits between the clock and its statement, so each operation is one atomic
action.  The conditions of the UPDATE statements are the operators
`IsCurrentLease`, `ExpiredLeases`, `OldestPending`; the columns they set are
`Claimed`, `Finished`, `Requeued`.  An operation whose lease is not current is a
disabled action here; `LeaseConflict` of the composing modules sends the 409.
Durations are integers of either sign, as `require-fields.ts` lets through.  The
clock only moves forward; see section 8.

**ControlServer.**  A connection `conn[k]` carries one request at a time: it is
accepted, its handler runs in one go (the body has to arrive first, which is
time between `Accepts` and the handler), its answer is delivered or the
connection breaks.  All requests a route refuses before it touches the table are
one, `"malformed"`, answered 400, or 500 when the body is no JSON.  `dbOpen` is
the SQLite connection: `ListenerErrs` is the error handler of `index.ts:91`,
which stays registered after the start and closes the database under a server
that goes on listening; every request is answered 500 from then on (while
`/health`, which does not ask the table, stays 200).  `forceIn` is the time left
of the forced exit of a shutdown.  `told` and `accepted` are ghosts: the binding
answers that reached a client, and the number of reports the server accepted
about each command.

**Agent.**  `pc` is where an agent stands between two effects that outlive its
process, so `Crash` is possible between any two of them:

| `pc` | code |
|---|---|
| `down` | no process, or `start()` has returned |
| `idle`, `claiming` | main loop; awaiting `claim()` |
| `claimed` | journal written, heartbeat started, executor not entered |
| `waiting`, `elapsed` | awaiting `waitUntil`; wait over, result not saved |
| `executing`, `fetching`, `reading` | stage IN_PROGRESS saved; GET has left; headers there, awaiting the body |
| `saved`, `reporting` | journal is RESULT_SAVED; awaiting `complete()` |

`running` is the flag `stop()` clears: the heartbeat ends at once, the loop only
after its current command (`LoopEnds`).  `journal` stands for the file and for
the object the executor updates, which change together; between two commands it
is the file alone, stale when its deletion failed.  `StartUnread` is a start
that cannot read the file.  `timer` and `leaseValid` are the heartbeat manager's
fields; `BeatAnswered` is the rest of the interval callback after its await and,
like the code, does not look which command it asked about.  `requests` and
`replies` are the wire: `fetch` does not repeat a POST, so each request is
handled at most once, but requests and answers overtake each other.  A request
whose agent died or gave up stays on the wire with `awaited = FALSE`.
`requestCount` (GETs sent, the counter of the mock target in the end-to-end
tests), `taken` (leases work was begun under) and `leftOver` (reports that were
answered or failed, after which the journal could not be deleted) are ghosts.

**ReliableSystem** pairs each request with its handler, gives every agent a wall
clock that may be off by `MaxClockSkewMs`, and adds the faults, counted by kind
in `faults`:

| Kind | What happens |
|---|---|
| `agent` | a process dies |
| `server` | it stops, or cannot open its port |
| `network` | `RequestLost`, `RequestAbandoned`, `ReplyLost` |
| `save` | a journal cannot be saved: `JournalNotSaved`, `ClaimNotSaved` |
| `delete` | a journal stays although it was deleted |
| `read` | a start cannot read its journal |
| `stop` | an agent is told to stop |

`Faulted` is the set of kinds that have happened; liveness properties name the
kinds they do not survive.

**JournalFile.**  `files` maps file names `<<agent id, n>>` to contents (`n = 0`
is the journal, the rest are temporary files); `save()` takes the steps open,
write, rename, and dies or throws between any two.  Processes get their id from
the option, the environment or at random, as `config/` does, and share one
directory.  Only the processes with a configured id find their journal again, so
`AtomicJournal` is promised to them.

**HttpGetJson.**  Each GET arms a timer of its own.  The code clears it when the
headers came and leaves it armed when `fetch()` rejects, so timers of earlier GETs
may fire later: `own` tells them apart.  `Read` and `WithoutBody` are the
results, with the cut at `HTTP_BODY_MAX_CHARS` and the attempt to parse what is
left.  In `Agent` the same steps are `FetchUrl`, `HeadersArrive`, `FetchSettles`
and `BodyEnds`, without data.

**Abstract specifications.**  `CommandLifecycle` knows neither clocks nor
processes: a submitted command is assigned to one agent under a token never used
before, finished at most once and only by its holder, and may be taken back
while assigned.  `WorkSession` is an agent's side: one lease at a time, under
which nobody else ever works, a result that is never replaced, and no end of a
session with a result before that result was sent (`SendOutcome`) and that very
request was answered or failed (`Settle`): `Close` asks for the phase `settled`.
`ReportPhase` of `ReliableSystem` reads the phase off the wire: a report is
settled when the reply the agent awaits is about this lease and this result, so
an agent that deletes its journal without awaiting `complete()`, or on the answer
to anything else, makes a step no session has.  That a report which failed on
the network counts as settled is what agent.ts:249 does: the result is then
gone, and no property claims otherwise.
`AtomicJournal` is the journal `Agent` takes for granted.

## 3. Runs

| Run | Instance | What it shows |
|---|---|---|
| `store` | 2 commands, 2 agents, clock to 2, 3 claims, leases of 0 and 2 | all requests, restarts and clock steps in any order keep the table's invariants and action properties, and the table implements `CommandLifecycle` |
| `server` | 1 command, 2 connections reused without limit, clock to 2, forced exit after 1, 2 claims | what clients were told stays true, one report per command is accepted, the routes do to the table only what `CommandStore` allows, a shutdown ends |
| `two_faults` | 1 command, 2 agents, 3 claims, any 2 faults of agent, server, network, save, stop | journals, results and reports stay tied to their lease, and agents implement `WorkSession` |
| `two_commands` | 2 commands, 1 agent, a DELAY of 2, a heartbeat every 1, 2 claims, 1 fault of agent, stop, delete | one agent never mixes up two commands in turn, heartbeats keep the lease they are for, what is reported is saved; without faults every command completes, and a DELAY survives a death or stop, but for the DELAYs whose lease the agent misjudges |
| `live` | 1 command, 1 agent, a DELAY of 2, a heartbeat every 2, clocks 1 apart, 3 claims, any 2 faults of all seven kinds | no DELAY is reported early, no saved result is dropped before its own report was settled, no agent gets stuck, a waiting command is handed out, saved results are delivered |
| `journal_file` | 3 processes (ids by option, environment, at random), 4 ids, 3 saves | the files of a shared directory implement `AtomicJournal`; temporary files left behind have a cause |
| `http_get` | timeout 3, bodies up to 3 characters of which 2 are kept | a GET waits for headers no longer than its timeout and is aborted by its own timer only; nothing is cut silently; `fetch()` settles |

`two_commands`, `live`, `http_get` and `server` use `FairSpec`; the others
check safety only.
`store` and `server` switch off deadlock checking: with the clock at its bound
and nothing left to claim or finish the table has nothing more to do, and a
server that can neither tick nor be told to stop waits for clients.  The other
runs keep it on, since agents poll for ever and GETs and starts follow each
other without end.

`two_faults` has neither failed deletes nor failed reads: they leave a journal
that the agent no longer knows of and that its next claim overwrites, which is
no step of `WorkSession`: with them the agents do not implement it.
`two_commands` has the failed delete and shows that the stale journal still
mixes nothing up; `live` has both, and there a result whose report was settled is
overwritten by the next claim, as `SavedResultKept` allows.

The liveness of `two_commands` needs two commands because of a defect of the
code, the one `claim_lease_lost` shows: the 409 for a heartbeat of a command that
is finished may arrive while the agent waits for the next one, a DELAY, which it then drops.
Nothing else has to go wrong, and as leases are reset at a start of the server
only, that DELAY stays RUNNING for as long as the server runs.  "Without faults
every command completes" is therefore false of the code, and
`CompletesWithoutFaults` and `DelaySurvivesCrash` except exactly this case:
`LeaseMisjudged(c)` is an agent that takes the lease of its DELAY for lost while
the table honours it.  An HTTP_GET_JSON never looks at its lease and has no
exception.  With one command there is no earlier heartbeat to be answered late,
and the run would not see the case at all.

Five more runs refute sentences of the repository; each has one property and
ends in a counterexample:

| Run | Sentence | What the code does |
|---|---|---|
| `claim_one_executes` | README.md:35 "At most one agent executes a command at any time" | the old holder goes on after a reset |
| `claim_lease_lost` | delay.ts:64 "Throws LeaseExpiredError if lease becomes invalid" | also thrown when an old heartbeat was refused |
| `claim_recovery` | README.md:446 "Automatic recovery when agents crash" | only when the server restarts |
| `claim_long_delay` | delay.ts:63 "Wait until the target time" | beyond 2^31-1 ms `setTimeout` fires after 1 ms |
| `claim_fetch_timeout` | README.md:324 "Timeout \| 30 seconds" | a body that does not end is awaited without limit |

`claim_lease_lost`, `claim_long_delay` and `claim_fetch_timeout` are defects of
the code; in the others the documentation promises more than the code does
(README.md:447 itself admits duplicates during network partitions).

More divergences are visible in the models and have no run of their own:

* "Server accepts result only if lease is still valid" (README.md:62): the
  server compares the lease id and not the expiry; see `IsCurrentLease`.
* "No duplicate command execution even after crashes" (README.md:34): a crash
  between GET and snapshot leads to a second GET under a later lease.
* The journal is deleted on 204 or 409 (README.md:351-353): after a network error
  too; see `ReportAnswered`.
* A heartbeat may set an earlier expiry than the current one
  (command-database.ts:97 says "Extend lease for a command"); see `Heartbeat`.
* Every claim computes `scheduledEndAt` anew (delay-crash-recovery.test.ts:271
  says it "remains constant"); see `Claimed` and `Requeued`.
* A DELAY resumed after its scheduled end reports the scheduled duration
  (command.ts:86 says "Actual time elapsed in milliseconds"); see `ResultOf`.
* A body that is no JSON is answered 500, not 400; see `HandleInvalid`.
* After an error of the listening socket the server answers every command
  request with 500 while `/health` stays 200; see `ListenerErrs`.

Every property of a passing run has a mutant in `PROJECT.json`: a plausible bug
in a modelled operation under which the run fails.  The mutants stand in the
modules as operators marked "Mutant" and are used by no specification.

## 4. Bounds

* `MaxNow` stops the clock and `MaxLeases` the number of claims.  With
  `MaxLeases` of 3 in `two_faults` a command can be claimed, revoked, claimed
  again and revoked once more, which covers a stale holder meeting both its
  successor and its own second claim.  With 2 in `two_commands`,
  where no server fault lets a lease be reset, each command is claimed once: what
  this run is about is one command after the other.
* `QuietAfter` is the time after which the clock moves only for an agent that
  waits for a DELAY.  Leases of 1 have expired by then, so every comparison with
  the clock has been both true and false, for an HTTP_GET_JSON too.  Beyond it the
  clock moves two or three steps per DELAY, which is enough for one heartbeat to
  be sent and answered late and, in `two_commands`, for the next to be due.
* `MaxClockSkewMs` is 1 in `live`: the agent's clock is one behind, equal or one
  ahead each time it is read, so a wait starts short, exact or long.  The theorem
  about `DelayNotEarly` is for every skew.
* `MaxFaults` is at most 2.  The known dangerous schedules need a crash and a
  restart, or a lost answer and a restart.  `two_commands` has one: a failed
  deletion leaves a stale journal that the next command overwrites.  That a stale
  journal is recovered instead takes a death as well: `live` combines them, and
  the theorems have no bound.
* `Connections` are reused, so `server` handles requests without number; two of
  them are open at the same time, so that a request waits while another one is
  handled, answered, or the process is told to stop.  `ForceMs` is 1: what matters is
  before and after.
* `MaxTemps` allows three saves in `journal_file`: one that completed, one that
  is under way and one that died, in one process or in three.
* In `http_get` the number of GETs is unbounded; timers count down from 3, so one
  left armed can fire in any phase of a later GET.  Texts have up to one
  character more than is kept, each a digit or a letter, so that cutting turns
  no JSON into JSON and the reverse.
* Heartbeats sent under the same lease and not yet handled are one element of
  the set `requests`: handling them twice in a row differs from handling them
  once only in the expiry, which the clock steps between two heartbeats vary
  anyway.
* `MaxTimeoutMs` is 2^31-1 in Node.js.  Where it is set beyond every delay,
  `DelayNotEarly` holds for every delay; `claim_long_delay` sets it below one.
* Symmetry over agents, commands, spare ids and contents is used for safety runs
  only.  No constant or property names a particular one.

## 5. Fairness

`ReliableSystem!FairSpec` assumes weak fairness of what the runtime or the
deployment drives:

* `TimePasses`, the clock; `Starts` and `AgentStarts`, since docker-compose.yml
  restarts both processes.  It sets no AGENT_ID, though, so a restarted container
  draws a new id (defaults.ts:10) and never finds the journal of the one
  before: `AgentStarts` is fair to an agent with a *configured* id, as
  README.md:363 of the repository describes it, and `SavedResultDelivered` and
  `DelaySurvivesCrash` hold for such agents.  Under the compose file as it is,
  every death of an agent with a journal loses that work;
* `AgentRuns` and `AgentHears`, the agent's event loop; `HttpGetJson!FetchSettles`
  shows that the wait for headers ends;
* `TargetEnds`, which is an assumption about the outside: a target ends a body
  it has begun.  The code does not bound this wait (`claim_fetch_timeout`), and without
  the assumption no liveness property of an agent holds;
* `ServerAnswers(a, op)`: for each agent and kind of request, the server handles
  one it is awaiting or the connection is refused.  Requests nobody awaits may
  stay unhandled for ever.

Nothing is assumed of clients, of faults, or of how promptly heartbeats tick, so
a DELAY may outrun its lease in both liveness runs of the system.

`HttpGetJson!FairSpec` assumes that time goes on and due timers fire, and nothing
of the target.  `ControlServer!FairSpec` assumes that time passes and that the
callbacks of `server.close()` and of the forced exit run, and nothing of clients: they may keep
their connections for ever.

## 6. Proofs

The `*_proof` modules are checked by TLAPS for any sets of commands, agents,
processes and ids, any integer durations, and any bounds.  The assumptions are
the named ASSUMEs of the modules they are about: durations are integers, `Null`
is none of the values it stands beside, results are results, bounds are
naturals, configured ids are unique (README.md:363 of the repository).  TLC
evaluates them in every run.

About the table (`CommandStore_proof`, `CommandLifecycle_proof`):

* `TypeCorrect`: `StoreTypeOK` is inductive; one step per action, with lemmas on
  the rows `Claimed`, `Finished`, `Requeued` build.
* `RowsAlwaysConsistent`: `RowsConsistent` is inductive with the types.
* The lemma `RowFate` says what a step may do to a single row: leave it, create,
  claim, extend, finish or requeue it.  The remaining theorems argue from it.
* `LeasesExclusive`: the invariant must also say that no row carries a lease
  above `lastLease`, or the next claim could repeat one.
* `AttemptsAlwaysMatch`: the attempts of all rows are a finite set of pairs of a
  command and a number; a claim adds one pair and draws one lease (`ClaimAttempts`),
  no other step adds or removes any (`AttemptsStay`, `LeasesStay`).
* `NeverOvertaken`: `NoOvertaking` alone is not inductive; it needs that no row
  is younger than the clock (`CreatedInPast`) and that a row without attempts is
  PENDING (from `RowsConsistent`).
* `TerminalStaysFinal`, `UnexpiredLeasesHonoured`, `StaleLeasesNeverReturn`:
  action properties, from the types and `RowFate`.
* `TableImplementsLifecycle`: creation is `Submit`, a claim `Assign`, complete
  and fail `Finish`, a start of the server `TakeBack(ExpiredLeases)`; ticks,
  stops and heartbeats stutter.  The invariant is the conjunction of the types,
  `RowsConsistent`, `LeaseExclusive` and `lastLease <= MaxLeases`.

About the journal files (`JournalFile_proof`):

* `TypeCorrect`: `TypeOK` is inductive, since it says of temporary names that
  they were drawn.
* `JournalIsAtomic`: the invariant is the conjunction of the types, `OwnIds` (a
  running process with a configured id has exactly that id, and no other process
  has it), `SavesApart` (two saves in progress never share a temporary file,
  because numbers are drawn once, and a file written completely holds what its
  process is saving) and `JournalsWhole` (a file a start would find is never
  torn).  Then `Renames` is the abstract `Save`, `Delete`, `Dies` and `Start`
  are `Delete`, `Die` and `Recover`, and the steps inside a save stutter, as
  does everything a process with a random id does.
* `OrphansAlwaysMishaps`: a save in progress has its temporary file
  (`SavesHaveFiles`), and the files, the saves and the mishaps stay in balance
  (`OrphansCounted`): every step leaves them, opens a save, ends one and cleans
  up, or ends one and counts a mishap (`OrphanCases`).

About the server (`ControlServer_proof`):

* The common invariant is `TableOK`: `StoreTypeOK`, `LeaseExclusive` and
  `ServerTypeOK`.  `ServerTypeCorrect` is its last part.
* `ServerImplementsStore`: every handler is a step of `CommandStore` or leaves
  the table alone.  The one gap is the lease: a request may carry any lease id
  that can be issued, the table's actions only take issued ones.  A lease that is
  current is on a row, and `LeaseExclusive` says that it was issued.
* `OneReportEverAccepted`: a report counts as accepted in the step that finishes
  the row, and finished rows stay as they are (`TerminalStep`, a lemma about the
  table); so a command with an accepted report is COMPLETED or FAILED
  (`ReportsCounted`), and its next report meets no current lease.
* `ToldStaysTrueForever`: the invariant `AnswersTrue` says of binding answers
  what the property says, of those delivered and of those still under way.

About the GETs (`HttpGetJson_proof`):

* `TypeCorrect`: the lemma `CutBounded` says what the slice of a text is.
* `HeadersAlwaysInTime` and `TimeoutsNeverEarly`: the invariant `OwnTimer` says
  that while headers are awaited an own timer is armed, that the time left of an
  own timer and `elapsed` add up to the timeout, and that no own timer is armed
  while the body is read.
* `NothingEverCutSilently`: an action property, from the types and `CutBounded`.

About the whole system (`ReliableSystem_proof`, `SystemSafety_proof`,
`WorkSession_proof`): any number of commands and agents, any durations, any
clock skew, any set and number of faults, no fairness.  Three assumptions come
in addition: `ResultsCarriedAssumption` (complete requests may carry what
executors find out, so that the table's `Results` is wide enough for its
agents), `NullRecordAssumption` and `NullSessionAssumption` (`Null` is no journal,
timer, grant or session).

* Every step is split once and for all.  The lemma `StepCases` makes it a step
  of the table, of the wire or of one agent; `WireFate` says what the wire can do,
  `JournalFate` and `MessageFate` what an agent can do to its journal and to the
  messages, `ReplyFate` and `RequestFate` where a message can come from.  The
  theorems argue from these lemmas rather than from the actions.
* `SystemInvariant`: types alone are not inductive, since an agent at `saved`
  reads a journal that has to be there.  The invariant `IInv` is the conjunction
  of the types; `TableOK` (rows consistent, leases exclusive and bounded); `Shape`
  (where an agent stands fits its journal, its timers and the grants it will
  read); and `Provenance` (every grant, journal and report goes back to a claim
  of the table: the command exists with that type and schedule, and as long as
  the row has the lease it names that agent and start).
* `SystemTypeCorrect` is its first part.  `SystemRunsTable`: what the agents and
  the network do to the table are steps of `CommandStore`, so all the theorems
  about the table hold in the system, `SystemImplementsLifecycle` among them.
* `LeasesStayApart`: a lease on the wire has not been taken, one that was taken
  is in one journal at most (`LeasesApart`).  With `IInv` it gives
  `JournalsAlwaysMatch`; `HeartbeatsMatchJournal` follows from `Shape`.
* `ReportsAreAwaited`: a crashed agent, a lost answer or an abandoned request
  leaves reports on the wire, but those somebody waits for belong to the journal
  at hand (`ReportsAwaited`).  `ReportsAreSaved` follows.
* `SavedResultsKept`: a deletion of a saved result has the answer to its report
  in hand (`ReportsAwaited`).  The other way to lose one is the next claim, which
  overwrites whatever is in the file; `LeftOversReported` says that a saved result
  an agent asks for work with is one whose report was settled and whose deletion
  failed then (it is in `leftOver`), unless a start could not read its journal.
  It rests on `ReturnCases`: with what journal an agent can come back to polling.
* `ResultsMatchLeases`: a row becomes COMPLETED by a report under its current
  lease only (`Completion`), and `Provenance` says what such a report carries.
* `DelaysNeverEarly`: the time already waited has to be followed from the wait
  into the journal, from there into the report and into the row
  (`DelaysWaited`), through crashes and resumed waits.  It holds for delays that
  `setTimeout` can hold with the skew added; `claim_long_delay` shows the rest.
* `LeasesKeptByBeats`: `LeasesRenewed` lists why a beating agent's lease has time
  left: no heartbeat was accepted yet, the last one reaches two intervals past
  the next, one is on its way, or one was refused and the agent has yet to hear
  it.  The proof found that an agent in recovery has to be excepted: it beats
  first a whole interval after its start (agent.ts:79), however little is left
  of the lease it finds in its journal.  The run's bounds are too small to show
  this; a DELAY of 7 and a crash late in it do.
* `ClaimsFetchOnce`: fetches done and leases that may still be fetched under are
  together at most the attempts of the command (`FetchesCounted`), because leases
  are apart and every GET uses one up.
* `SessionsImplemented`: a grant read is `Begin`, a saved result `FindOut`, a
  report `SendOutcome`, its answer or failure on the wire `Settle`, a crash that
  cuts it short `Interrupt`, a deletion `Close` or `Drop`; the rest stutters.
  `ReportsAwaited` is needed twice: a report that leaves has no answer yet, and
  the answer an agent deletes its journal with is the one that settled it
  (`ReportSettles`, `SessionEnds`).  The hypothesis `FilesKept` says that no
  unlink and no reading of a journal fails, under which an agent asks for work
  without a journal (`PollsEmptyHanded`).  It is needed: after a failed deletion
  the next claim overwrites the journal, which is no step of a session.

So every invariant and action property of the passing runs is also a theorem,
and every refinement, that of `WorkSession` under `FilesKept`.  Model-checked only
is liveness: `AgentsKeepPolling`, `QueueDrains`, `CompletesWithoutFaults`,
`SavedResultDelivered`, `DelaySurvivesCrash`, `FetchSettles` and `ShutdownEnds` rest
on fairness, which is defined by ENABLED, and the prover does not reason about that.

## 7. Plan

Done, in this order: `CommandStore` with its invariants, `CommandLifecycle` and
the refinement, `Agent`, `ReliableSystem`, the documented claims, the proofs
about the table; then faults of the file system, `stop()` and clock skew in
`Agent` and `ReliableSystem`, `WorkSession`, `JournalFile` with `AtomicJournal` and
their proof, `HttpGetJson` and `ControlServer` with theirs; last the proofs about
the whole system.

Next: what the agents promise when deletions and reads of journals fail, as a
weaker abstract specification that includes those steps and needs no hypothesis,
and the single-step lemmas behind liveness that are free of ENABLED.

## 8. What is not modelled

* Power failures: nothing is fsync'ed before the rename (journal.ts:61), so what
  a machine that loses power keeps depends on the file system.
* Idle keep-alive connections while the server drains: node 18.20 closes them in
  `server.close()`, and the forced exit bounds the rest.
* `fail()` of the server client is never called by the agent; the server's route
  for it is `HandleFail` of `ControlServer`, and absent from `ReliableSystem`,
  where only agents talk to the server.
* Options other than the agent id are constants of the models; dependency
  injection, logging and the texts of errors have no behaviour at run time.
* `--random-failures` and `--kill-after` are crashes like any other.
* Several server processes on one database file: the deployment starts one.
* A server clock that is set back: `now` never decreases.  `NoOvertaking` needs
  this, since `createdAt` is what the queue is ordered by, and so do statements
  about expired leases.
* The end-to-end test helpers; their request counter is the ghost
  `requestCount`.
