# A verification of the Armada compute adapter

marimohub runs each notebook kernel in a sandbox. This repository is the
adapter that makes a sandbox an Armada job: a TypeScript library inside the
marimohub process (`src/src/`) and a Go agent that is PID 1 of the job's pod
(`src/agent/`). This directory models both in TLA+, checks the models with TLC
on small instances and proves the most important facts for every instance with
TLAPS.

## 1. The system

| Part | State it keeps | Operations | Talks to |
|---|---|---|---|
| Provider (`provider.ts`) | the queue directory, the placements | `create`, by id or for a session; `listActive` | makes sandboxes; Lookout |
| Sandbox (`sandbox.ts`) | `job`, `channel`, environment | `ready`, `exec`, `execStream`, files, `startProcess`, `exposePort`, `destroy` | directory, Armada client, channel |
| Queue directory (`queues.ts`) | sandbox -> queue, remembered | `resolve`, `remember`, `forget`, `forOwner` | Lookout |
| Armada client (`armada.ts`) | none | `submit`, `cancel`, `cancelSet`, `waitForRunning`, `portUrl`, `findJob`, `findQueue`, `listActive` | Armada's API, event stream, Lookout |
| Channel (`channel.ts`, `ndjson.ts`) | one timer per call | `run`, `stream`, files, processes, `waitForPort` | the agent, by HTTP |
| Agent: commands and processes (`server.go`, `process.go`) | `children`, `started` | `/exec`, `/process/*`, `shutdown` | the kernel's process table |
| Agent: reaper (`reaper_linux.go`) | none | collects orphans | the process table, `children` |
| Agent: files (`files.go`, `files_linux.go`) | the slots for bounded reads | `/files`, `/files/bounded`, `/files/list` | the pod's file system |
| Configuration (`config.ts`), credentials (`auth.ts`) | none; the environment and the token file are the operator's | `readConfig` at every start, `authorizationHeader` for every request | everything above |
| Pod spec (`podspec.ts`), environment of commands (`shell.ts`) | none | `buildPodSpec` for every submit, `withEnvPrefix` for every command | Armada, the pod's shell |

marimohub keeps no sandbox object: it makes a new instance by id whenever it
needs one, so several instances of one sandbox are used at once and calls on
them overlap. The adapter's memory is lost when the process restarts, while the
jobs run on; what is then known comes from Lookout, whose database lags behind
Armada. In the pod the agent's goroutines (a handler, a watcher and two readers
per command, the reaper, shutdown) race with each other and with processes that
exit, fork and leave their group whenever they like.

What is hard here, and what makes each part correct:

* **Lifecycle.** Every `await` lets another call in between. A sandbox must have
  one kernel, started once; a destroy that reports success must have ended it;
  whatever a race or a crash leaves behind must in the end be reclaimed.
* **Commands.** Two timers race on the two ends of a connection that cuts lines
  anywhere, breaks, or falls silent. A result must be whole, a truncated stream
  must not look complete, the agent must have the last word while the network
  works, and a call must end when it does not.
* **Processes.** PID 1 collects all orphans and must collect no child that a
  `Wait` waits for. A command whose caller is gone must end; shutdown must give
  the kernel the time to flush.
* **Bounded reads.** A stalled file system must hold up neither the caller nor
  more goroutines than there are slots; what is read is a regular file, within
  the budget, whole, reached through no symlink, while a notebook rewrites the
  tree.
* **Port waits.** Boundary cases of a deadline (zero, shorter than a probe), and
  the order of three checks.
* **Files.** One failure of several concurrent requests, and what happens to the
  others; reads beside writes that tear; a 404 that may mean an older agent; a
  budget in fractions, at zero and at the most a timer holds; a network that
  falls silent in the middle of a body.
* **Settings.** marimohub restarts with other settings while sessions run. What
  is accepted at startup must be possible later, nothing that was set may be
  ignored without a word, a running session must survive what does not concern
  it, the list that the reconciler destroys from must be this installation's, and
  a token file may be rotated between any two requests.

`PROJECT.json` lists these hazards line by line under `hazards`, each with the
properties that would notice it going wrong.

## 2. The modules

| Module | Models | Notes |
|---|---|---|
| `Armada` | Armada and Lookout (external) | jobs, client ids, cancelling, events, lag, addresses |
| `QueueDirectory` | `queues.ts`, `findQueue` | EXTENDS `Armada` |
| `Sandboxes` | `sandbox.ts`, `provider.ts`, `armada.ts` | EXTENDS `QueueDirectory`: the composition of the lifecycle's parts |
| `KernelLifecycle` | what a caller is promised of a sandbox | abstract; `Sandboxes` implements it through `kernelOf` |
| `ExecCalls` | one command across the wire | `channel.ts`, `ndjson.ts`, `server.go` |
| `AgentProcesses` | commands, launched processes, reaper, shutdown | `server.go`, `process.go`, `reaper_linux.go`, `main.go` |
| `BoundedReads` | `/files/bounded` | `files.go`, `files_linux.go` |
| `PortWaits` | `/process/waitport` and its callers | `process.go`, `channel.ts`, `sandbox.ts` |
| `FileWrites` | `writeFiles` and `PUT /files` | `sandbox.ts`, `channel.ts`, `files.go` |
| `FileReads` | `readFile`, `readFileBounded`, `listFiles` beside writes | EXTENDS `FileWrites`, whose variables a read leaves alone |
| `Settings` | `readConfig` and its readers, `authorizationHeader` | `config.ts`, `auth.ts`; operators |
| `PodSpec` | `buildPodSpec`, `exposedPorts`, the job request | EXTENDS `Settings`; `podspec.ts`, `armada.ts` |
| `Environment` | `withEnvPrefix`, `assertEnvName` | `shell.ts`, `sandbox.ts`; operators |
| `Installation` | one installation over its restarts | EXTENDS `PodSpec`, `Environment`: operator, process, jobs, commands |
| `SandboxesProofs`, `QueueProofs` | theorems about `Sandboxes` | the second EXTENDS the first |
| `FilesProofs` | theorems about `FileWrites` and `FileReads` | |
| `ExecCallsProofs`, `AgentProcessesProofs`, `BoundedReadsProofs`, `PortWaitsProofs`, `InstallationProofs` | theorems about the module in the name | |
| `MC...` | the instances TLC checks | constants, and what a text denotes |

### How state and actions correspond to the code

**Sandboxes.** A call in progress is a record in `calls`; its `pc` names the
request it awaits, and everything between two awaits is one action, as in a
single-threaded program. `instances` holds the fields of the `ArmadaSandbox`
objects, `placements` and `remembered` the two maps the provider shares among
them, `sweep` the reconciler's `listActive` while it waits for Lookout. A request
has its effect at the server (`SubmitAccept`, `CancelAccept`) and returns to its
caller (`JobReturn`, `DestroyReturn`) in different steps; `Throw` is any request
failing, at any point. `Restart` empties everything but Armada's own state. A
submit whose call threw, or whose process died, goes to `late` when `SubmitsLinger`
is set: Armada may take it at any later time (`Land`) or never (`Lose`). A cancel
that is given up may land late as well, and what it does then is what `JobEnds`
does at any time. `released`, and the set of jobs a destroy owes (`owed`), are
history.

Decisions: Armada deduplicates a client id within a queue for good, which is how
`armada-types.ts:28` describes the field; `submit` therefore answers the old id
even when that job is over. The `pod` field carries only words for messages and
is left out. `listActive` is one page. `isPortReady` changes nothing here.
`Reclaim` is marimohub's reconciler: it destroys, by id, what `listActive`
reports and no session holds any more.

**ExecCalls.** One call. Chunks of output are numbered per stream; a line crosses
as two pieces, part 1 and part 2, of which the second carries the newline, so
that a chunk can end inside a line. Timers are counted down: `request` and `answer` are the network's,
`guard` is the client's, `deadline` and `grace` the agent's. `Overdue` stops the
clock while a step of a program that takes no time is due. A timeout of zero is
left out: the agent reads it as no deadline, the client as one that has passed.
The client reads as fast as it is sent to.

**AgentProcesses.** A process table of one leader and at most one further child
per request, which may leave the group and may keep the pipes. `Start` and
`Store` (or `Register`), `Wait`, `Answer` and `Delete` are separate steps, as are
the reaper's list, its look at `children` and its `wait4`. Requests are served
until `os.Exit`. `shutdown`'s look at `children` takes time: what was there from its
beginning to its end is found, what is stored or deleted meanwhile may be missed
(`LookBegins`, `LookFindsNone`, `LookFindsOne`), and between a look that found
nothing and the exit (`ExitClean`) a process may still be stored and its pid told.
`sight` keeps what the look began with. Pids are not given out again.

**BoundedReads.** The handler and the goroutine that reads are two actors; the
notebook may write to the file, replace or remove the name or its directory, and
the file system may stall, at any step.

**PortWaits.** The port is closed, open or hangs, and changes at any time, also
without the watched process, since a child of that may hold it. `deadline`,
`probe` and `pause` are the agent's timers, `guard` the client's. The probe has the
request's context (`process.go:313`, `231-253`), so it may end early when the caller
has left (`CallerLeft`); the loop then answers nobody, or leaves in its next pause.

**FileWrites.** A request has a client's end and an agent's end. When a call
fails, requests of its last chunk go on. Two requests that have both opened a
file may leave a mixture of the two.

**FileReads.** One call that reads, beside the calls that write: `read` is its
request at both ends. The agent looks at the files and answers in different
steps, so a write may come between; `same` is history and says that none did.
Numbers of a budget are counted in halves, because marimohub may pass a fraction
and the agent takes whole numbers. `why` remembers where an error arose. The
agent may be an older one, without the route, or one that sends more than it was
allowed; the inside of a bounded read is `BoundedReads`'. The request's way to the
agent takes no time and the answer's takes up to `Trip`, so the agent's deadline
begins with the client's send; a slow request would shift both ends of the read
and needs `Trip` to cover the two ways together.

**Settings, PodSpec, Environment.** Functions of the environment, the token file
and the options of a call. A text is a constant, and what it denotes (its
number, its list, its object, whether it is a URL) are functions of it, so that
the readers keep every condition of theirs (blank or unset, trimmed or not,
default, range, combinations refused) without any parsing. `readConfig` is a set:
the configuration, or nothing when it throws. What a command sees is modelled
through what the shell makes of the prefix, with the quoting undone by `sh`.

**Installation.** `env` is what marimohub is started with and changes only while
it is down, `file` at any time, `hub` is the process and what it read. `jobs`
keeps what was submitted, to which server and queue, and the settings of then.
`remembered` is the queue directory of the process, lost when it stops; `resolve`
takes the queue from it, from Lookout, from the map or from the default as
`queues.ts:94-113` does, and Armada answers a submit with the job it has on that
server in that queue (`InSet`), or takes a new one. `Shows` says which Armada a
Lookout shows. A call is one step: the order of requests, and a Lookout that lags,
are `Sandboxes`' subject. The readers of `Settings` are kept condition by condition
because `OfferedWorks` and `EverySettingCounts` are about exactly which
combinations are accepted and which refused.

## 3. The runs

Passing:

| Run | Checks | Instance | Distinct states |
|---|---|---|---|
| `moved_map` | `OneKernel`, `DestroyEffective`, `RememberedIsRight`, `KernelOnce` | 3 queues, 1 caller and the reconciler, the owner's queue changes at a restart, Lookout up to date, 2 restarts | 459,000 |
| `reclaim` | `TypeOK`, `OnlyReadySubmits`, `Reclaimed` | 2 callers and the reconciler, 2 queues, Lookout lags, submits land after their call gave up | 250,000 |
| `agent` | `SurvivorKeepsStatus`, `ShutdownWaitsForTold`, `OrphansReaped`, `AbandonedEnds` | 1 command that forks a child, which keeps its output in the group or leaves it with or without, 1 launched process | 375,000 |
| `bounded_reads` | `RunningBounded`, `OnlyInside`, `WholeWithinBudget`, `AnsweredInTime`, `SlotReturned` | 2 reads for 1 slot, files of 0 to 2 bytes, budget 1 | 203,000 |
| `exec_calls` | `ResultWhole`, `StreamHonest`, `FailsOnlyForCause`, `CallEnds` | run and stream, with a timeout of 2 and without, grace 2, slack 5, latency 1, 3 chunks | 435,000 |
| `port_waits` | `OpenPortFound`, `CrashIsNoTimeout`, `BoundedWait`, `AgentDecides`, `WaitEnds` | timeouts 0, 1 and 4, probes of 1 and 2, watched or not | 20,000 |
| `files` | `WrittenWhenResolved`, `EarlierStoredFirst`, `CutTouchesNothing`, `AnswerIsTrue`, `BudgetKept`, `GivesUpLate`, `BoundedSettles` | 2 paths, 2 at a time, lists of up to 2 chunks, 2 calls, or 1 beside a read; budgets at every limit | 398,000 |
| `installation` | `TypeOK`, `OfferedWorks`, `EverySettingCounts`, `SessionSurvives`, `ListedIsOurs`, `CredentialIsCurrent`, `SeenInOrder` | 3 installations, any one of 35 variables changed, restarts, 4 contents of the token file, a sandbox named with its owner and without, 2 calls of `setEnvVars` | 23,000 |

Violations, each a sentence of the repository that the code does not keep (the
sentences are quoted under `findings`):

| Run | Property | What happens |
|---|---|---|
| `second_kernel` | `OneKernel` | an instance with its owner named and one by id alone both wait for Lookout, then submit the same client id to two queues |
| `retired_map` | `DestroyEffective` | the map is gone: destroy cancels an empty set in the default queue and returns |
| `reused_address` | `HealthIsOwn` | the remembered address now belongs to another sandbox's pod, which answers |
| `forced_empty` | `ForcedWins` | a variable is set to the empty text and given a default: the guard takes empty for unset, and the command sees the default |

`moved_map` has one caller beside the reconciler, a Lookout that is current and
submits that end with their process (`SubmitsLinger` is `FALSE`): there the lookup
protects a sandbox whose owner was moved. A submit that outlives its process could
land in the old queue after the next process, told by Lookout that there is
nothing, has chosen the new one; that is a second kernel of the kind
`second_kernel` shows. `second_kernel` itself has a single map, two callers and a
Lookout that is current but holds nothing yet: `resolve` does not look again at what
is remembered once Lookout has answered, and a second kernel starts in the default
queue. With one queue none of this matters, and `QueueProofs` proves both that case,
with any number of callers, any lag and late submits, and the case of `moved_map`
for every instance.

`reclaim` has the submit that lands after a destroy was reported done, in both
forms: of a second call that is still waiting for it, and of one that threw. Both
callers use one instance, so calls also overlap on its fields. There is no restart
in it; a late submit of a process that died lands like one of a call that threw,
and the safety theorems have it with any number of restarts.

`SessionSurvives` does not say that any setting may be changed. It asks that the new
process look for the job where it is (`Findable`): the same `ARMADA_URL` and
`ARMADA_QUEUE`, and either a map that makes it ask a Lookout showing that Armada, or
the maps of the process that submitted. With another server or default queue, or
with the maps removed, the code starts a second kernel. `EverySettingCounts` is
about the configuration record: a setting is refused or makes a difference there.
That the difference is used is shown only for what `OfferedWorks` and
`SessionSurvives` follow further.

Two narrow windows of the agent are in the models and limit what the properties say.
A child that exits after `cmd.Start` and before `children.Store` can be taken by
the reaper, and the handler then reports -1: `SurvivorKeepsStatus` is about a child
still alive when it is recorded. And in `ExecCalls`, `timedOut` is read from the
context after `Wait`, so a command that ended by itself just before its deadline
may be reported as timed out.

### Where the code and its words part without a run

Met while modelling, and left as the code has it:

* `shutdown` signals every process and waits for `children` only
  (`server.go:296-327`): what a finished command left behind gets TERM and no
  time. A process stored during the last look at `children` or after it is not waited
  for either, although its caller may have its pid before `os.Exit`; `main.go:97-98`
  says "leave once every child is gone". `ShutdownWaitsForTold` is about the
  processes that callers had been told of when that look began.
* `portUrl` takes the scheme from the running process's `config.expose`, while its
  comment (`armada.ts:309-311`) says it is the submit's. `SessionSurvives` asks for
  the same exposure.
* A job and a channel of one sandbox can be mixed up when it has two jobs: `ready`
  reads `this.job` again after its awaits (`sandbox.ts:248-255`), and another call on
  the instance may have taken over a placement of the other job. It takes the two
  kernels of `second_kernel` to get there.
* A blank `ARMADA_COMMAND_MAX_SECONDS` turns the backstop off rather than leaving
  the default: a blank text is the number zero.
* `multiPort` is advertised by the current settings; a pod submitted before a
  surface was enabled has no such port, and `exposePort` finds no address for it.
* `run` and `waitForPort` add their slack without the 31-bit cap that bounded reads
  have.

### The bounds, and why they are enough

The lifecycle's races are between two calls: one that has read something and one
that changes it. Two callers on one instance with the reconciler, which always has
an instance of its own, are in `reclaim`; two callers on two instances are in
`second_kernel`, where they find what they should not, and beyond that in the proofs;
a second sandbox shares only addresses and is in `reused_address`. A restart between
any two steps reaches every state a crash can leave, a second covers a map that
moves and moves back. The agent's races are between one request, the reaper and shutdown;
the second request of `agent` is the other kind of child in `children`. One slot
and two reads give a full pool; a budget of 1 with files of 0 to 2 bytes covers
under, at and over, and a file that grows past it. The timers of `exec_calls`
keep the order of the code's (a kill's grace and two ways across the network are
shorter than the client's slack: 5 s and 10 s there). Two chunks per list with two files
in the first are the smallest list whose loop goes round, and two calls the
smallest case of a retry. A read is one call: reads change nothing of what another call sees, so two of them
see no more than one; `CallsBeside`
lets it meet one call of writes, and a bounded read none, whose contents
`bounded_reads` has. `MAX_TIMER_MS` 6, `BOUNDED_READ_SLACK_MS` 2 and `Trip` 1 keep
the order of 2^31-1, 1000 and a network's delay, and the budgets lie below, at
and above each limit (`MaxSafe` 8, in halves); a body is at most `MaxBody` 3.

The three installations are the required settings alone, one behind an Ingress
with a token file and maps, and one on NodePorts sharing its queues; between them
every reader takes each of its branches. `MaxEdits` is 1, which makes each pair
of neighbouring settings a restart of the one into the other; defects that need
two variables wrong at once are met because the bases already set the other one.
`MaxSaid` 2 is the least at which the order of `setEnvVars` matters. `OneSubject`
keeps the environment of commands and the changes of settings in different
behaviours, which share nothing but the job: commands are run in the first job of a
process whose settings and token were not changed. It also lets only jobs without
resources of their own run on, since every pod that is offered is looked at when the
process starts, keeps a process with a lifetime from marimohub to its start, and
leaves a token file alone that no setting names.

`MaxRestarts`, `MaxCalls`, `MaxWritten`, `MaxSize`, `MaxBody`, `CallsBeside`, `MaxEdits` and
`MaxSaid` are bounds of the models; the sets of callers, instances, requests and
reads are constants.

### Fairness

* `Sandboxes`: every request ends, because `fetch` ends it or its timeout does;
  Lookout's ingester catches up; the reconciler keeps sweeping and its own
  requests, which it repeats for ever, do not fail for ever (strong fairness).
  Nothing is assumed of pods or of marimohub's other calls.
* `AgentProcesses`: goroutines run, the reaper's ticker ticks, a process that was
  sent KILL ends. Nothing else ends of itself, and nobody has to stop the agent.
* `BoundedReads`: the deadline fires, goroutines run, a system call returns
  unless the file system has stalled.
* `ExecCalls`: both programs run and time passes; a killed command ends. Nothing
  is assumed of the network.
* `PortWaits`: the same, strong for the agent and the clock because the port may
  change state for ever between two steps.
* `FileReads`: the clock ticks, the client's timer fires, the agent and the client
  run. Nothing is assumed of the network: it may stay silent.
* `Installation` and `FileWrites` have safety properties only.

Deadlock is checked where the system has no end; in `AgentProcesses`,
`ExecCalls`, `PortWaits` and `FileReads` the agent may have exited or the calls may
be over, and an installation may be one that does not start.

## 4. The proofs

Every theorem holds for all values of its module's constants, finite or not,
under the assumptions named in the modules; TLC evaluates those on the runs'
instances. Each rests on an inductive invariant proved action by action, and each
safety property a passing run checks has a theorem of its own.

### The lifecycle (`SandboxesProofs`, `QueueProofs`)

The assumptions are those of `Armada`, `QueueDirectory` and `Sandboxes`: the
default queue is a queue, the reconciler is no caller, maps lead to queues.

* `TypeCorrect`: `Spec => []TypeOK`. `TypeOK` alone is not inductive: that a
  call which has passed `resolve` holds a queue, and that every job a call, an
  instance, a placement or Lookout names exists, are needed for the next step
  (`HasQueue`, `JobsKnown`). The jobs are a growing sequence; `Evolves` says what
  every step keeps of it.
* `OnlyReadyStarts`: `Spec => OnlyReadySubmits`, in every deployment. A call that
  awaits a submit is a `ready` of an instance that may submit (`SubmitsByReady`), and
  a late submit was once such a call's.
  `NextChanges` says once, for all actions, what a step can do to a call; the
  later proofs use it too.
* `HealthIsOwnOnIngress`: `~AddressReused => (Spec => []HealthIsOwn)`. A channel
  that is kept or being tried is the address some job of that sandbox was given
  (`OwnChannels`), and without reuse an address names its job (`OwnAddress`). The
  run `reused_address` violates the same property with reuse.
* `KernelsStartOncePerQueue`: `Spec => PerQueue!KernelSpec`, in every deployment.
  With `kernelIn`, a kernel for each pair of a sandbox and a queue, the lifecycle
  implements `KernelLifecycle` whatever the maps do and however calls race. It rests
  on `Submits` and `Keeps`: a step adds one job, to a set that was empty in that
  queue, or none, and ends jobs of one sandbox in one queue. A second kernel of a
  sandbox is therefore always one in a second queue.
* `KernelsAreSingle` (`OneKernel`), `MemoryIsRight` (`RememberedIsRight`),
  `DestroysReach` (`DestroyEffective`) and `KernelsStartOnce` (the refinement
  `KernelOnce`) hold under `QueueCertain`, which is any of three cases:
  - `SingleQueue`: no map leads away from the default queue;
  - `SettledOwners /\ []NobodyMisled`: every map the process is started with gives
    a sandbox's owner the same queue, its `Home`, and no call is `Misled`, that is,
    made on an instance that has only the id, told that Lookout holds nothing of the
    sandbox, and so about to take the default queue where that is not its home;
  - `OneAtATime`: maps move owners at restarts, Lookout is current, every map names
    some other queue than the default, there is one caller beside the reconciler, and
    no submit outlives its call.

  The first two allow any number of calls, instances and restarts, any lag of Lookout
  and submits that land late. The invariant `QueueInv` is common: type correctness and `UniqueJob`, one
  job per sandbox and queue, which is what Armada's client id gives. In the first
  two cases `HomeQueue` adds that every queue anyone holds, and every job, is at the
  sandbox's home, and that the reconciler, which knows ids only, works on sandboxes
  that Lookout lists (`HomeSweep`), so it is never misled. In the third `Placed` adds
  that a sandbox's jobs are in one queue, which Lookout knows; that what is
  remembered, what Lookout last answered to the caller or to the sweep, and what a
  submit or cancel is about to use is that queue; and that the reconciler never
  resolves a sandbox for which the caller is about to choose a queue. `moved_map` is
  an instance of the third case.
* `KernelsAreAtHome`: `Spec /\ SettledOwners /\ []NobodyMisled => []AtHome`, every
  job is in its owner's queue under the map in force.

The conditions are needed: `second_kernel` has settled owners, two callers and a
call that is misled, `retired_map` a map that is removed, and each violates one of
these properties. With settled owners the second case names the cause exactly: to be
misled is the one step of the code that takes a kernel from its owner's queue, and
with it go the second kernel and the destroy that misses.

### Commands (`ExecCallsProofs`)

Assumed: `Latency + Grace + Latency < Slack`, as in the code (5 s of grace and the
network within 10 s of slack). Any timeout, any amount of output.

* `ResultIsWhole` (`ResultWhole`) and `StreamIsHonest` (`StreamHonest`) rest on the
  invariant `LineInv`: of each stream, what the client has collected, what is under
  way (buffered by `readNdjson`, then on the wire) and what the pipe still holds are
  one sequence cut in three. `InTurn` says that no chunk under way is overtaken or
  missing before another one, `Paired` that pieces alternate whatever is cut,
  `WordInv` that the last word comes after all output. Lemmas on sequences of pieces
  alone show what appending a line, cutting, and taking the first line do.
* `VerdictIsTrue` (`VerdictTrue`): a run says that the command timed out only when
  the agent's own deadline for the call had expired when the command was collected,
  and returns a plain result only when it had not. `Truthful` carries what the exit
  line says through every cut of the response to the client. A command that ended
  by itself just before its deadline may still be called timed out, as in the code.
* `FailureHasCause` (`FailsOnlyForCause`): `GuardInv` says that while the network
  works the client's timer exceeds the time until the agent's last word is read, at
  each place of the handler.

### The agent, port waits and files

* `AgentProcessesProofs`: `StatusIsKept` (`SurvivorKeepsStatus`) and
  `ShutdownIsComplete` (`ShutdownWaitsForTold`), for any number of commands and
  processes and any children they fork. The reaper holds only processes that have
  ended (`ReaperInv`), so it cannot hold one that runs when it is recorded; from
  then to its `Wait` a request is in `children` (`ChildInv`), so `Look` passes it
  over and `Reap` never takes it (`SurvivorInv`); and after the `Wait` its leader is
  gone (`GoneInv`). For shutdown, a process that had been told when the look began was
  in `children` then or had ended (`SightInv`), and one that was in `children` from
  the beginning of the look to its end is found: so a look that finds none has
  outlasted all of them, whatever was stored meanwhile.
* `BoundedReadsProofs`: `RunningIsBounded` (`RunningBounded`), `ReadsStayInside`
  (`OnlyInside`) and `ReadsAreWhole` (`WholeWithinBudget`), for any reads, slots,
  budget and sizes. `SlotsInv` counts: the slots taken are as many as the reads that
  have not returned, answered or not. `Good` follows one read from its walk to its
  answer.
* `PortWaitsProofs`: `OpenPortIsFound` (`OpenPortFound`), `CrashIsReported`
  (`CrashIsNoTimeout`), `WaitIsBounded` (`BoundedWait`) and `AgentIsHeard`
  (`AgentDecides`), for any timeouts, limits, pause and latency such that
  `Latency + Longest + Latency < timeout + Slack`. `LoopInv` says that the deadline
  left and the time spent add up, and that a running probe or pause ends in its
  share; `GuardInv` that the client's timer always exceeds what is still to come;
  `SteadyInv` that, while its caller waits, an open port is being probed with time to
  answer.
* `FilesProofs`: the lemma `ReadsImplementWrites` (`ReadsSpec => Spec`), which holds by
  the construction of the model, carries the invariant of the writes over to a system
  that also reads. From that invariant follow `ResolvedIsWritten` (`WrittenWhenResolved`),
  `ChunksInOrder` (`EarlierStoredFirst`) and `CutIsHarmless` (`CutTouchesNothing`),
  for any lists, concurrency and number of calls: `ChunksInv` ties a request to its
  chunk, `OkInv` and `CutInv` an answer to the file, `LeftInv` and `SoloInv` say who
  can still write where. `AnswersAreTrue` (`AnswerIsTrue`), `BudgetIsKept`
  (`BudgetKept`) and `GivingUpIsLate` (`GivesUpLate`) are proved for any budgets and
  timers with `Trip` below the slack: `BudgetInv` and `TimeInv` relate the caller's
  fractions to the agent's whole numbers and the clock to the deadline, `SeenInv`
  what the agent saw to the files.

### The installation (`InstallationProofs`)

For any texts, settings and number of changes and restarts.

* `SessionsSurvive` (`SessionSurvives`), `ListsAreOurs` (`ListedIsOurs`) and
  `CredentialsAreCurrent` (`CredentialIsCurrent`). `JobsInv` says that a job is what
  some accepted configuration builds from the environment kept with it, submitted to
  that configuration's server and, where that had no map and the sandbox no other job,
  to its default queue; `RememberedInv` that what a
  process remembers of a sandbox is the queue of a job of it. From these
  `FoundWhereItIs` shows, source by source of `resolve`, that a job of a sandbox which
  has only that one, and is `Findable`, is the one Armada answers with: the memory is
  right, else Lookout shows it under the mark, else there is no map now and was none
  then. Lemmas show that the port, the surfaces and the scheme depend on their own
  variables only, so equal variables give equal addresses.
* `TablesInvariant` (`TypeOK`) and `CommandsSeeInOrder` (`SeenInOrder`): the two
  tables of an instance hold the last value each name was given in the history of
  `setEnvVars` calls. The tables are built by merging and the property looks back
  over the history, so the two agree only by an invariant over its length.
* `OffersAreKept` (`OfferedWorks`): every pod an accepted configuration promises can
  be built. The delicate part is the GPU selector: startup checks the types of both
  profile lists against the configured keys without regard to case, and the pod
  looks the key up again. Entries have an order, so the one that decides is the
  first that matches, whose existence is a well-foundedness argument over the naturals.
  `GpuAssumption` states what the code relies on: marimohub has checked a profile
  list in full (`config.ts:516-521`), so a gpu value has a type, without blanks
  around it.
* `SettingsCount` (`EverySettingCounts`): a variable that is set and accepted has a
  say. The texts an operator may write are a constant, so `ChoicesAssumption` says
  that they include, for each variable, one it is not for: no URL, no number in its
  range, no JSON, a reserved key, an empty name; or a second one where any text will
  do. The variables are grouped by what is read in them, and one lemma for each group
  shows that this text is refused or read as something else. It fails if a variable
  is ever accepted and then dropped: each combination that would ignore one is
  refused at startup instead (`config.ts:243-267`, `305-326`).

### Only model-checked

* Everything under fairness, which this prover cannot do: `Reclaimed`,
  `OrphansReaped`, `AbandonedEnds`, `AnsweredInTime`, `SlotReturned`, `CallEnds`,
  `WaitEnds`, `BoundedSettles`.

## 5. What is not modelled

* **Reuse of pids**, and **paging of `listActive`**: noted as hazards.
* **Authentication between channel and agent**: a request with the wrong token
  changes nothing; a channel to another sandbox's pod has only failing requests,
  which is `Throw`, or, in `Installation`, a pod that is not reached.
* **What is the same in every pod**: names, volumes, the install container.
* **Parsing**: what a text denotes is given; JSON, numbers and URLs are the
  runtime's.
* **`exec` with stdin, encodings, wording of errors, logging, the directory walk
  of a listing.**
* **`gitCloneCommand`**, which is one more command for `exec`.
* Development scripts, stubs for other systems, type declarations.

## 6. Plan

Done, in this order: the lifecycle with its type correctness and queue
theorems; the agent's processes and bounded reads; the wire (`ExecCalls`,
`PortWaits`, `FileWrites`); the client's side of reads; settings, pod spec,
credentials and the environment of commands over restarts; the theorems of
section 4, one for every safety property. What is left: `listActive` by pages over
a table that changes, and whether a later sweep always finds what one missed; reuse
of pids in `AgentProcesses`.
