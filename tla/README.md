# Verification of StrixGLM

TLA+ models of the Go program under `src/internal/app`: a gateway, a paired
inference coordinator and a two-host controller that run one large language
model on two machines, with conversations, coding workspaces, downloads and a
coding agent on top. The models are translated from the source; `PROJECT.json`
maps every definition to the lines it stands for.

## The system

| Part | State it keeps | Operations | Talks to |
|---|---|---|---|
| Paired coordinator (`paired.go`, `cli_extra.go`) | mutex-guarded `busy`, `poison`, `closing`; the durable marker `pair-poison.json`; the flock `pair.lock`; one job goroutine per request | `ServeHTTP`, `admit`, `run`, `drain`, `fail`, `Shutdown` | two rank servers over HTTP; the controller through the flock and the marker |
| Paired stream decoding (`paired.go` 540-888) | per-choice accumulators of one rank's stream | `feed`, `finish`, metric merging | the coordinator's `drain` |
| Whole-pair controller (`controller.go`) | `pair-owner.json`: state, epoch, per rank nonce and InvocationID | `Start`, `Stop`, `Restart`, `Status`, `Verify`, legacy migration | systemd on two hosts (one behind ssh); the shared receipt |
| Shared receipt (`cluster_lease.go`) | `owner.json`: which model owns the cluster, in which state | read, write, `sharedStartAllowed`, `sharedMatchesGLM` | the other model's controller (DS41), lifecycle |
| Model lifecycle (`lifecycle_native.go`, `lifecycle.go`) | in-memory operation, transient state, last error | ON, OFF, `Snapshot`, `ready` | controller, `strixglm-pair.service`, receipt, gateway |
| Gateway (`main.go`, `model.go`) | `modelLock`, readiness gate | HTTP API | everything below |
| Conversations (`conversations.go`, `chat_conversation.go`, `conversations_workspace.go`) | JSON file per conversation, active set | create, update, chat, delete, recovery | gateway, workspaces |
| Workspaces (`workspaces.go`, `workspace_process.go`, `workspace_bridge.go`, `workspace_shell.go`) | session record, agent process, state machine | open, start, prompt, abort, verify, close | agent process over RPC, conversations |
| Workspace protection (`workspace_protection.go`, `sandbox.go`) | managed copy, baseline hashes, apply receipt | prepare, verify, apply | workspaces, file system |
| Apply transaction (`apply.go`) | transaction directory with backups and `receipt.json` | apply, rollback | agent, file system |
| Downloads (`download.go`, `download_network.go`, `catalog.go`) | JSON record per job, partial files, worker goroutine | plan, start, resume, pause, cancel, restart recovery | remote HTTP, file system |
| Operations (`operations.go`) | JSON record per long operation | create, run, cancel, list, shutdown | agent, gateway |
| Coding agent (`agent.go`, `tools.go`) | task history, tool budget | run task, verify, finish | model, sandbox, apply |
| Browser authentication, settings (`browser_auth.go`, `settings.go`) | sessions, lockout counters, settings revision | login, logout, update | gateway |
| Request shaping (`options.go`, `context.go`, `prompt.go`, `attachments.go`, `validation.go`, ...) | none | parsing, limits | gateway |

What makes it hard: two ranks must produce the same generations although either
of them, the coordinator, the client and the controller can stop at any point;
the knowledge of what runs is spread over systemd on two hosts and two files;
every store is a set of JSON files written by goroutines that can be cancelled,
restarted or killed between two writes; and requests are admitted on state that
can change before they use it. `PROJECT.json` lists these hazards with the line
where each bites and the properties that cover it.

## PairedCoordinator and PairLease

`PairedCoordinator` has one action per critical section or system call of
`paired.go`. `proc`, `busy`, `poison`, `lock` are the process's memory and the
flock, `marker` the file, `stage[r]`, `val[r]`, `err[r]`, `cleared[r]` the job
of request `r`, `client[r]` what its client was told, `on`, `gen`, `log` the two
ranks, `mgmt` the position of the controller.

- `admit` is `Refuse`, `ReserveFails`, `Reserve` (one mutex section).
- `run` is `Dispatch`, `CollectOutput`, `CollectError`, `Deadline`, `Disagree`,
  `ClearRefused`, `Clear`, `Refail`, `Publish`, `Finish` (the flock) and
  `Release` (the mutex section that frees the backend).
- `ServeHTTP` after admission is `Respond` and `Disconnect`.
- the process is `Start`, `Signal`, `CleanExit`, `GraceExpires`, `ForcedExit`,
  `Crash`.
- the controller is reduced to `MgmtLock` ... `MgmtUnlock`: what it does to ranks
  and marker under `pair.lock`; its own module has the rest.
- ranks (external): a generation that was started ends with some output, or
  `Bad`, whatever happens to the coordinator; a rank may exit at any time. Ranks
  may give different outputs, and a POST reported as failed may have arrived.

The decisive property is `MarkedUnlessInSync`: if a rank is generating, or if the
two running ranks have different completed generations, `pair-poison.json` is on
disk. A write of `fail` whose error is ignored may leave the disk unchanged, so the
property rests on the marker being created at admission and removed last.
`CompleteMeansAgreed` is an action property over the same steps; `AdmissionFindsPairInSync`
and `MarkerRemovalJustified` are two more, which are proved and in no run; `GenerationExcludesManagement` is what the
comment above `withControllerLock` promises.

`PairLease` is the abstract promise: the pair is leased to one request, the lease
ends in a certificate or in distrust, only certified requests are answered as
complete. `LeaseMode` derives the abstract mode from the marker on disk and from
the existence of a trusted draining job.

Runs: `PairedSafety` (two requests, two outputs, symmetric in both; also the
refinement, `ImplementsLease`) and `PairedLiveness` (one request; without symmetry), whose
`NothingIsHeld` is two promises: a request that was admitted ends (`RequestsEnd`), and so
does a process that was told to (`ShutdownEnds`).
Two requests are enough for one job to race with the admission of another, two outputs
for the ranks to disagree; both ranks, the controller and restarts of the process are
unbounded.

Fairness (`Fairness`): job and handler goroutines that can run do run, the
generation deadline and the grace period fire, a process past its grace period
exits. Nothing is assumed of ranks, clients, the operator, or the controller.
`Dispatch` and `Collect...` are deliberately not fair: a silent rank is what the
deadline is for.

### Proved (PairedCoordinatorProofs)

For every set of requests and outputs: `Spec => []IndInv`, and from it every
safety and action property of `PairedSafety`, `HealthyIdleIsUnmarked` (an idle coordinator
that trusts its pair leaves no marker), `MarkerRemovalJustified` and the refinement. `MarkedUnlessInSync`
alone is not inductive: that agreement on one output makes the pasts of the ranks
equal needs that they were equal but for the job's own generation
(`DrainingHistories`, `NewRequestsLeaveNoTrace`), that the job is alone
(`JobsOwnTheBackend`), and that the controller knows the ranks are off before it
archives (`ManagedRanks`). `HealthyIdleIsUnmarked` needs `MarkerHasAReason`,
`CompleteMeansAgreed` needs `VerdictIsKept`. One lemma per conjunct shows that every
action preserves it. The assumptions are those of the module: the distinguished
values differ from the outputs and requests. `NothingIsHeld` is
model-checked only.

## ClusterController

One step is one systemd command or one durable write of `controller.go`, and the
controller may crash before any of them. `unit` is what systemd runs under the two
unit names, `owner` is `pair-owner.json`, `shared` is the receipt `owner.json`,
`poison` the coordinator's marker; `o`, `mine`, `valid`, `todo`, `failed` are the
local variables of the operation under way and `pc` its position. A write that
fails may have taken effect or not (`SaveFails`: `controllerBytes` can fail after
its rename), a command that fails likewise (`Halt`, `Launch`). Nonces are numbered
by start (`epoch`), InvocationIDs are 0 (not learnt), 1 (as launched) or 2 (restarted by
somebody else). The environment: ranks exit, units are replaced or restarted by
hand, the coordinator poisons, the other model reserves when the receipt says OFF.

`RunningRanksAreRecorded` ties systemd to `pair-owner.json`, `NeverFalselyOff` ties
it to the receipt, `OneModelAtATime` is what both are for. `PoisonOutlivesThePair`,
proved only, says when the marker may go; `EventuallyReconciled` is what an operator who asks
again may count on. `MaxEpoch` bounds the starts that get as far as a
reservation: two are needed for a restart after a failed or stopped start. `faulty`
lets faults cease, for the liveness property.

One run, `Controller`, checks this module together with `LegacyMigration`, which extends it:
its initial states are those with and without an old pair, and without one it is
`ClusterController` alone, with `MaxEpoch = 2`, within the bounds named below.

Fairness (`Fairness`): an operation under way makes progress; an operator who finds
the pair poisoned or not reconciled asks again for a stop; units that are not (or no longer)
the controller's are removed by whoever started them.

`EventuallyReconciled` names two cases that a repeated stop does not lead out of.
`MarkerWithoutRecord`: `start` refuses a poisoned pair with "poison marker requires
whole-pair stop before start" (`controller.go:513`), but `stop` returns before
`archivePoison` when there is no `pair-owner.json` (`controller.go:370-373`), so a marker left
by a coordinator whose pair no controller started stays, and refuses every start, for ever.
And a unit of an overlooked launch, which is next.

`late` is the launches that were reported as failed (or whose controller crashed) and
may still take effect: `ssh` gives up while `systemd-run` on the other host is still on its
way (`InFlight`, `LateLaunch`). They take effect at any later time. When the cleanup or a
stop proves the pair down (`Prove`) with such a launch in flight, no record can tell of the
unit that comes up afterwards: the records say stopped and OFF, and the other model or another
start may run beside it. The code allows this; the history variable `overlooked` holds the
starts it happened to, and the safety properties speak of every other unit (`Ours`). A
launch that takes effect before that proof is covered by them.

### Proved (ClusterControllerProofs)

For every `MaxEpoch`: `Spec => []IndInv`, and from it `RunningRanksAreRecorded`,
`NeverFalselyOff`, `OneModelAtATime` and `PoisonOutlivesThePair`. None of them is
inductive by itself. First, a launch in flight has to be recorded and claimed as if it ran already:
`Answerable(k)` is the starts the controller has to answer for at rank `k`, the one that runs and those in
flight, and `AnswerableAreRecorded` and `ReceiptClaims` say of those what the
properties say of units that run. Second, what a write of the record or of the receipt is allowed to
say depends on what the operation knows. `KnownToOperation` (its copy of the record covers
everything answerable) carries the first across each write, `ProvenDown` (after
`stopUnits`, and after the checks of `start`) the second, `ReceiptHeld` says that nobody
else writes the receipt meanwhile. `UnitStep` is the lemma all of them share: what is
answerable after a step was so before it, or is launched by it. `OneModelAtATime` follows from
`ReceiptClaims` and `DS41HoldsReceipt`. The only assumption is that `MaxEpoch` is a natural number.


## LegacyMigration

The pair that was installed before this one has two ranks and a front end, a record and a
marker of its own, and no coordinator. `controller.go` from line 743 on takes a snapshot of
it once (`Snapshot`), stops it by that snapshot (`StopLegacy`, `RecoverLegacy`: `Look` ...
`RecordOldStopped`) and may bring it back (`RestoreLegacy`: `ReserveOld` ... `Promote`, with
`Undone` for its deferred cleanup). `job`, `at`, `path`, `us`, `rest` are the operation under way,
its position, its snapshot, its list of units and the ranks its goroutines have still to stop;
`old` is what systemd runs under the three names, 1 for the first installation, `Again` = 2 for
a restart by hand, `path + 2` for what a restore of that snapshot launched. `marker` is `frontend-poison.json`,
which the front end itself creates for each request and removes with the answer (external).
`WholeSpec` composes this with the controller: operations of both take the same locks
(`Alone`), `start` asks for the units of both (`OldAsked`), `RestoreLegacy` asks for those of
the new pair (`NewPairStopped`).

- `OnePair`: the two pairs never run beside each other, whatever crashed and whatever the
  records say.
- `StopDrains` is the comment "a request racing this management operation can never
  dispatch" (`controller.go:1025`): it needs the marker to be created exclusively, because the
  front end creates the same one.
- `RestoredAreRecorded` ties systemd to the record, as `RunningRanksAreRecorded` does for the new
  pair.

A launch of the old pair that fails takes effect at its report or not at all (`LaunchOld`):
launches in flight are modelled for the new pair only.

Bounds of the run (`MCLegacyMigration`), none of which the theorems have: one snapshot, so there is one
restore at a time. `Beside`: while an old pair exists the new one is started once, its ranks die
but are not replaced by hand or poisoned, and the other model waits; without an old pair
all of that is examined. `OneInFlight`: a launch of the first start, on the peer, may be in flight.
`OneAtATime`: poison, commands by hand and launches in flight do not meet. Commands
and writes of both may always fail. Fairness: that of the controller, and whoever holds the locks for the old pair gives them back
(`WF_jobVars(Migration)`).

### Proved (ClusterControllerProofs, second part)

For every `MaxEpoch` and every set of snapshots: `WholeSpec => []WholeInv`,
which is `IndInv` of the controller and `OldInv` of the old pair. From it follow the three
properties above and, beside an old pair, also the three of the controller: its own
theorems speak of `Spec` and do not cover `WholeSpec`.

`Either` splits the steps: one of the controller (which leaves `oldVars` alone, and whose
lemmas are reused as they stand) or one about the old pair (which
leaves `vars` alone). `OnePair` is not inductive. It needs that an operation holds the
locks of both (`OneHolder`) and that what it proved at the beginning stays true meanwhile:
a `start` past its checks had the old pair down (`StartedAlone`), a restore past its own the
new one (`RestoredAlone`, which its record proves, launches in flight included). `Turns` proves those four together. `StopDrains` needs that an answer under
way has the marker and ranks that run (`AnswersAreMarked`), and that a stop past its reservation
owns the marker (`StopsBehindMarker`). `RestoredAreRecorded` is carried by
`RestoreCovers`, which says what the list of the operation knows of the units while the
record does not say it yet, and `RestoreLists`; the writes that may say "stopped" follow
`OldProvenDown`.

Observed while modelling, with no property because nothing is promised:

- `RestoreLegacy` does not read the shared receipt: the old pair may start beside DS41. It is
  older than that receipt, and `runtime/README.md:57-62` says who has to look.
- After a restore that failed the record lists other units than the snapshot; a restore or
  stop with that snapshot is refused for ever, and a new one needs all three units. A process
  that ends after one or two launches thus leaves units that no operation can stop.
- A stop that fails behind its marker leaves it: a second stop is refused, and only
  `RecoverLegacy` goes on.
## ApplyTransaction

One transaction of `applyTaskInternal` is a walk through `pc`, one step per entry and
phase: inspect every original, back up, stage, check the complete set, then verify,
rename and record one file after the other; any error leads into the deferred
function (`RollbackEntry`, `Restore`, `Clean`, `Close`). `tree` is the user's repository
with the task's files `1..N` in the order they are applied; those of `New` did not
exist and share a directory that did not exist either. `Edit` and `Revert` are the user
at work between any two steps. `disk` is `receipt.json` and `rcpt` its copy in memory.
A crash ends the task for good: the frozen metadata is not persisted.

A check and the rename that follows are two system calls; `late` remembers edits made
in that window, the only ones a rename may lose. `EditsSurvive` says that nothing
else is ever overwritten, neither by a commit nor by a rollback; the two parts of
`TrailTellsTheTree`, `CrashLeavesATrail` and `ReceiptTracksTree`, are what "keeps backups of replaced files" (`src/README.md:100`)
has to mean when the process dies; `RefusalUndoesEverything` is the contract of the
rollback. Three files are the least with which a middle entry, a first and a last one
differ; two new ones share a directory.

An observation without a run: the receipt is saved once more by the deferred function
after `Applied` has been set (`Close`), and if only this save fails, `finishVerifiedTask`
reports that the application "failed or was refused" (`agent.go:428`) of a patch that is
in the repository. The second half of `ReceiptTracksTree` shows that it is there completely.

### Proved (`ApplyTransactionProofs`)

For any number of files, any set of them new. The three safety properties are not
inductive: they speak of receipt, backups and repository, and what one step does to the
three depends on how far the transaction is. `IndInv` says it: `HowFar` gives what each
file may hold in each phase (before, at or after file `i`), `BackedUp` which originals are
safe on disk, `UndoneSoFar` what the rollback has put back, `EditsAreSeen` that an edit is either
still to be found by a check or late. `Calm`, `Checked` and `Deferred` tie the receipt in memory to the
position. One lemma for each conjunct, with one step for each action. Assumed are only that `N` is
a positive number and `New` a set of files.
## ModelLifecycle

ON and OFF are goroutines of the gateway; `pc` is their position, `op`, `err`, `said` the
fields of `modelLifecycle` that outlive a step. The whole-pair controller appears as
the relation its callers see: an operation takes its three locks without waiting
(`LocksFree`) or fails, and later ends in one of the ways `ClusterController` has
(`StopEnds`, `StopFails`, `StartEnds`, `StartFails`, `Abandon` for a dead process). Every write
of the two records may fail, and those whose error the code drops (`controller.go:381`, `388`,
`390`, `589-598`) fail unnoticed: `MayMiss`, `StopLeaves` and `StartLeaves` say what is left on
disk then, `Held` what a stop makes of a receipt it cannot read. `rank`
holds the epoch of what runs, so "the right pair" is a comparison of numbers; `gen` is
the generation that holds the coordinator's lock and may outlive its gateway; `chat`
is one request between the readiness gate and the release of the gateway's lock.
`Snapshot` is the state shown by `GET /v1/model/lifecycle`, read in one step with both
hosts answering.

`use` is chosen once: "free" is anybody who presses anything at any time, with the low-level
cluster CLI beside the API (`Free`), "guided" an operator who follows the shown state
(`Guided`). One run, `Lifecycle`, has both.

- `AdmissionExcludesManagement` is the reason for three locks: a generation whose
  gateway died must still keep the controller away. `ReadyPairIsOurs` survives every
  order of READY being published and restarts from the CLI. `AnnouncementsAreTrue` (READY was
  probed, OFF was verified) speaks of "normal product use" (`runtime/README.md:81`), as long as the
  CLI has not been used (`byCli`): READY is written over whatever state the receipt
  has, also for an epoch the CLI started after the readiness inference. One exception is part
  of it: `missed`, a history variable, remembers that a stop could not replace the READY by
  STOPPING or UNRECONCILED. The receipt then still says READY over a record that says
  `cleanup_uncertain` or stopped, and over ranks that may be down; the gate stays open only
  as long as both ranks of that receipt answer (`ReadyPairIsOurs`), and `Snapshot`, which looks at the
  record too, shows an error.
- `EventuallyServes` assumes "guided" use, bounded operations, faults that cease before the last
  epoch (`Bound`), and an operator who presses OFF when the state is wrong, when READY refuses
  chats, and after an ON that failed: an OFF that could not prove the ranks stopped
  leaves the receipt OFF and the owner record uncertain, ON is shown as allowed and
  refused. `MaxEpoch = 2` starts may go wrong before the one (`Recovery`) that must succeed; in
  "free" use two starts are enough for a READY of one epoch to meet a pair of another.

Three more things the model shows without a run of their own. A second ON while READY is
refused with `lastError` set (`lifecycle_native.go:453-456`): the gateway then refuses every chat
(`ready`, 271) while `Snapshot` goes on showing READY, until OFF and ON. After a start whose
readiness inference failed, "GLM unloaded" is said whatever became of the unloading
(`Unload` drops the outcome). And the branch "GLM already OFF; no model process touched"
of `stop` is dead: its snapshot reads STOPPING, so an OFF of what is OFF stops coordinator
and controller again (`Drain`, `StopRanks`).

### Proved (`ModelLifecycleProofs`)

For any `MaxEpoch` and `Recovery` and either `use`: `Exclusion`, `PairIsOurs` and
`Announced` state the three safety properties. The invariant that carries them is `OneEpoch`: the ranks
that run, the owner record and the receipt speak of the same epoch, or the receipt is one that a start
left behind its record. `ReadyWasProbed` and `OffWasVerified` follow
the positions of ON and OFF, `ControllerIsSomebodys` says who holds the controller's lock. Each action
has a lemma for what it does to record and ranks (`...Does`), and `Left` is what all operations of the
controller have in common, however they end or die: no new READY, no rank of another epoch. From those
the conjuncts follow. `EventuallyServes` is only model-checked.
## CodingTask and TaskPromise

A coding task is a goroutine (`runTask`), and `pc` its position; the verdict of an attempt
("PASS", "FAIL", ...) is the position in which it is settled. `status`, `ctx`, `fails`, `applied`
are the fields of `Task` others can see, `repeats` and `auto` what only the goroutine reads.
`disk` is the status in `result.json`. `Task.save` is two steps (`Snap`, `Write`), because the
snapshot is taken under the task's mutex and written without it; `to` is where the
goroutine goes after the save, `shot` what it writes. The handlers do the same in
`RequestSnap` and `RequestWrite` with `reqShot`. Any of these writes may fail, and then nobody
hears of it (`_ = writeJSON(...)`, `agent.go:150`). `behind` is a history variable: it is set by
a write of the goroutine that fails, by a handler whose snapshot is out of date when it writes it,
and by a handler that applies the patch of a task whose PASS is not on disk yet; the next
successful and current write clears it. `submit` is the handler that submits the
task, `req` one that cancels or applies it (one at a time for each task). `gen` is the
holder of `App.admission` and of the legacy lock; `Chat` stands for every other
generation of the gateway. `shut` follows the shutdown of `serve`, with a deadline that may
expire at any wait (`Expire`).

What the tests print is one of `Feedback`, with `Silent` for nothing at all: the initial
value of `lastFailure` is the same string. Whether a patch applies is a choice here and
the subject of `ApplyTransaction`.

- `CodingTaskRun` has one task, two failures, two repairs: the least with which a task gives up
  before its repairs are used, because a failure repeats, and otherwise when they are. More tasks meet only in
  `gen`, where `Chat` takes the place of the other one; the safety properties are proved
  for any number. `DiskTells` (what is finished is on disk, what is
  applied was announced there) holds unless the file is `behind`, and these exceptions are the
  code's: a task that passed can be INTERRUPTED after a restart, because the last write failed
  or because a handler that answers a cancel wrote an old snapshot over it, in
  spite of "Persisted results/diffs survive gateway restarts"
  (`docs/REFERENCE_DEPLOYMENT.md:258`), which makes no exception. What the property says is that there
  is no other way.
- A task that fails twice without output ends with "same failure three times"
  (`agent.go:411`): the first failure counts as a repetition of the initial `lastFailure`. The model has it
  (`LastFailure`), and no property excuses it.
- `KeepsPromise` is the refinement of `TaskPromise`: `Task.done` is closed once, on a result
  that stays, and CANCELLED only after a cancel or a shutdown. The converse does not
  hold and is not promised: a cancelled task may pass and even be applied, if the cancel
  came after its last test (`finishVerifiedTask` reads no context).
- Fairness of `CodingTaskRun`: goroutines and handlers run (`WF`), a generation ends by its
  timeout however often progress is saved meanwhile (`SF` of `Generated`), and a channel
  serves its senders in turn (`SF` of `Acquire`). `TasksEnd` needs `Renounce`: a cancelled task
  leaves the queue for the model at once.
- `CodingExit` fails: the shutdown collects tasks before the last handler has ended.

Proved in `CodingTaskProofs`, for any set of tasks, failures and number of repairs: `IndInv`
is inductive, and from it follow the safety properties and the refinement the run
checks, `AppliedMeansPassed` (a patch is in the repository only for a task that passed) and
`TerminalIsFinal` (no end is taken back). `IndInv` speaks of one task at a time (`TaskInv`): the status follows
the position, a save under way has the current status in hand once the status is final
or "applying", and an applied patch belongs to a task at the end of its life. The shutdown and the holder of the model do
not occur in it, which is why the number of tasks does not matter. The assumptions are
that the two names `Nobody` and `Chat` are no tasks, that `Silent` is a failure and that
`MaxRepairs` is a number.

## Downloads

One worker goroutine transfers the files of the active job; `pc` is its position in
`transfer`, `cur` the file, `ver` the version of the source whose response it reads.
`status`, `fstat`, `tag` are the job in memory, `dstatus`, `dfstat`, `dtag` the same in
`job.json`; a receipt whose write is reported as failed may have taken effect (`Unpersisted`).
`part`, `synced`, `final`, `durable` are the `.part` file, how much of it was synced, the
hard link under the final name and whether its directory entry was synced. `Crash` loses
the memory, `PowerLoss` also any suffix and any entry that was not synced (a file
system may do worse to what was not synced; only a pinned hash would notice).
Handlers take the mutex once and are one step (`Plan`, `Start`, `Stop`, `Close`);
`newDownloadManager` is `Restart` or, if a receipt cannot be written, `RestartFails`.

The content of a file is a sequence of chunks, each from one version of the source, so
that a file spliced from two versions is a value of its own (`Genuine`). The source of a
direct URL may change at any moment and sends its validator or not; files of a
repository are pinned to a commit.

- `PublishedIsGenuine`: no order of interruptions, resumes and changes of the source
  publishes a spliced or wrong file. Validator, refusal of a resume with nothing to
  compare, and hash each cover what the others let through.
- `CompleteIsDurable` and `PartialsArePreserved` compare receipt and disk across crashes and
  losses of power.
- `ResumeCompletes` (workers end, and jobs complete when resumed) assumes a scheduled worker, a server that answers or
  is given up (90 s without a byte), an exit and a restart that take place, and somebody
  who resumes. `Hopeless` names what no resume repairs: a changed source, a `.part` begun
  with nothing to tell its version by, and a process that ended between link and receipt.

The last of these contradicts "Gateway interruption recovers an active receipt as
`PAUSED`" (`docs/DOWNLOADS.md:28`): recovery finds a final name without a record, calls the
job FAILED and no resume is accepted, although the file is whole. A second observation
has no property because nothing is promised: a cancel that arrives while a file is
being finished has its CANCELLING overwritten by VERIFYING or RUNNING (`Mark`,
`Record`), and the job ends PAUSED.

The run has a repository job with a file of two chunks and an empty one, and a direct job
of the first alone: two chunks are the least that can be spliced, the second file goes
through publication without a request. One job: others meet it only at `active`.

### Proved (DownloadsProofs)

For any files of any size and any set of versions: `Spec => []Inv`, and from it `TypeOK`,
`PublishedIsGenuine`, `CompleteIsDurable`; `PartialsArePreserved` is proved as an action property.
Assumed is what the module assumes: sizes are natural numbers (`SizeAssumption`), `Nobody` and `NoTag`,
`NoHash` are no job and no version (`NameAssumption`), there is a version
(`VersionAssumption`).

- Genuine: where no hash will tell, a `.part` is of one version, and a validator in the job or in
  its receipt is that version's (`Unspliced`). `WorkerKnows` says what each position of the worker has seen:
  a request is made only with something to compare (`Told`), and the response being read is of the
  version of what it is appended to (`OfResponse`).
- Durable: `DiskOrder` is the order of the writes (bytes before the name, the name before the
  receipt), which is what a loss of power leaves true; that no step but `PowerLoss` takes
  anything from the disk is `DiskMoves`.
- Kept: each step appends to one `.part` or removes one whose file is published
  (`Prefix`, `SamePrefix`).

`ResumeCompletes` is liveness and stays with TLC.

## Operations

`OperationJob` is the record of an operation (memory, `job.json`, context, position of its
goroutine), `OperationDownload` adds `downloadPinnedOperation` with the files it works on,
`Operations` everything else of `operations.go`: the manager, `start`, the cancel
handler, the coding, chat and historical operations, recovery and the shutdown of
`main.go`. Coding tasks are taken at their word: `Operations` extends `TaskPromise`, which
`CodingTask` is shown to keep, and operations keep the same promise to those who wait
on `OperationJob.done` (`KeepsPromise`). Each write of `job.json` may fail (`Update`);
where the code ignores that error, memory and file part ways (`Saved \/ Unsaved`). Of a
status that is not terminal the file is only asked whether it is (`"unfinished"`).

- `NothingRunsOn` has two parts. `TasksAreWatched`: on every way out of `codingOperation` the task is awaited; a task
  that runs has been listed, or is about to be given up by the operation that waits. `ClosedMeansDrained`: after
  `shutdownOperations` a manager that existed has nothing under way and starts nothing for a
  late handler.
- `PassIsEarned` relates PASS to the results of the tasks themselves, to the answered
  requests, or to the published file after any loss of power.
- `FilesAreKept`: nothing under the final name is overwritten, nothing received is
  dropped.
- `OperationsEnd` assumes scheduled goroutines, tasks that end, generations that end by their
  timeout and senders on `App.admission` that are served in turn. Nothing is assumed of a
  download server: a download need not end unless it is cancelled.

`kind` is fixed for a job and drawn from `Kinds`: two downloads of one asset, a coding run or
a measurement beside a request that is not on the list. Two fixtures are the least
that tell "all" from "the last", two chunks the least that can be resumed. `Verdict`
leaves PASS and one other result of a task: nothing else is told apart.

### Proved (OperationsProofs)

For any jobs, kinds, tasks, sizes and number of steps: `Spec => []Inv`, and from it `TypeOK`,
`NothingRunsOn`, `PassIsEarned`; `FilesAreKept` as an action property, and that operations implement
`TaskPromise` (`KeepsPromise`). The assumptions are those of the modules: `SizeAssumption`,
`StepsAssumption`, `KindsAssumption`, `NobodyAssumption`.

- `OperationsAreAlone` (the file lock has one holder) is what makes facts about the files facts of the one
  operation that is at work; it is a theorem of its own.
- `RecordFits` and `KindFits` tie the position of a goroutine to the status it has written and
  to what it may be doing.
- `ActiveIsKnown` (the manager names the operation under way, and a closing one waits for it) gives the second
  part of `NothingRunsOn`; the first is inductive with `Counted`.
- PASS: `Established` follows a download from bytes that are verified and synced, to the link, to
  an entry that is `settled` for ever; `Counted` and `EarnedSoFar` follow a run from "all passed so far" to
  "all".
- The refinement maps a step to one of `TaskPromise` or a stutter, case by case: `Born` where an operation
  starts, `Tell` for a cancel or shutdown, `Over` where its goroutine gives back the lock,
  `Forgotten` when the process ends.

`OperationsEnd` is liveness and stays with TLC.

Observed while modelling, with no property because nothing is promised:

- The manager exists from the first request on `/v1/operations` only. If the first one
  is a handler that was let through before the shutdown began, `shutdownOperations` has
  found nothing to close, and the operation it starts is neither cancelled nor awaited.
- A process that ends between the creation of a download's receipt and its text
  (`operations.go:887-894`) leaves a receipt that "differs" from every pin: the
  asset cannot be resumed until somebody removes it.
- An INCOMPLETE that clients can already see becomes CANCELLED if a cancel or the
  shutdown came first (`operations.go:414-417`).
- If the last write of `job.json` fails, clients see PASS until a restart makes it INTERRUPTED.

## Conversations

`PiSession` is a coding session of `workspaces.go`: `op` tells what holds `opMu` and where it
stands, `rpc` the call of Pi it waits for, `turn` the turn of the agent as far as scanPi
has read it, `scan` what scanPi itself is doing, `check` the verification. The state of the
session is set by all of them, which is the difficulty. `Conversations` adds the record
with its messages as a set, the chats that write to it (`chat` is the position of
`proxyAuthorizedChat`), one browser with the copy it has loaded (`tab` compares its revision
with that of the record) and one upload. A write is refused, succeeds, or succeeds and is
reported as failed because the sync of the directory is (`Outcomes`). Messages of the coding
session are one element, since no property tells them apart; a status is `pending` or not.

- `OneAtATime`: two chats, or a chat and a turn of the agent, never run on one conversation.
  Exempt (`late`) is a turn of which the session lost track: one that Pi began although
  the prompt was reported as failed, or one begun when the end of the turn before had been
  read but not yet written to the state.
- `RepliesSettle`: an answer is pending only as long as its chat runs, but for two cases in which
  the code leaves it pending although `chat_conversation.go:90` ("nor leave the browser polling
  a permanently pending record") and `docs/CONVERSATIONS.md:42` ("it does not leave a permanently
  live spinner") say so without exception. `lost`: the write that settles it failed, the second one
  of `save` or the one of `initializeLocked`, which sets `initialized` before it
  and is not tried again (`conversations.go:340`). `stranded`: the second append of
  `conversationChat.start` was reported as failed after its rename
  (`chat_conversation.go:72`); the request is refused, and no write that settles its answer is tried before
  the next start of the gateway. The property shows that there is no third case.
- `HistoryIsKept`: a save removes only what its browser has seen, and nothing of the agent.
- `AttachmentsAreKept`: an upload outlives everyone who refers to it, unless a deletion
  stopped half way (`torn`): that record then refers to uploads that are gone.
- `DeletedStaysDeleted`: nothing that was under way brings a record or session back.

`Bounded` is a state constraint: the second chat only without a session, so each pair
of actors meets but not all three; and an answer that is lost or stranded is followed on
only without a session, since nothing a session does settles one. One session per conversation; the upload is referred to
by the first chat, so there is a message with it and one without. Removing a directory is
one step.

Observed while modelling, with no property of their own:

- A verification that waits for `opMu` while the session is closed runs afterwards; if the
  conversation is deleted meanwhile, its receipt makes the session's directory again
  (`Checked`, `dir = "remains"`), and nobody removes it.
- scanPi takes `opMu` in `beginVerification`; an abort or close that holds it waits for an
  answer that only scanPi can deliver (`BeginVerification`, `Answer`). Nothing in the gateway ends
  that: see `VerificationsEnd` of the next module.
- `agent_start` makes a session RUNNING whatever it was, CLOSED included (`AgentStart`); with
  the process gone, close then fails until a restart, and the conversation cannot be deleted.
- If the link of a new session to its conversation cannot be written, the directory stays
  and appears as a closed session after the next restart (`Create`, `"unlinked"`).

### Proved (SessionProofs)

For every set of chats, whichever of their messages refer to the upload: `Spec => []Inv`, and from it the five
properties above. `Inv` consists of `SessionInv`, which speaks of the session alone (in `PiSession`), of the
properties that are invariants, and of what the others need.

`OneAtATime` is the hard one. Chats ask for the state of the session, prompts ask for active
chats; but scanPi, `Waited` and the verification set that state whatever the session does. What
the tests rely on is `TurnIsTold`: while a turn goes on of which the session has not lost track, it is RUNNING or
ABORTING; or it is VERIFYING because the turn *before* ended, and scanPi, which is not done
with that, hands over no answer to the new prompt. Nothing could tell of a turn unless the operation that
begins it does first: `PromptIsTold`. And an operation that needs an idle agent keeps the others
out by `opMu`, not by the state: `HolderFindsNone`. The three are inductive together
(`TurnStep`, `PromptStep`, `HolderStep`). None of the cases can be left out: without the VERIFYING of the turn
before, TLC finds a reachable state that `TurnIsTold` excludes.

`Settling` says more than `RepliesSettle`: a pending answer is of a chat that is *started*, or of one that the last
run of the process left behind and `Initialize` will find. `CopyIsTrue` is why comparing the revision is
enough for `HistoryIsKept`: a copy of the current revision is the record. `DeletedWasThere`
keeps `Create` from making a session in the place of a deleted one, for `DeletedStaysDeleted`.

## WorkspaceProtection

A session with protection works on a copy of the user's project. `original` and `working` are
the two trees, as functions from `File`: a file is as in the snapshot (`"old"`), as Pi left it,
deleted, or as the user edited it. `Candidate` are the trees the copy may come to, `Good` those on
which the user's build and tests pass; `Good` speaks of whole trees, since a change may
pass only together with another. `verdict` and `tree` are the record of the last verification with
the hash of what it was about, `last` and `natural` the outcome of the agent's turn and what
the queued verification makes of it. `WorkspaceProtection` extends `PiSession` (as
`Conversations` does): turns, shell commands, `opMu`, scanPi and restarts are its actions, to
which this module adds what they do to the verdict.

- `CreateProtected`, `Configure` are `createConfigured`; `BeginTurn`, `Send`, `CutTurn`, `Shell`, `Shelled`,
  `Ended`, `Disqualified` are the handlers and events that void a verdict. The last two are the two
  mutex sections of `onProtectionAgentEnd`; `Close` and `Drain` are close and the `abortLocked` it
  calls, which asks for the state once more.
- `BeginChecks`, `ReadCandidate`, `Judge` are `beginVerification` and the goroutine it starts;
  `Review` compares again whenever the record is shown.
- `Apply`, `Replace`, `Refused`, `Undo`, `EndApply` are `applyProtection` over the steps of
  `ApplyTransaction` it calls. `Work` and `Edit` are the agent and the user at any moment.

`AppliedPassedAsAWhole` says what the feature is for: the project holds a tree that passed, not
a tested set of replacements over something else. `ApplyFindsAgentIdle` is "Apply requires an
idle session" (`workspace_protection.go:640`); the state it asks is written by scanPi, the
checks and the wait for the process too, which is why it is a property of orders and not of
a guard. `VerificationsEnd` says that a session does not stay VERIFYING, with one exception that
the code has: scanPi waits for `opMu` in `beginVerification`, and an abort or close that holds it waits
for an answer only scanPi delivers. The server sets that wait no limit (`workspaces.go:408, 410,
616`): it ends when the process does, or the client of the abort gives up, as the
bundled browser does after 15 s (`web/app.js:233`) and another one need not. Close also waits for whatever the session's processes have begun at
its bridge (`workspaces.go:824`). The property allows exactly
these outcomes (`Endless`) and no other: not a verification that nobody begins, not
checks that never get `opMu`, not an abort that waits for a process that is gone.

Runs: `Protection` (two files, four candidates: a change that needs the other file as
it was or changed, and fails without it) and `ProtectionCut`, which fails: a turn that was cut is to
stay INCOMPLETE (`docs/PROTECTED_WORKSPACES.md`), but a verification that was queued
before that turn finds `completion` of the turn before, and its record is a
TEST_PASS that can be applied.

Fairness: callers that hold `opMu` go on, because their waits have a limit (start, prompt and shell
commands, the checks) or end with the process, except in `Endless`, the waits of abort and close
for a live process and its bridge, of which nothing is assumed; scanPi runs (`WF` of `Ended`, `Disqualified`); `SF` where a
goroutine waits for `opMu`, because a `sync.Mutex` in starvation mode is handed over. Nothing is
assumed of the agent or of clients.

Observed while modelling, with no property because nothing is promised:

- After one apply the snapshot is still the one of the creation: the project differs from it
  now, and later applies of the session are refused.
- A start that fails before the launch releases the reservation of Pi all the same.
- A session closed while PREPARING becomes CONNECTED again (`Configure`).

### Proved (SessionProofs, second part)

`SessionProofs` extends this module and `Conversations`, which share `PiSession` and no names, so that
`SessionInv` and the lemmas about its steps serve both; the shell, the apply and
the creation, which `Conversations` does not have, keep it too (`CommandStep`,
`ProtectedSession`). For every `File`, `Good` and every `Candidate` that consists of trees of the project
(`CandidateAssumption`): `ProtectedSpec => []ProtectedInv`. From that follow:

- `ApplyFindsAgentIdle`, which is part of `HolderFindsNone`. `Configure` sets the state without
  holding `opMu` and without looking at it; it does no harm because nothing but a close or an abort without
  an answer can come before it (`FreshIsIdle`).
- `AppliedPassedAsAWhole`, from `PassedIsApplied`: a record of a pass is of a tree that passed
  (`PassIsTrue`), whoever voids or replaces it meanwhile; and while an apply goes on,
  the original is the candidate but for the files yet to be replaced, unless the user
  edited it (`Replacing`). The whole tree, and not only the files that were replaced, because `Apply`
  compared the whole original with the snapshot.

## How the modules compose

| Module | Built on | Proofs |
|---|---|---|
| `PairedCoordinator` | refines `PairLease` | `PairedCoordinatorProofs` |
| `ClusterController` | | `ClusterControllerProofs` |
| `LegacyMigration` | extends `ClusterController`: one state space, the same locks | `ClusterControllerProofs`, second part |
| `ModelLifecycle` | the controller as the ends its callers see | `ModelLifecycleProofs` |
| `ApplyTransaction` | | `ApplyTransactionProofs` |
| `CodingTask` | refines `TaskPromise` | `CodingTaskProofs` |
| `Operations` | extends `OperationDownload` and `OperationJob`, refines `TaskPromise` | `OperationsProofs` |
| `Downloads` | | `DownloadsProofs` |
| `Conversations`, `WorkspaceProtection` | extend `PiSession` | `SessionProofs` |

The modules whose name begins with `MC` give TLC its constants; a module without one gets them
from its `.cfg`.

## What is proved and what is only model-checked

Every safety property of the passing runs is a theorem for all values of the constants, and so are the refinements of
`PairLease` and, by `CodingTask` and by `Operations`, of `TaskPromise`.
`PartialsArePreserved`, `FilesAreKept`, `HistoryIsKept`, `DeletedStaysDeleted` and `AppliedPassedAsAWhole` are
action properties and proved too. Only model-checked is every liveness property: what holds under
fairness, and `ENABLED`, cannot be proved with the provers at hand. That concerns
`NothingIsHeld`, `EventuallyReconciled`, `EventuallyServes`, `TasksEnd`, `ResumeCompletes`, `OperationsEnd` and
`VerificationsEnd`.

Each inductive invariant was an invariant of a TLC run on the instance of the module's run before
it was proved.

## Plan

Done, in this order: `PairedCoordinator` with `PairLease` and `ClusterController` (both proved);
`ModelLifecycle`, `ApplyTransaction` (both proved); `CodingTask` with `TaskPromise` (proved),
`Downloads`, `Operations` over `TaskPromise`; `Conversations` over `PiSession`; `LegacyMigration`
over `ClusterController`; `WorkspaceProtection` over `PiSession`.

The proofs followed the same order: then `LegacyMigration`, `Downloads`, `Operations`, and last, over what
they share of the session, `Conversations` and `WorkspaceProtection`. Next:

1. What the proofs showed to carry the safety of a component, but no theorem states yet: that after a deletion which
   stopped half way only that record is affected (`torn` of `Conversations`).
2. The step behind `EventuallyReconciled` that is safety: a remnant of the controller, other than the two it
   names, always has a stop that is allowed.

## Not modelled, and why

- Paired stream decoding (`paired.go` 540-888): a fold over the events of one rank, of which the
  coordinator uses only whether the result is usable and equal to the other's. Both outcomes
  are choices in `PairedCoordinator`.
- Chat tools (`tools.go`): a budget and a list of answers that live as long as one request.
- Browser authentication and settings: one map under one mutex each, which nothing that is
  modelled here reads between two steps.
- Request shaping (`options.go`, `context.go`, `prompt.go`, `validation.go`, ...): parsing and
  limits without a state.
- Of workspaces: files, SSH, presets, the bridge and the shutdown of all sessions at once. A
  remote session has the same `opMu`, states and agent protocol behind another transport.
- Of conversations: titles, import, handoff to a coding task and the recovery of sessions
  without a conversation. Of downloads: search and listing. Of the lifecycle: memory figures
  and the external command of an installation without the native controller.
- The engine, the generated test suites, shell scripts and network files: no logic of this
  program.
