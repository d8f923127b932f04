----------------------------- MODULE Operations -----------------------------
(***************************************************************************)
(* Operations of the gateway (operations.go): allowlisted jobs, one at a   *)
(* time, that submit frozen coding tasks, measure the model, or download a *)
(* pinned asset.  A manager made by the first request starts them; beside  *)
(* their goroutine run cancel handlers, the shutdown of main.go, crashes   *)
(* and another gateway on the same host.  Coding tasks are what            *)
(* TaskPromise says of them; every task here was submitted by an operation.*)
(***************************************************************************)
EXTENDS OperationDownload, TaskPromise, FiniteSets

CONSTANTS
    Steps,    \* how many fixtures or requests an operation has
    Kinds,    \* what the jobs may be asked to do: a set of [Job -> kind]
    Verdict,  \* the results of tasks that are told apart
    Nobody, Others

ASSUME StepsAssumption == Steps \in Nat
ASSUME KindsAssumption == Kinds \subseteq [Job -> {"coding", "model", "download", "unlisted"}]
ASSUME NobodyAssumption == Nobody \notin Job \cup Task /\ Others \notin Job \cup {Nobody}

VARIABLES
    kind,     \* [Job -> OperationJob.ActionID by kind, or "unlisted"]
    step,     \* [Job -> fixtures or requests that are done]
    tasks,    \* [Job -> its tasks]: OperationJob.TaskIDs
    task,     \* [Job -> the task it observes, or Nobody]
    passed,   \* [Job -> BOOLEAN]: allPassed
    manager,  \* "none", "open", "broken" or "closing"
    active,   \* operationManager.active
    flock,    \* who holds the file lock of operations: a job, Others or Nobody
    gen,      \* who holds the model lock: a job, Others or Nobody
    shut,     \* position of the shutdown, "no" until App.closing
    late,     \* the jobs whose POST was let through before that
    awaited   \* the operation, then the tasks, it waits for

work == <<kind, step, tasks, task, passed>>
locks == <<active, flock, gen>>
process == <<shut, late, awaited>>
outside == <<manager, process>>
vars == <<job, files, promise, work, locks, outside>>

Init ==
    /\ JobInit /\ DownloadInit /\ PromiseInit
    /\ kind \in Kinds
    /\ step = [j \in Job |-> 0] /\ tasks = [j \in Job |-> {}] /\ task = [j \in Job |-> Nobody]
    /\ passed = [j \in Job |-> TRUE]
    /\ manager = "none" /\ active = Nobody /\ flock = Nobody /\ gen = Nobody
    /\ shut = "no" /\ late = {} /\ awaited = {}

-----------------------------------------------------------------------------
(* The manager *)

(* operationsFor: what job.json shows as unfinished was INTERRUPTED.       *)
Recovered(s) == IF s = "unfinished" THEN "INTERRUPTED" ELSE s

Open ==
    /\ manager = "none" /\ (shut = "no" \/ late # {})
    /\ \/ /\ manager' = "open"
          /\ status' = [j \in Job |-> Recovered(disk[j])]
          /\ \E S \in SUBSET Job : disk' = [j \in Job |-> IF j \in S THEN status'[j] ELSE disk[j]]
       \/ manager' = "broken" /\ UNCHANGED <<status, disk>>
    /\ UNCHANGED <<ctx, pc, err, files, promise, work, locks, process>>

(* Mutation: a manager that is closing is not asked.                       *)
Start_Closing(j) ==
    /\ shut = "no" \/ j \in late
    /\ kind[j] # "unlisted" /\ disk[j] = "none"
    /\ manager \in {"open", "closing"} /\ active = Nobody /\ flock = Nobody
    /\ active' = j /\ flock' = j
    /\ status' = [status EXCEPT ![j] = "queued"] /\ Saved(j) /\ Goto(j, "begin")
    /\ late' = late \ {j}
    /\ UNCHANGED <<ctx, files, promise, work, gen, manager, shut, awaited>>

(* start, under the mutex of the manager.                                  *)
Start(j) ==
    /\ shut = "no" \/ j \in late
    /\ kind[j] # "unlisted" /\ disk[j] = "none"
    /\ manager = "open" /\ active = Nobody /\ flock = Nobody
    /\ active' = j /\ flock' = j
    /\ status' = [status EXCEPT ![j] = "queued"] /\ Saved(j) /\ Goto(j, "begin")
    /\ late' = late \ {j}
    /\ UNCHANGED <<ctx, files, promise, work, gen, manager, shut, awaited>>

StartRefused(j) ==
    /\ j \in late /\ manager # "none" /\ late' = late \ {j}
    /\ UNCHANGED <<job, files, promise, work, locks, manager, shut, awaited>>

(* Mutation: a job that has ended is cancelled as well.                    *)
Cancel_Anytime(j) ==
    /\ shut = "no" /\ status[j] # "none"
    /\ status' = [status EXCEPT ![j] = "cancelling"] /\ ctx' = [ctx EXCEPT ![j] = TRUE]
    /\ UNCHANGED <<pc, err, files, promise, work, locks, outside>>
    /\ Saved(j) \/ Unsaved

(* POST .../cancel *)
Cancel(j) ==
    /\ shut = "no" /\ status[j] # "none"
    /\ IF status[j] \in Terminal THEN UNCHANGED <<status, ctx>>
       ELSE status' = [status EXCEPT ![j] = "cancelling"] /\ ctx' = [ctx EXCEPT ![j] = TRUE]
    /\ UNCHANGED <<pc, err, files, promise, work, locks, outside>>
    /\ Saved(j) \/ Unsaved

-----------------------------------------------------------------------------
(* The goroutine of an operation: its beginning and its end *)

Alone == UNCHANGED <<files, promise, work, locks, outside>>

Begin(j) ==
    /\ At(j, "begin") /\ Alone /\ UNCHANGED ctx
    /\ status' = [status EXCEPT ![j] = "running"] /\ Update(j, "execute")

(* run: the pinned inputs are read, or the asset looked up.                *)
Execute(j) ==
    /\ At(j, "execute") /\ Alone /\ UNCHANGED <<status, disk, ctx>>
    /\ Goto(j, IF kind[j] = "download" THEN "receipt" ELSE "next") \/ Fail(j)

Outcome(j) ==
    IF ctx[j] THEN "CANCELLED"
    ELSE IF status[j] \in Terminal THEN status[j]
    ELSE IF err[j] THEN "FAIL" ELSE "PASS"

Finish(j) ==
    /\ At(j, "finish") /\ Alone /\ UNCHANGED ctx
    /\ status' = [status EXCEPT ![j] = Outcome(j)]
    /\ Goto(j, "free") /\ (Saved(j) \/ Unsaved)

(* The deferred functions: the manager is free, then the file lock, then   *)
(* those who wait for OperationJob.done.                                   *)
Free(j) ==
    /\ At(j, "free") /\ Goto(j, "unlock") /\ active' = Nobody
    /\ UNCHANGED <<status, disk, ctx, files, promise, work, flock, gen, outside>>

Unlock(j) ==
    /\ At(j, "unlock") /\ pc' = [pc EXCEPT ![j] = "done"] /\ flock' = Nobody
    /\ err' = [err EXCEPT ![j] = FALSE] /\ passed' = [passed EXCEPT ![j] = TRUE]
    /\ task' = [task EXCEPT ![j] = Nobody]
    /\ UNCHANGED <<status, disk, ctx, files, promise, kind, step, tasks, active, gen, outside>>

-----------------------------------------------------------------------------
(* codingOperation, and the requests of chatOperation and                  *)
(* historicalOperation *)

Coding(j) == kind[j] = "coding"

NextStep(j) ==
    /\ At(j, "next") /\ Alone /\ UNCHANGED <<status, ctx>>
    /\ IF step[j] = Steps
       THEN /\ pc' = [pc EXCEPT ![j] = "finish"] /\ err' = [err EXCEPT ![j] = ~passed[j]]
            /\ Unsaved
       ELSE IF ctx[j] THEN Fail(j) /\ Unsaved
       ELSE \/ Update(j, IF Coding(j) THEN "submit" ELSE "lock")
            \/ Saved(j) /\ Fail(j)

Kept(j) == UNCHANGED <<files, kind, locks, outside>>

(* Every task has its own identity.                                        *)
Submit(j) ==
    /\ At(j, "submit") /\ UNCHANGED <<status, disk, ctx, step, tasks, passed>> /\ Kept(j)
    /\ \/ /\ \E t \in Task : Born(t) /\ task' = [task EXCEPT ![j] = t]
          /\ Goto(j, "list")
       \/ Fail(j) /\ UNCHANGED <<task, promise>>

(* Its identity and a line of log are written; if not, it is abandoned.    *)
(* Mutation: an operation that cannot record its task gives up at once.    *)
List_GivesUp(j) ==
    /\ At(j, "list") /\ UNCHANGED <<status, ctx, promise, step, task, passed>> /\ Kept(j)
    /\ tasks' = [tasks EXCEPT ![j] = @ \cup {task[j]}]
    /\ Update(j, "wait")

List(j) ==
    /\ At(j, "list") /\ UNCHANGED <<status, ctx, promise, step, task, passed>> /\ Kept(j)
    /\ tasks' = [tasks EXCEPT ![j] = @ \cup {task[j]}]
    /\ \/ Saved(j) /\ \E l \in {"wait", "abandon"} : Goto(j, l)
       \/ Unsaved /\ Goto(j, "abandon")

Abandon(j) ==
    /\ At(j, "abandon") /\ Goto(j, "drain") /\ Tell({task[j]})
    /\ UNCHANGED <<status, disk, ctx, work>> /\ Kept(j)

(* A cancelled operation tells its task, and drains it.                    *)
Interrupt(j) ==
    /\ At(j, "wait") /\ ctx[j] /\ Goto(j, "drain") /\ Tell({task[j]})
    /\ status' = [status EXCEPT ![j] = "draining"]
    /\ UNCHANGED <<ctx, work>> /\ Kept(j)
    /\ Saved(j) \/ Unsaved

Drained(j) ==
    /\ At(j, "drain") /\ life[task[j]] = "over" /\ Fail(j)
    /\ Alone /\ UNCHANGED <<status, disk, ctx>>

(* Mutation: the last task decides.                                        *)
Passes_Last(j) == result[task[j]] = "PASS"

Passes(j) == passed[j] /\ result[task[j]] = "PASS"

Observe(j) ==
    /\ At(j, "wait") /\ life[task[j]] = "over"
    /\ passed' = [passed EXCEPT ![j] = Passes(j)]
    /\ UNCHANGED <<status, ctx, task, tasks, promise>> /\ Kept(j)
    /\ \/ Update(j, "next") /\ step' = [step EXCEPT ![j] = @ + 1]
       \/ Unsaved /\ Fail(j) /\ UNCHANGED step

(* modelLock: its file lock is only tried.                                 *)
Acquire(j) ==
    /\ At(j, "lock") /\ ~ctx[j] /\ gen = Nobody
    /\ (gen' = j /\ Goto(j, "generate")) \/ (Fail(j) /\ UNCHANGED gen)
    /\ UNCHANGED <<status, disk, ctx, files, promise, work, active, flock, outside>>

Renounce(j) ==
    /\ At(j, "lock") /\ ctx[j] /\ Fail(j) /\ Alone /\ UNCHANGED <<status, disk, ctx>>

(* The answer, drained whatever the context says: it counts; or it did not *)
(* end by itself (chats only); or it is of no use.                         *)
Generated(j) ==
    /\ At(j, "generate") /\ gen' = Nobody
    /\ UNCHANGED <<ctx, files, promise, kind, task, tasks, passed, active, flock, outside>>
    /\ \/ UNCHANGED status /\ Update(j, "next") /\ step' = [step EXCEPT ![j] = @ + 1]
       \/ /\ status' = [status EXCEPT ![j] = "INCOMPLETE"]
          /\ UNCHANGED step /\ Fail(j) /\ (Saved(j) \/ Unsaved)
       \/ UNCHANGED <<status, step>> /\ Unsaved /\ Fail(j)

-----------------------------------------------------------------------------
(* entry, "serve": shutdown *)

Live(j) == pc[j] \notin {"none", "done"}

Signal ==
    /\ shut = "no" /\ shut' = "operations"
    /\ late' \in SUBSET {j \in Job : disk[j] = "none"}
    /\ UNCHANGED <<job, files, promise, work, locks, manager, awaited>>

(* shutdownOperations closes a manager that exists and cancels what it     *)
(* finds active.                                                           *)
ShutOperations ==
    /\ shut = "operations" /\ shut' = "draining"
    /\ manager' = IF manager = "open" THEN "closing" ELSE manager
    /\ awaited' = {active} \cap Job
    /\ ctx' = [j \in Job |-> ctx[j] \/ j = active]
    /\ UNCHANGED <<status, disk, pc, err, files, promise, work, locks, late>>

ShutTasks ==
    /\ shut = "draining" /\ (\A j \in awaited : At(j, "done")) /\ shut' = "handlers"
    /\ awaited' = {t \in Task : life[t] # "none"} /\ Tell(awaited')
    /\ UNCHANGED <<job, files, work, locks, manager, late>>

(* srv.Shutdown: no handler runs any more.                                 *)
ShutHandlers ==
    /\ shut = "handlers" /\ late = {} /\ shut' = "tasks"
    /\ UNCHANGED <<job, files, promise, work, locks, manager, late, awaited>>

(* The process ends, and is started again.                                *)
Vanish ==
    /\ Forgotten
    /\ status' = [j \in Job |-> "none"]
    /\ ctx' = [j \in Job |-> FALSE] /\ pc' = [j \in Job |-> "none"]
    /\ err' = [j \in Job |-> FALSE]
    /\ step' = [j \in Job |-> 0] /\ tasks' = [j \in Job |-> {}] /\ task' = [j \in Job |-> Nobody]
    /\ passed' = [j \in Job |-> TRUE]
    /\ manager' = "none" /\ active' = Nobody
    /\ flock' = (IF flock \in Job THEN Nobody ELSE flock)
    /\ gen' = (IF gen \in Job THEN Nobody ELSE gen)
    /\ shut' = "no" /\ late' = {} /\ awaited' = {}
    /\ UNCHANGED <<disk, kind>>

Exit == shut = "tasks" /\ (\A t \in awaited : life[t] = "over") /\ Vanish /\ UNCHANGED files

(* The deadline of the shutdown.                                           *)
Expire == shut \in {"draining", "handlers", "tasks"} /\ Vanish /\ UNCHANGED files

Crash == Vanish /\ UNCHANGED files

PowerLoss == Vanish /\ FilesAfterPowerLoss

-----------------------------------------------------------------------------
(* Around the operations: the tasks themselves, the chats of this gateway  *)
(* and the operations of others.                                           *)

TaskOver(t) == Over(t) /\ result'[t] \in Verdict /\ UNCHANGED <<job, files, work, locks, outside>>

OthersTake ==
    /\ \/ flock = Nobody /\ flock' = Others /\ UNCHANGED gen
       \/ gen = Nobody /\ gen' = Others /\ UNCHANGED flock /\ \E j \in Job : At(j, "lock")
    /\ UNCHANGED <<job, files, promise, work, active, outside>>

OthersGive ==
    /\ \/ flock = Others /\ flock' = Nobody /\ UNCHANGED gen
       \/ gen = Others /\ gen' = Nobody /\ UNCHANGED flock
    /\ UNCHANGED <<job, files, promise, work, active, outside>>

Intrusion == Intrude /\ UNCHANGED <<promise, work, locks, outside>>

-----------------------------------------------------------------------------
Transfers(j) == UNCHANGED <<promise, work, locks, outside>> /\ Downloads(j)

Chunk(j) == UNCHANGED <<promise, work, locks, outside>> /\ DownloadChunk(j)

(* What the goroutine does by itself.                                      *)
Runs(j) ==
    \/ Begin(j) \/ Execute(j) \/ NextStep(j) \/ Submit(j) \/ List(j) \/ Abandon(j)
    \/ Interrupt(j) \/ Drained(j) \/ Observe(j) \/ Renounce(j) \/ Generated(j)
    \/ Finish(j) \/ Free(j) \/ Unlock(j)

Handles == Open \/ \E j \in Job : Start(j) \/ StartRefused(j)

Shutdown == Signal \/ ShutOperations \/ ShutTasks \/ ShutHandlers \/ Exit \/ Expire

Next ==
    \/ \E j \in Job : \/ Cancel(j) \/ Runs(j) \/ Acquire(j) \/ Transfers(j) \/ Chunk(j)
    \/ \E t \in Task : TaskOver(t)
    \/ Handles \/ Shutdown \/ Crash \/ PowerLoss
    \/ OthersTake \/ OthersGive \/ Intrusion

Spec == Init /\ [][Next]_vars

(* Goroutines are scheduled, a generation ends by its timeout and senders  *)
(* on a channel are served in turn; tasks end, as TaskPromise says.  A     *)
(* server may leave a download without an answer for ever.                 *)
FairSpec ==
    /\ Spec /\ WF_vars(Handles) /\ WF_vars(gen = Others /\ OthersGive)
    /\ \A t \in Task : WF_vars(TaskOver(t))
    /\ \A j \in Job : /\ WF_vars(Runs(j)) /\ SF_vars(Acquire(j))
                      /\ WF_vars(~At(j, "body") /\ Transfers(j))
                      /\ WF_vars(ctx[j] /\ Transfers(j))

-----------------------------------------------------------------------------
(* Where the goroutine of an operation may stand.                          *)
Submitting == {"submit", "list", "wait", "abandon", "drain"}
Measuring == {"lock", "generate"}
Transferring ==
    {"receipt", "pin", "part", "request", "body", "sync", "hash", "link", "unlink", "dirsync"}
Working == {"begin", "execute", "next"} \cup Submitting \cup Measuring \cup Transferring
Ended == {"free", "unlock", "done"}

JobTypes ==
    /\ status \in [Job -> Status] /\ disk \in [Job -> {"none", "unfinished"} \cup Terminal]
    /\ ctx \in [Job -> BOOLEAN] /\ err \in [Job -> BOOLEAN]
    /\ pc \in [Job -> {"none", "finish"} \cup Working \cup Ended]

FileTypes ==
    /\ dest \in {"absent", "foreign", "ours"} /\ part \in BOOLEAN /\ settled \in BOOLEAN
    /\ bytes \in Seq({"right", "wrong"}) /\ Len(bytes) <= Size /\ synced \in 0 .. Len(bytes)
    /\ pin \in {"none", "torn", "other", "ours"}

TaskTypes ==
    /\ life \in [Task -> {"none", "live", "over"}] /\ result \in [Task -> {"none"} \cup Result]
    /\ told \in [Task -> BOOLEAN]
    /\ task \in [Job -> Task \cup {Nobody}] /\ tasks \in [Job -> SUBSET Task]

WorkTypes ==
    /\ kind \in [Job -> {"coding", "model", "download", "unlisted"}]
    /\ step \in [Job -> 0 .. Steps] /\ passed \in [Job -> BOOLEAN]

ManagerTypes ==
    /\ manager \in {"none", "open", "broken", "closing"}
    /\ active \in Job \cup {Nobody} /\ {flock, gen} \subseteq Job \cup {Others, Nobody}
    /\ shut \in {"no", "operations", "draining", "handlers", "tasks"}
    /\ late \subseteq Job /\ awaited \subseteq Job \cup Task

(* The types of the variables.                                             *)
TypeOK == JobTypes /\ FileTypes /\ TaskTypes /\ WorkTypes /\ ManagerTypes

(* A task that runs is watched by the operation that submitted it, which   *)
(* has said so in its job.json or is about to give it up: on no way out of *)
(* codingOperation is a task left to itself (operations.go:761-785).       *)
TasksAreWatched ==
    \A t \in Task : life[t] = "live" =>
        \E j \in Job :
            /\ task[j] = t
            /\ \/ pc[j] \in {"list", "abandon", "drain"}
               \/ pc[j] = "wait" /\ t \in tasks[j]

(* PASS is earned: every fixture passed, and each by a task of its own;    *)
(* every request was answered; the asset is there under its name, complete *)
(* and to stay, also if nothing but job.json is left to say so.            *)
Earned(j) ==
    CASE kind[j] = "coding" -> /\ Cardinality(tasks[j]) = Steps
                               /\ \A t \in tasks[j] : life[t] = "over" /\ result[t] = "PASS"
      [] kind[j] = "model" -> step[j] = Steps
      [] kind[j] = "download" -> dest = "ours" /\ bytes = Genuine /\ settled

PassIsEarned ==
    \A j \in Job : /\ status[j] = "PASS" /\ ~At(j, "none") => Earned(j)
                   /\ disk[j] = "PASS" /\ kind[j] = "download" => Earned(j)

(* An operation under way is the only one on this host, of this gateway or *)
(* of another (operations.go:370-383 and the deferred functions of 401).   *)
OperationsAreAlone == \A j \in Job : Live(j) => flock = j

(* When shutdownOperations has closed the manager, it has drained it: no   *)
(* operation runs when the tasks are collected, and none begins after that *)
(* (operations.go:104-128).                                                *)
ClosedMeansDrained ==
    manager = "closing" /\ shut \in {"handlers", "tasks"} =>
        \A j \in Job : pc[j] \in {"none", "unlock", "done"}

(* Nothing that an operation started goes on unattended.                   *)
NothingRunsOn == TasksAreWatched /\ ClosedMeansDrained

(* Files that others put under the final name, and what was downloaded so  *)
(* far, are never touched; a loss of power takes only what was not synced  *)
(* (operations.go:1068-1072, "never overwritten").                         *)
FilesAreKept ==
    [][LET n == IF PowerLoss THEN synced ELSE Len(bytes)
       IN  /\ dest = "foreign" => dest' = "foreign"
           /\ SubSeq(bytes, 1, n) = SubSeq(bytes', 1, n)]_vars

(* What those who wait on OperationJob.done see of an operation.           *)
OpLife == [j \in Job |-> IF At(j, "none") THEN "none"
                         ELSE IF At(j, "done") THEN "over" ELSE "live"]

OpResult == [j \in Job |-> IF At(j, "done") THEN status[j] ELSE "none"]

O == INSTANCE TaskPromise WITH Task <- Job, life <- OpLife, result <- OpResult, told <- ctx

(* Operations make the same promise as the tasks they wait for: done is    *)
(* closed once, on one result that stays, and CANCELLED only if they were  *)
(* told to stop (operations.go:401-425 against the cancel handler and the  *)
(* shutdown).                                                              *)
KeepsPromise == O!PromiseSafety

(* An operation comes to its end, a download at least when it is told to.  *)
OperationsEnd ==
    \A j \in Job : Live(j) /\ (kind[j] # "download" \/ ctx[j]) ~> ~Live(j)

-----------------------------------------------------------------------------
(* The strengthening of the safety properties that is inductive.           *)

Underway == {"queued", "running", "cancelling", "draining"}

(* What each position says of the record of the operation.                 *)
RecordFits ==
    \A j \in Job :
        /\ err[j] => pc[j] \in {"finish", "free", "unlock"}
        /\ pc[j] = "none" => status[j] \in {"none"} \cup Terminal
        /\ pc[j] \in Working => status[j] \in Underway
        /\ pc[j] = "finish" => status[j] \in Underway \cup {"INCOMPLETE"}
        /\ pc[j] \in Ended => status[j] \in {"PASS", "FAIL", "CANCELLED", "INCOMPLETE"}
        /\ pc[j] \in Ended /\ status[j] = "CANCELLED" => ctx[j]
        /\ pc[j] # "none" => /\ disk[j] # "none" /\ manager \in {"open", "closing"}
                             /\ kind[j] # "unlisted"

(* What an operation does is what its kind says.                           *)
KindFits ==
    \A j \in Job :
        /\ pc[j] \in Submitting => kind[j] = "coding"
        /\ pc[j] \in Measuring => kind[j] = "model"
        /\ pc[j] \in Transferring => kind[j] = "download"
        /\ pc[j] = "next" => kind[j] # "download"

(* The manager names the operation under way until it is only to give back *)
(* the file lock; that a closing manager waits for it.                     *)
ActiveIsKnown ==
    /\ \A j \in Job : active = j <=> Live(j) /\ ~At(j, "unlock")
    /\ manager = "closing" /\ shut = "draining" => active \in awaited \cup {Nobody}

(* What the transfer has established at each of its positions, and what of *)
(* it is for ever.                                                         *)
Established ==
    /\ settled => dest = "ours"
    /\ dest = "ours" => bytes = Genuine /\ synced = Size
    /\ \A j \in Job :
        /\ pc[j] \in {"pin", "part", "request", "body", "sync", "hash", "link"} => dest # "ours"
        /\ pc[j] = "hash" => synced = Len(bytes)
        /\ pc[j] = "link" => bytes = Genuine /\ synced = Size
        /\ pc[j] \in {"unlink", "dirsync"} => dest = "ours"
        /\ kind[j] = "download" =>
              ((pc[j] = "finish" /\ ~err[j]) \/ status[j] = "PASS" \/ disk[j] = "PASS" => settled)

(* A task of an operation was born for it, and counts for one step.        *)
Counted ==
    \A j \in Job :
        /\ IsFiniteSet(tasks[j]) /\ \A t \in tasks[j] : life[t] # "none"
        /\ pc[j] \in Submitting \ {"submit"} => task[j] \in Task /\ life[task[j]] # "none"
        /\ pc[j] \in Submitting \cup Measuring => step[j] < Steps
        /\ pc[j] = "list" => task[j] \notin tasks[j]
        /\ pc[j] \in {"none", "begin", "execute", "next", "submit", "list"} /\ kind[j] = "coding"
              => Cardinality(tasks[j]) = step[j]
        /\ pc[j] = "wait" => task[j] \in tasks[j] /\ Cardinality(tasks[j]) = step[j] + 1

AllPass(S) == \A t \in S : life[t] = "over" /\ result[t] = "PASS"

(* What allPassed is worth, from the first task to PASS.                   *)
EarnedSoFar ==
    \A j \in Job :
        /\ pc[j] \in {"none", "begin", "execute", "next", "submit"} \cup Measuring /\ passed[j]
              => AllPass(tasks[j])
        /\ pc[j] \in {"list", "wait"} /\ passed[j] => AllPass(tasks[j] \ {task[j]})
        /\ (pc[j] = "finish" /\ ~err[j]) \/ (pc[j] \in Ended /\ status[j] = "PASS")
              => /\ kind[j] = "model" => step[j] = Steps
                 /\ kind[j] = "coding" => Cardinality(tasks[j]) = Steps /\ AllPass(tasks[j])

Inv ==
    /\ TypeOK /\ RecordFits /\ KindFits /\ OperationsAreAlone /\ ActiveIsKnown
    /\ Established /\ Counted /\ EarnedSoFar /\ NothingRunsOn
=============================================================================
