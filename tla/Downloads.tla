----------------------------- MODULE Downloads ------------------------------
(***************************************************************************)
(* The download manager (download.go): jobs with their receipts job.json,  *)
(* one worker goroutine that transfers the files of the active job one     *)
(* after the other into .part files, checks them and publishes them by a   *)
(* hard link, and the handlers that plan, start, resume, pause and cancel. *)
(* The process may be shut down or die anywhere, and so may the machine:   *)
(* what was not synced is then lost.                                       *)
(* The content of file i of a job is a sequence of Size[i] chunks, each    *)
(* from one Version of the source.  A version has a hash, and a validator  *)
(* (ETag or Last-Modified) that the server may or may not send.            *)
(***************************************************************************)
EXTENDS Naturals, Sequences

CONSTANTS Job, Files, Size, Version, NoTag, NoHash, Nobody

ASSUME SizeAssumption == Files \in Nat \ {0} /\ Size \in [1 .. Files -> Nat]
ASSUME VersionAssumption == Version # {}
ASSUME NameAssumption == NoTag \notin Version /\ NoHash \notin Version /\ Nobody \notin Job

File == Job \X (1 .. Files)
VARIABLES
    status,    \* [Job -> DownloadJob.Status], "none": not in manager.jobs
    fstat,     \* [File -> DownloadFile.Status]
    tag,       \* [File -> DownloadFile.ETag, LastModified]
    dstatus,   \* the same three in job.json
    dfstat,
    dtag,
    direct,    \* [Job -> BOOLEAN]: of a direct URL, one file
    sha,       \* [File -> DownloadFile.SHA256], pinned by the plan
    part,      \* [File -> Seq(Version)]: the .part file
    synced,    \* [File -> Nat]: chunks of it that survive a power loss
    final,     \* [File -> BOOLEAN]: published under its name
    durable,   \* [File -> BOOLEAN]: and that directory entry synced
    src,       \* [File -> Version]: what the server has
    active,    \* manager.active
    pc,        \* where its worker is
    cur,       \* the file it transfers
    ver,       \* the version of the response it reads
    failed,    \* run's failure is set
    ctx,       \* its context is cancelled
    up, closing,
    calm       \* nothing goes wrong any more and nobody interferes

memory == <<status, fstat, tag>>
receipt == <<dstatus, dfstat, dtag>>
disk == <<part, synced, final, durable>>
plan == <<direct, sha>>
worker == <<active, pc, cur, ver, failed, ctx>>
process == <<up, closing, calm>>
vars == <<memory, receipt, disk, plan, src, worker, process>>

Moving == {"RUNNING", "VERIFYING", "PAUSING", "CANCELLING"}
Resumable == {"PAUSED", "FAILED", "CANCELLED"}
JobStatus == {"none", "PLANNED", "COMPLETE"} \cup Moving \cup Resumable
FileStatus == {"PLANNED", "RUNNING", "VERIFYING", "COMPLETE"}

NoStatus == [j \in Job |-> "none"]
Of(j) == {f \in File : f[1] = j /\ (direct[j] => f[2] = 1)}
Mine(i) == <<active, i>> \in Of(active)

Planned == [f \in File |-> "PLANNED"]
Untagged == [f \in File |-> NoTag]
First == CHOOSE v \in Version : TRUE

Init ==
    /\ status = NoStatus /\ fstat = Planned /\ tag = Untagged
    /\ dstatus = NoStatus /\ dfstat = Planned /\ dtag = Untagged
    /\ direct = [j \in Job |-> FALSE] /\ sha = [f \in File |-> NoHash]
    /\ part = [f \in File |-> <<>>] /\ synced = [f \in File |-> 0]
    /\ final = [f \in File |-> FALSE] /\ durable = [f \in File |-> FALSE]
    /\ src = [f \in File |-> First]
    /\ active = Nobody /\ pc = "idle" /\ cur = 0 /\ ver = NoTag /\ failed = FALSE /\ ctx = FALSE
    /\ up = TRUE /\ closing = FALSE /\ calm = FALSE

-----------------------------------------------------------------------------
(* persistLocked writes a new job.json and renames it over the old one.    *)
(* When it reports an error, the new receipt is there or the old one.      *)
Receipt(j) ==
    /\ dstatus' = [dstatus EXCEPT ![j] = status'[j]]
    /\ dfstat' = [f \in File |-> IF f \in Of(j) THEN fstat'[f] ELSE dfstat[f]]
    /\ dtag' = [f \in File |-> IF f \in Of(j) THEN tag'[f] ELSE dtag[f]]

Unpersisted(j) == ~calm /\ (Receipt(j) \/ UNCHANGED receipt)

Begin(j, l) ==
    /\ active' = j /\ pc' = l /\ cur' = 0 /\ ver' = NoTag /\ failed' = FALSE /\ ctx' = FALSE

SetStatus(j, s) == status' = [status EXCEPT ![j] = s]

(* reconcileLocked: names and records must agree.                          *)
Unrecorded(f) == final[f] /\ fstat[f] # "COMPLETE"
Missing(f) == ~final[f] /\ fstat[f] = "COMPLETE"
Reconciled(j) == \A f \in Of(j) : ~Unrecorded(f) /\ ~Missing(f)

(* The files of a repository are pinned to a commit and come with a hash   *)
(* or none.  A direct URL is one file that may change, with a validator or *)
(* none, and any hash the user gives.                                      *)
Plan(j) ==
    /\ up /\ ~closing /\ ~calm /\ status[j] = "none" /\ dstatus[j] = "none"
    /\ direct' \in {direct, [direct EXCEPT ![j] = TRUE]}
    /\ sha' \in [File -> Version \cup {NoHash}] /\ tag' \in [File -> Version \cup {NoTag}]
    /\ \A f \in File : IF f \notin Of(j)' THEN sha'[f] = sha[f] /\ tag'[f] = tag[f]
                     ELSE IF direct'[j] THEN tag'[f] \in {src[f], NoTag}
                     ELSE tag'[f] = NoTag /\ sha'[f] \in {src[f], NoHash}
    /\ UNCHANGED <<fstat, disk, src, worker, process>>
    /\ SetStatus(j, "PLANNED") /\ Receipt(j)

(* start and resume.  If the receipt cannot be written, the job is RUNNING *)
(* without a worker.                                                       *)
Start(j) ==
    /\ up /\ ~closing /\ active = Nobody
    /\ status[j] \in {"PLANNED"} \cup Resumable /\ Reconciled(j)
    /\ SetStatus(j, "RUNNING")
    /\ UNCHANGED <<fstat, tag, disk, plan, src, process>>
    /\ \/ Receipt(j) /\ Begin(j, "next")
       \/ Unpersisted(j) /\ UNCHANGED worker

(* pause and cancel: s is what the job shall become.                       *)
Stop(j, s) ==
    /\ up /\ status[j] \notin {"none", "COMPLETE"}
    /\ IF active = j
       THEN SetStatus(j, IF s = "PAUSED" THEN "PAUSING" ELSE "CANCELLING") /\ ctx' = TRUE
       ELSE SetStatus(j, s) /\ UNCHANGED ctx
    /\ UNCHANGED <<fstat, tag, disk, plan, src, active, pc, cur, ver, failed, process>>
    /\ Receipt(j) \/ Unpersisted(j)

UserStops(j) == ~calm /\ \E s \in {"PAUSED", "CANCELLED"} : Stop(j, s)

-----------------------------------------------------------------------------
(* run and transfer *)

c == <<active, cur>>
At(l) == pc = l /\ UNCHANGED <<active, plan, src, ctx, process>>
Goto(l) == pc' = l /\ UNCHANGED failed
Fail == pc' = "end" /\ failed' = TRUE
Fault == ~calm /\ Fail
PersistAnd(l) == (Receipt(active) /\ Goto(l)) \/ (Unpersisted(active) /\ Fail)

NextFile ==
    /\ At("next") /\ UNCHANGED <<memory, receipt, disk, ver>>
    /\ IF ctx THEN Fail /\ UNCHANGED cur
       ELSE IF \A f \in Of(active) : fstat[f] = "COMPLETE" THEN Goto("end") /\ UNCHANGED cur
       ELSE /\ Goto("open")
            /\ cur' \in {i \in 1 .. Files : Mine(i)}
            /\ fstat[<<active, cur'>>] # "COMPLETE"
            /\ \A i \in 1 .. cur' - 1 : fstat[<<active, i>>] = "COMPLETE"

Full == Len(part[c]) = Size[cur]

(* A whole .part is not requested again; one that begins needs something   *)
(* to tell its version by.                                                 *)
Open_Requests ==
    /\ At("open") /\ UNCHANGED <<memory, receipt, disk, ver, cur>>
    /\ IF final[c] \/ (part[c] # <<>> /\ tag[c] = NoTag /\ sha[c] = NoHash) THEN Fail
       ELSE Goto("request") \/ Fault

Open ==
    /\ At("open") /\ UNCHANGED <<memory, receipt, disk, ver, cur>>
    /\ \/ Fault
       \/ IF final[c] THEN Fail
          ELSE IF Full THEN Goto("sync")
          ELSE IF part[c] # <<>> /\ tag[c] = NoTag /\ sha[c] = NoHash THEN Fail
          ELSE Goto("request")

(* The response carries version v and validator t.  Only a 200 from the    *)
(* start or a 206 of the exact rest is read, and only if the validator is  *)
(* the one in the receipt.  Before the first chunk the receipt has it.     *)
(* Mutation: a changed validator goes unnoticed.                           *)
Request_Unchecked ==
    /\ At("request") /\ UNCHANGED <<disk, cur>>
    /\ \E t \in {src[c], NoTag} :
          /\ calm => t = src[c]
          /\ ~Full
          /\ tag' = [tag EXCEPT ![c] = t] /\ fstat' = [fstat EXCEPT ![c] = "RUNNING"]
          /\ UNCHANGED status /\ ver' = src[c]
          /\ PersistAnd("body")

(* Mutation: a server that answers 200 to a resume sends all of it again.  *)
Request_Truncates ==
    /\ At("request") /\ UNCHANGED <<synced, final, durable, cur>>
    /\ \E t \in {src[c], NoTag} :
          IF tag[c] \in {NoTag, t}
          THEN /\ tag' = [tag EXCEPT ![c] = t]
               /\ fstat' = [fstat EXCEPT ![c] = "RUNNING"]
               /\ part' \in {part, [part EXCEPT ![c] = <<>>]}
               /\ UNCHANGED status /\ ver' = src[c]
               /\ PersistAnd("body")
          ELSE Fail /\ UNCHANGED <<memory, receipt, ver, part>>

Request ==
    /\ At("request") /\ UNCHANGED <<disk, cur>>
    /\ \/ Fault /\ UNCHANGED <<memory, receipt, ver>>
       \/ Full /\ Fail /\ UNCHANGED <<memory, receipt, ver>>
       \/ \E t \in {src[c], NoTag} :
             /\ calm => t = src[c]
             /\ ~Full
             /\ IF tag[c] \in {NoTag, t}
                THEN /\ tag' = [tag EXCEPT ![c] = t]
                     /\ fstat' = [fstat EXCEPT ![c] = "RUNNING"]
                     /\ UNCHANGED status /\ ver' = src[c]
                     /\ PersistAnd("body")
                ELSE Fail /\ UNCHANGED <<memory, receipt, ver>>

(* One chunk; now and then, and after the last one, it is synced and the   *)
(* receipt written.  A server that sends nothing is given up after 90 s.   *)
Receive ==
    /\ At("body") /\ UNCHANGED <<memory, final, durable, cur, ver>>
    /\ \/ (ctx \/ ~calm) /\ Fail /\ UNCHANGED <<receipt, part, synced>>
       \/ ~ctx /\ Full /\ Goto("sync") /\ UNCHANGED <<receipt, part, synced>>
       \/ /\ ~ctx /\ ~Full /\ part' = [part EXCEPT ![c] = Append(@, ver)]
          /\ \/ Fault /\ UNCHANGED <<receipt, synced>>
             \/ Len(part'[c]) < Size[cur] /\ Goto("body") /\ UNCHANGED <<receipt, synced>>
             \/ /\ synced' = [synced EXCEPT ![c] = Len(part'[c])]
                /\ PersistAnd("body")

Sync ==
    /\ At("sync") /\ UNCHANGED <<memory, receipt, part, final, durable, cur, ver>>
    /\ \/ (ctx \/ ~calm) /\ Fail /\ UNCHANGED synced
       \/ ~ctx /\ Goto("mark") /\ synced' = [synced EXCEPT ![c] = Size[cur]]

(* Whatever the job was told meanwhile, it is VERIFYING now.               *)
Mark ==
    /\ At("mark") /\ SetStatus(active, "VERIFYING")
    /\ fstat' = [fstat EXCEPT ![c] = "VERIFYING"]
    /\ UNCHANGED <<tag, disk, cur, ver>>
    /\ PersistAnd("hash")

Genuine(f, v) == part[f] = [i \in 1 .. Size[f[2]] |-> v]

Hash ==
    /\ At("hash") /\ UNCHANGED <<memory, receipt, disk, cur, ver>>
    /\ \/ Fault
       \/ IF ctx \/ (sha[c] # NoHash /\ ~Genuine(c, sha[c])) THEN Fail ELSE Goto("link")

(* Mutation: the file is recorded without a sync of its directory.         *)
Link_Recorded ==
    /\ At("link") /\ UNCHANGED <<memory, receipt, part, synced, durable, cur, ver>>
    /\ Goto("record") /\ final' = [final EXCEPT ![c] = TRUE]

Link ==
    /\ At("link") /\ UNCHANGED <<memory, receipt, part, synced, durable, cur, ver>>
    /\ \/ Fault /\ UNCHANGED final
       \/ Goto("dirsync") /\ final' = [final EXCEPT ![c] = TRUE]

DirSync ==
    /\ At("dirsync") /\ UNCHANGED <<memory, receipt, part, synced, final, cur, ver>>
    /\ \/ Fault /\ UNCHANGED durable
       \/ Goto("record") /\ durable' = [durable EXCEPT ![c] = TRUE]

Record ==
    /\ At("record") /\ SetStatus(active, "RUNNING")
    /\ fstat' = [fstat EXCEPT ![c] = "COMPLETE"]
    /\ UNCHANGED <<tag, disk, cur, ver>>
    /\ PersistAnd("next")

(* The deferred function of run.                                           *)
Outcome ==
    IF ctx THEN IF status[active] = "CANCELLING" THEN "CANCELLED" ELSE "PAUSED"
    ELSE IF failed \/ ~Reconciled(active) THEN "FAILED" ELSE "COMPLETE"

Settles ==
    \/ SetStatus(active, Outcome) /\ Receipt(active)
    \/ /\ ~calm /\ SetStatus(active, "FAILED")
       /\ \/ UNCHANGED receipt
          \/ /\ dstatus' = [dstatus EXCEPT ![active] = Outcome]
             /\ dfstat' = [f \in File |-> IF f \in Of(active) THEN fstat[f] ELSE dfstat[f]]
             /\ dtag' = [f \in File |-> IF f \in Of(active) THEN tag[f] ELSE dtag[f]]

End ==
    /\ pc = "end" /\ UNCHANGED <<fstat, tag, disk, plan, src, process>> /\ Settles
    /\ Begin(Nobody, "idle")

Worker ==
    \/ NextFile \/ Open \/ Request \/ Receive \/ Sync \/ Mark \/ Hash \/ Link \/ DirSync
    \/ Record \/ End

-----------------------------------------------------------------------------
(* shutdownDownloads, the end of the process, and newDownloadManager.      *)
Close ==
    /\ up /\ ~closing /\ ~calm /\ closing' = TRUE /\ ctx' = (active # Nobody)
    /\ UNCHANGED <<memory, receipt, disk, plan, src, active, pc, cur, ver, failed, up, calm>>

Vanish ==
    /\ up' = FALSE /\ closing' = FALSE
    /\ status' = NoStatus /\ fstat' = Planned /\ tag' = Untagged
    /\ Begin(Nobody, "idle") /\ UNCHANGED <<receipt, plan, src, calm>>

Exit == up /\ closing /\ active = Nobody /\ Vanish /\ UNCHANGED disk

Crash == up /\ ~calm /\ Vanish /\ UNCHANGED disk

PowerLoss ==
    /\ up /\ ~calm /\ Vanish
    /\ \E keep \in [File -> UNION {0 .. Size[i] : i \in 1 .. Files}] :
          /\ \A f \in File : keep[f] \in synced[f] .. Len(part[f])
          /\ part' = [f \in File |-> SubSeq(part[f], 1, keep[f])]
          /\ synced' = keep
    /\ \E S \in SUBSET File :
          /\ \A f \in File : durable[f] => f \in S
          /\ final' = [f \in File |-> final[f] /\ f \in S]
    /\ durable' = final'

(* A job that was moving is PAUSED, one whose names and records disagree   *)
(* is FAILED.  If a receipt cannot be written, downloads stay unavailable. *)
Recovered(j) ==
    IF \E f \in Of(j) : final[f] # (dfstat[f] = "COMPLETE") THEN "FAILED"
    ELSE IF dstatus[j] \in Moving THEN "PAUSED" ELSE dstatus[j]

Restart ==
    /\ ~up /\ up' = TRUE
    /\ status' = [j \in Job |-> IF dstatus[j] = "none" THEN "none" ELSE Recovered(j)]
    /\ fstat' = dfstat /\ tag' = dtag
    /\ dstatus' = status' /\ UNCHANGED <<dfstat, dtag>>
    /\ UNCHANGED <<disk, plan, src, worker, closing, calm>>

RestartFails ==
    /\ ~up /\ ~calm
    /\ \E S \in SUBSET {j \in Job : dstatus[j] # "none"} :
          dstatus' = [j \in Job |-> IF j \in S THEN Recovered(j) ELSE dstatus[j]]
    /\ UNCHANGED <<memory, dfstat, dtag, disk, plan, src, worker, process>>

(* The source publishes another version.                                   *)
Changes(f) ==
    /\ ~calm /\ direct[f[1]] /\ Size[f[2]] > 0
    /\ \E v \in Version \ {src[f]} : src' = [src EXCEPT ![f] = v]
    /\ UNCHANGED <<memory, receipt, disk, plan, worker, process>>

Calm ==
    /\ ~calm /\ calm' = TRUE
    /\ UNCHANGED <<memory, receipt, disk, plan, src, worker, up, closing>>

(* An operator who pauses a job that shows motion and has no worker.       *)
Unstick(j) == active # j /\ status[j] \in Moving /\ Stop(j, "PAUSED")

Next ==
    \/ \E j \in Job : Plan(j) \/ Start(j) \/ UserStops(j) \/ Unstick(j)
    \/ Worker \/ Close \/ Exit \/ Crash \/ PowerLoss \/ Restart \/ RestartFails
    \/ Calm \/ \E f \in File : Changes(f)

Spec == Init /\ [][Next]_vars

(* The worker is scheduled, an exit and a restart take place, and somebody *)
(* resumes what can be resumed.                                            *)
FairSpec ==
    /\ Spec /\ WF_vars(Worker) /\ WF_vars(Exit) /\ WF_vars(Restart)
    /\ \A j \in Job : SF_vars(Start(j)) /\ SF_vars(Unstick(j))

-----------------------------------------------------------------------------
(* The types of the variables.                                             *)
TypeOK ==
    /\ status \in [Job -> JobStatus] /\ dstatus \in [Job -> JobStatus]
    /\ fstat \in [File -> FileStatus] /\ dfstat \in [File -> FileStatus]
    /\ tag \in [File -> Version \cup {NoTag}] /\ dtag \in [File -> Version \cup {NoTag}]
    /\ direct \in [Job -> BOOLEAN]
    /\ sha \in [File -> Version \cup {NoHash}] /\ src \in [File -> Version]
    /\ part \in [File -> Seq(Version)] /\ synced \in [File -> Nat]
    /\ \A f \in File : synced[f] <= Len(part[f]) /\ Len(part[f]) <= Size[f[2]]
    /\ final \in [File -> BOOLEAN] /\ durable \in [File -> BOOLEAN]
    /\ active \in Job \cup {Nobody} /\ cur \in 0 .. Files
    /\ pc \in {"idle", "next", "open", "request", "body", "sync", "mark", "hash", "link",
               "dirsync", "record", "end"}
    /\ pc = "idle" <=> active = Nobody
    /\ ver \in Version \cup {NoTag} /\ failed \in BOOLEAN /\ ctx \in BOOLEAN
    /\ up \in BOOLEAN /\ closing \in BOOLEAN /\ calm \in BOOLEAN

(* A file under its final name is whole, of one version of the source, and *)
(* of the version the plan pinned if it did, however often its transfer    *)
(* was broken off and the source changed.                                  *)
PublishedIsGenuine ==
    \A f \in File : final[f] => \E v \in Version : Genuine(f, v) /\ sha[f] \in {v, NoHash}

(* What job.json calls COMPLETE is there, even after a loss of power.      *)
CompleteIsDurable ==
    \A f \in File : dfstat[f] = "COMPLETE" => final[f] /\ durable[f] /\ synced[f] = Size[f[2]]

(* Partial files are preserved: nothing the program does takes back a      *)
(* chunk, and a loss of power none that was synced.                        *)
PartialsArePreserved ==
    [][\A f \in File : /\ Len(part'[f]) >= IF PowerLoss THEN synced[f] ELSE Len(part[f])
                       /\ SubSeq(part[f], 1, synced[f]) = SubSeq(part'[f], 1, synced[f])]_vars

(* What keeps a job from being completed by resuming it: its source has    *)
(* changed, its .part began with nothing to tell the version by, or a      *)
(* process ended between the link and the receipt.                         *)
Hopeless(f) ==
    \/ up /\ active # f[1] /\ Unrecorded(f)
    \/ tag[f] \notin {NoTag, src[f]}
    \/ sha[f] # NoHash /\ (src[f] # sha[f] \/ \E i \in DOMAIN part[f] : part[f][i] # sha[f])
    \/ part[f] # <<>> /\ tag[f] = NoTag /\ sha[f] = NoHash

(* A worker comes to its end and frees the only slot; and every other job  *)
(* completes, if it is resumed and nothing fails: no earlier failure,      *)
(* pause, crash or lost write leaves it stuck.                             *)
ResumeCompletes ==
    /\ active # Nobody ~> active = Nobody
    /\ \A j \in Job : calm /\ status[j] # "none" ~>
           status[j] = "COMPLETE" \/ \E f \in Of(j) : Hopeless(f)

-----------------------------------------------------------------------------
(* The strengthening that makes the safety properties inductive.           *)

(* Until a job is planned nothing of it exists.                            *)
NothingBeforePlan ==
    /\ \A j \in Job : dstatus[j] = "none" =>
           /\ status[j] = "none"
           /\ \A i \in 1 .. Files : part[<<j, i>>] = <<>> /\ ~final[<<j, i>>]
    /\ active # Nobody => up /\ status[active] # "none"

(* What is published was synced, and what memory calls COMPLETE is durable.*)
DiskOrder ==
    \A f \in File : /\ final[f] => synced[f] = Size[f[2]]
                    /\ fstat[f] = "COMPLETE" => durable[f]
                    /\ durable[f] => final[f]

(* The chunks of f are all from version v.                                 *)
From(f, v) == \A i \in 1 .. Len(part[f]) : part[f][i] = v

(* Where no hash will tell, a .part is of one version, by which a validator*)
(* that is known can be told; a repository does not change.                *)
Unspliced ==
    \A f \in File :
        /\ ~direct[f[1]] => From(f, src[f]) /\ sha[f] \in {src[f], NoHash}
        /\ sha[f] = NoHash /\ part[f] # <<>> =>
              \E v \in Version : From(f, v) /\ tag[f] \in {v, NoTag} /\ dtag[f] \in {v, NoTag}

(* What the worker has seen where it is.                                   *)
Told == part[c] = <<>> \/ tag[c] # NoTag \/ sha[c] # NoHash
OfResponse ==
    /\ ver \in Version /\ tag[c] \in {ver, NoTag} /\ dtag[c] = tag[c]
    /\ sha[c] = NoHash => From(c, ver)
    /\ ~direct[active] => ver = src[c]

WorkerKnows ==
    /\ pc \notin {"idle", "next", "end"} => cur # 0 /\ c \in Of(active)
    /\ pc = "request" => Told
    /\ pc = "body" => OfResponse
    /\ pc = "sync" => Full
    /\ pc \in {"mark", "hash", "link"} => synced[c] = Size[cur]
    /\ pc = "link" => \E v \in Version : Genuine(c, v) /\ sha[c] \in {v, NoHash}
    /\ pc \in {"dirsync", "record"} => final[c]
    /\ pc = "record" => durable[c]

Inv ==
    /\ TypeOK /\ NothingBeforePlan /\ DiskOrder /\ Unspliced /\ WorkerKnows
    /\ PublishedIsGenuine /\ CompleteIsDurable
=============================================================================
