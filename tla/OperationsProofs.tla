-------------------------- MODULE OperationsProofs --------------------------
(***************************************************************************)
(* Nothing that an operation started goes on unattended, PASS is earned,   *)
(* no file is touched, and operations keep the promise of TaskPromise.     *)
(* Inv is inductive.                                                       *)
(***************************************************************************)
EXTENDS Operations, FiniteSetTheorems, SequenceTheorems, TLAPS

(* A step of the goroutine of j.                                           *)
Goes(j) == Runs(j) \/ Acquire(j) \/ Transfers(j) \/ Chunk(j)

(* The steps outside of any of them.                                       *)
Alongside ==
    \/ \E t \in Task : TaskOver(t)
    \/ \E j \in Job : StartRefused(j)
    \/ Signal \/ ShutTasks \/ ShutHandlers \/ OthersTake \/ OthersGive \/ Intrusion
    \/ UNCHANGED vars

(* The process ends, with or without a loss of power.                      *)
Ends == Vanish /\ (UNCHANGED files \/ FilesAfterPowerLoss)

(* The cases of the proofs.                                                *)
LEMMA Cases ==
    ASSUME [Next]_vars
    PROVE  \/ \E j \in Job : Goes(j) \/ Cancel(j) \/ Start(j)
           \/ Open \/ ShutOperations \/ Ends \/ Alongside
BY DEF Next, Goes, Handles, Shutdown, Exit, Expire, Crash, PowerLoss, Ends, Alongside

-----------------------------------------------------------------------------
(* The record of the operation *)

(* A transfer changes the files, its position and what it writes.          *)
LEMMA TransferMoves ==
    ASSUME JobTypes, NEW j \in Job, Transfers(j) \/ Chunk(j)
    PROVE  /\ pc[j] \in Transferring
           /\ UNCHANGED <<status, ctx, promise, work, locks, outside>>
           /\ \E l \in Transferring \cup {"finish"} : pc' = [pc EXCEPT ![j] = l]
           /\ err' = err \/ (err' = [err EXCEPT ![j] = TRUE] /\ pc'[j] = "finish")
           /\ Saved(j) \/ Unsaved
<1> USE DEF At, Goto, Fail, Update, Around, Unsaved, Transferring, JobTypes
<1>1. CASE Chunk(j)
    BY <1>1 DEF Chunk, DownloadChunk
<1>2. CASE Transfers(j) /\ DownloadReceipt(j)
    BY <1>2 DEF Transfers, DownloadReceipt
<1>3. CASE Transfers(j) /\ DownloadPin(j)
    BY <1>3 DEF Transfers, DownloadPin
<1>4. CASE Transfers(j) /\ DownloadPart(j)
    BY <1>4 DEF Transfers, DownloadPart
<1>5. CASE Transfers(j) /\ DownloadRequest(j)
    BY <1>5 DEF Transfers, DownloadRequest
<1>6. CASE Transfers(j) /\ DownloadStops(j)
    BY <1>6 DEF Transfers, DownloadStops
<1>7. CASE Transfers(j) /\ DownloadSync(j)
    BY <1>7 DEF Transfers, DownloadSync
<1>8. CASE Transfers(j) /\ DownloadHash(j)
    BY <1>8 DEF Transfers, DownloadHash
<1>9. CASE Transfers(j) /\ DownloadLink(j)
    BY <1>9 DEF Transfers, DownloadLink
<1>10. CASE Transfers(j) /\ DownloadUnlink(j)
    BY <1>10 DEF Transfers, DownloadUnlink
<1>11. CASE Transfers(j) /\ DownloadSettle(j)
    BY <1>11 DEF Transfers, DownloadSettle
<1>12. QED
    BY <1>1, <1>2, <1>3, <1>4, <1>5, <1>6, <1>7, <1>8, <1>9, <1>10, <1>11 DEF
       Transfers, Downloads

(* The moves of the goroutine of j among its positions.                    *)
Path(j) ==
    \/ pc[j] \in Working /\ pc'[j] \in Working \cup {"finish"}
    \/ pc[j] = "finish" /\ pc'[j] = "free"
    \/ pc[j] = "free" /\ pc'[j] = "unlock"
    \/ pc[j] = "unlock" /\ pc'[j] = "done"

(* What it may do to its own record.                                       *)
OwnRecord(j) ==
    /\ Path(j)
    /\ \/ err'[j] = err[j] /\ pc'[j] # "done"
       \/ pc[j] \in Working /\ pc'[j] = "finish"
       \/ ~err'[j] /\ pc'[j] = "done"
    /\ \/ status'[j] = status[j] /\ pc[j] # "finish"
       \/ status'[j] \in {"running", "draining"} /\ pc[j] \in Working
       \/ status'[j] = "INCOMPLETE" /\ pc[j] \in Working /\ pc'[j] = "finish"
       \/ status'[j] = Outcome(j) /\ pc[j] = "finish"
    /\ disk'[j] \in {disk[j], IF status'[j] \in Terminal THEN status'[j] ELSE "unfinished"}

LEMMA RecordMoves ==
    ASSUME JobTypes, NEW j \in Job, Goes(j)
    PROVE  /\ OwnRecord(j)
           /\ \A k \in Job \ {j} : /\ pc'[k] = pc[k] /\ err'[k] = err[k]
                                   /\ status'[k] = status[k] /\ disk'[k] = disk[k]
           /\ ctx' = ctx /\ kind' = kind /\ UNCHANGED outside /\ JobTypes'
<1> USE DEF At, Goto, Fail, Update, Saved, Unsaved, Alone, Kept, work, outside, locks,
    process, Working,
            Submitting, Measuring, Ended, JobTypes, Path, OwnRecord, Status, Terminal
<1>1. CASE Transfers(j) \/ Chunk(j)
  <2>1. PICK l \in Transferring \cup {"finish"} : pc' = [pc EXCEPT ![j] = l]
      BY <1>1, TransferMoves
  <2>2. /\ pc[j] \in Transferring /\ UNCHANGED <<status, ctx, kind, outside>>
        /\ err' = err \/ (err' = [err EXCEPT ![j] = TRUE] /\ pc'[j] = "finish")
        /\ Saved(j) \/ Unsaved
      BY <1>1, TransferMoves
  <2>3. Transferring \subseteq Working /\ pc'[j] = l
      BY <2>1
  <2>4. JobTypes'
      BY <2>1, <2>2, <2>3
  <2>5. OwnRecord(j)
      BY <2>2, <2>3 DEF Transferring
  <2>6. QED
      BY <2>1, <2>2, <2>4, <2>5
<1>2. CASE Begin(j)
    BY <1>2 DEF Begin
<1>3. CASE Execute(j)
    BY <1>3 DEF Execute, Transferring
<1>4. CASE NextStep(j)
  <2>1. PICK l \in {"submit", "lock", "finish"} : pc' = [pc EXCEPT ![j] = l]
      BY <1>4 DEF NextStep, Coding
  <2>2. pc[j] = "next" /\ UNCHANGED <<status, ctx, kind, outside>>
      BY <1>4 DEF NextStep, Coding
  <2>3. Saved(j) \/ Unsaved
      BY <1>4 DEF NextStep, Coding
  <2>4. PICK b \in BOOLEAN :
            err' = err \/ (err' = [err EXCEPT ![j] = b] /\ pc' = [pc EXCEPT ![j] = "finish"])
    <3>1. CASE passed[j]
        BY <1>4, <3>1 DEF NextStep, Coding
    <3>2. CASE ~passed[j]
        BY <1>4, <3>2 DEF NextStep, Coding
    <3>3. QED
        BY <3>1, <3>2
  <2>5. JobTypes'
      BY <2>1, <2>2, <2>3, <2>4
  <2>6. OwnRecord(j)
      BY <2>1, <2>2, <2>3, <2>4
  <2>7. QED
      BY <2>1, <2>2, <2>3, <2>4, <2>5, <2>6
<1>5. CASE Submit(j)
    BY <1>5 DEF Submit
<1>6. CASE List(j)
    BY <1>6 DEF List
<1>7. CASE Abandon(j)
    BY <1>7 DEF Abandon
<1>8. CASE Interrupt(j)
    BY <1>8 DEF Interrupt
<1>9. CASE Drained(j)
    BY <1>9 DEF Drained
<1>10. CASE Observe(j)
  <2>1. PICK l \in {"next", "finish"} : pc' = [pc EXCEPT ![j] = l]
      BY <1>10 DEF Observe
  <2>2. pc[j] = "wait" /\ UNCHANGED <<status, ctx, kind, outside>>
      BY <1>10 DEF Observe
  <2>3. Saved(j) \/ Unsaved
      BY <1>10 DEF Observe
  <2>4. err' = err \/ Fail(j)
      BY <1>10 DEF Observe
  <2>5. JobTypes'
      BY <2>1, <2>2, <2>3, <2>4
  <2>6. OwnRecord(j)
      BY <2>1, <2>2, <2>3, <2>4
  <2>7. QED
      BY <2>1, <2>2, <2>3, <2>4, <2>5, <2>6
<1>11. CASE Renounce(j)
    BY <1>11 DEF Renounce
<1>12. CASE Generated(j)
    BY <1>12 DEF Generated
<1>13. CASE Finish(j)
    BY <1>13 DEF Finish, Outcome
<1>14. CASE Free(j)
    BY <1>14 DEF Free
<1>15. CASE Unlock(j)
    BY <1>15 DEF Unlock
<1>16. CASE Acquire(j)
    BY <1>16 DEF Acquire
<1>17. QED
    BY <1>1, <1>2, <1>3, <1>4, <1>5, <1>6, <1>7, <1>8, <1>9, <1>10, <1>11, <1>12,
       <1>13, <1>14, <1>15, <1>16 DEF Goes, Runs

(* What else touches the record of operations.                             *)
LEMMA RecordElsewhere ==
    ASSUME JobTypes, Alongside
    PROVE  UNCHANGED <<job, kind, manager>>
BY DEF Alongside, TaskOver, StartRefused, Signal, ShutTasks, ShutHandlers, OthersTake,
   OthersGive,
       Intrusion, Intrude, job, vars, work, outside, process, files, locks

LEMMA JobTypesStep == JobTypes /\ [Next]_vars => JobTypes'
<1> SUFFICES ASSUME JobTypes, [Next]_vars PROVE JobTypes'
    OBVIOUS
<1> USE DEF JobTypes, Status, Terminal, Working, Submitting, Measuring, Transferring,
    Ended
<1>1. ASSUME NEW j \in Job, Goes(j) PROVE JobTypes'
    BY <1>1, RecordMoves
<1>2. ASSUME NEW j \in Job, Cancel(j) PROVE JobTypes'
    BY <1>2 DEF Cancel, Saved, Unsaved
<1>3. ASSUME NEW j \in Job, Start(j) PROVE JobTypes'
    BY <1>3 DEF Start, Saved, Goto
<1>4. CASE Open
  <2>1. status' \in [Job -> Status]
      BY <1>4 DEF Open, Recovered
  <2>2. disk' \in [Job -> {"none", "unfinished"} \cup Terminal]
      BY <1>4 DEF Open, Recovered
  <2>3. QED
      BY <1>4, <2>1, <2>2 DEF Open
<1>5. CASE ShutOperations
    BY <1>5 DEF ShutOperations
<1>6. CASE Ends
    BY <1>6 DEF Ends, Vanish
<1>7. CASE Alongside
    BY <1>7, RecordElsewhere DEF job
<1>8. QED
    BY <1>1, <1>2, <1>3, <1>4, <1>5, <1>6, <1>7, Cases

(* Each position goes with what the record says there.                     *)
LEMMA RecordStep == JobTypes /\ RecordFits /\ [Next]_vars => RecordFits'
<1> SUFFICES ASSUME JobTypes, RecordFits, [Next]_vars PROVE RecordFits'
    OBVIOUS
<1> USE DEF RecordFits
<1>1. ASSUME NEW j \in Job, Goes(j) PROVE RecordFits'
  <2>1. /\ OwnRecord(j) /\ ctx' = ctx /\ kind' = kind /\ manager' = manager
        /\ \A k \in Job \ {j} : /\ pc'[k] = pc[k] /\ err'[k] = err[k]
                                /\ status'[k] = status[k] /\ disk'[k] = disk[k]
      BY <1>1, RecordMoves DEF outside
  <2>2. /\ err'[j] => pc'[j] \in {"finish", "free", "unlock"}
        /\ pc'[j] # "none" /\ disk'[j] # "none"
      BY <2>1 DEF OwnRecord, Path, JobTypes, Working, Submitting, Measuring,
         Transferring, Terminal
  <2>3. /\ pc'[j] \in Working => status'[j] \in Underway
        /\ pc'[j] = "finish" => status'[j] \in Underway \cup {"INCOMPLETE"}
        /\ pc'[j] \in Ended => status'[j] \in {"PASS", "FAIL", "CANCELLED", "INCOMPLETE"}
        /\ pc'[j] \in Ended /\ status'[j] = "CANCELLED" => ctx[j]
      BY <2>1 DEF OwnRecord, Path, JobTypes, Working, Submitting, Measuring,
         Transferring, Underway,
         Ended, Terminal, Outcome
  <2>4. kind[j] # "unlisted" /\ manager \in {"open", "closing"}
      BY <2>1 DEF OwnRecord, Path, Working, Submitting, Measuring, Transferring
  <2>5. QED
      BY <2>1, <2>2, <2>3, <2>4
<1>2. ASSUME NEW j \in Job, Cancel(j) PROVE RecordFits'
    BY <1>2 DEF Cancel, Saved, Unsaved, JobTypes, Underway, Terminal, outside, work,
       Working, Ended,
       Submitting, Measuring, Transferring, Status
<1>3. ASSUME NEW j \in Job, Start(j) PROVE RecordFits'
    BY <1>3 DEF Start, Saved, Goto, JobTypes, Underway, Terminal, outside, work,
       Working, Ended
<1>4. CASE Open
    BY <1>4 DEF Open, Recovered, JobTypes, Working, Ended, Submitting, Measuring,
       Transferring, Terminal
<1>5. CASE ShutOperations
    BY <1>5 DEF ShutOperations, JobTypes, work, Underway
<1>6. CASE Ends
    BY <1>6 DEF Ends, Vanish, Working, Submitting, Measuring, Transferring, Ended,
       Terminal
<1>7. CASE Alongside
    BY <1>7, RecordElsewhere DEF job
<1>8. QED
    BY <1>1, <1>2, <1>3, <1>4, <1>5, <1>6, <1>7, Cases

(* A transfer stays a transfer, a task stays a task.                       *)
LEMMA KindStep == TypeOK /\ RecordFits /\ KindFits /\ [Next]_vars => KindFits'
<1> SUFFICES ASSUME TypeOK, RecordFits, KindFits, [Next]_vars PROVE KindFits'
    OBVIOUS
<1> USE DEF KindFits
<1>1. ASSUME NEW j \in Job, Goes(j) PROVE KindFits'
  <2> USE DEF TypeOK, JobTypes, WorkTypes, At, Goto, Fail, Update
  <2>0. kind' = kind /\ \A k \in Job \ {j} : pc'[k] = pc[k]
      BY <1>1, RecordMoves
  <2>1. CASE Transfers(j) \/ Chunk(j)
    <3>1. pc[j] \in Transferring /\ pc'[j] \in Transferring \cup {"finish"}
        BY <2>1, TransferMoves
    <3>2. QED
        BY <2>0, <3>1 DEF Submitting, Measuring, Transferring
  <2>2. CASE Begin(j)
      BY <2>0, <2>2 DEF Begin, Submitting, Measuring, Transferring
  <2>3. CASE Execute(j)
      BY <2>0, <2>3 DEF Execute, Transferring, Submitting, Measuring
  <2>4. CASE NextStep(j)
      BY <2>0, <2>4 DEF NextStep, RecordFits, Coding, Submitting, Measuring,
         Transferring
  <2>5. CASE Submit(j)
      BY <2>0, <2>5 DEF Submit, Submitting, Measuring, Transferring
  <2>6. CASE List(j)
      BY <2>0, <2>6 DEF List, Submitting, Measuring, Transferring
  <2>7. CASE Abandon(j)
      BY <2>0, <2>7 DEF Abandon, Submitting, Measuring, Transferring
  <2>8. CASE Interrupt(j)
      BY <2>0, <2>8 DEF Interrupt, Submitting, Measuring, Transferring
  <2>9. CASE Drained(j)
      BY <2>0, <2>9 DEF Drained, Submitting, Measuring, Transferring
  <2>10. CASE Observe(j)
      BY <2>0, <2>10 DEF Observe, Submitting, Measuring, Transferring
  <2>11. CASE Renounce(j)
      BY <2>0, <2>11 DEF Renounce, Submitting, Measuring, Transferring
  <2>12. CASE Generated(j)
      BY <2>0, <2>12 DEF Generated, Submitting, Measuring, Transferring
  <2>13. CASE Finish(j)
      BY <2>0, <2>13 DEF Finish, Submitting, Measuring, Transferring
  <2>14. CASE Free(j)
      BY <2>0, <2>14 DEF Free, Submitting, Measuring, Transferring
  <2>15. CASE Unlock(j)
      BY <2>0, <2>15 DEF Unlock, Submitting, Measuring, Transferring
  <2>16. CASE Acquire(j)
      BY <2>0, <2>16 DEF Acquire, Submitting, Measuring, Transferring
  <2>17. QED
      BY <1>1, <2>1, <2>2, <2>3, <2>4, <2>5, <2>6, <2>7, <2>8, <2>9, <2>10, <2>11,
         <2>12, <2>13, <2>14, <2>15, <2>16 DEF Goes, Runs
<1>2. ASSUME NEW j \in Job, Cancel(j) \/ Start(j) PROVE KindFits'
    BY <1>2 DEF Cancel, Start, Goto, work, Submitting, Measuring, Transferring,
       TypeOK, JobTypes
<1>3. CASE Open \/ ShutOperations
    BY <1>3 DEF Open, ShutOperations, work
<1>4. CASE Ends
    BY <1>4 DEF Ends, Vanish, Submitting, Measuring, Transferring
<1>5. CASE Alongside
    BY <1>5, RecordElsewhere DEF job, TypeOK
<1>6. QED
    BY <1>1, <1>2, <1>3, <1>4, <1>5, Cases

-----------------------------------------------------------------------------
(* The locks *)

LEMMA LocksAlongside ==
    ASSUME Alongside
    PROVE  /\ active' = active /\ (flock \in Job => flock' = flock)
           /\ (shut' = "draining" => shut = "draining")
           /\ (shut = "draining" /\ awaited' # awaited => shut' = "handlers")
           /\ (flock' \in Job => flock' = flock)
BY NobodyAssumption DEF Alongside, TaskOver, StartRefused, Signal, ShutTasks,
   ShutHandlers, OthersTake,
   OthersGive, Intrusion, vars, outside, process, locks

LEMMA LocksMoves ==
    ASSUME JobTypes, NEW j \in Job, Goes(j)
    PROVE  /\ active' = active \/ (active' = Nobody /\ Free(j))
           /\ flock' = flock \/ (flock' = Nobody /\ Unlock(j))
           /\ UNCHANGED outside /\ (pc[j] = "free" => Free(j)) /\ (pc[j] = "unlock" => Unlock(j))
<1>1. CASE Transfers(j) \/ Chunk(j)
    BY <1>1, TransferMoves DEF locks, Transferring
<1>2. CASE Runs(j) \/ Acquire(j)
    BY <1>2 DEF Runs, Acquire, Begin, Execute, NextStep, Submit, List, Abandon,
       Interrupt, Drained,
       Observe, Renounce, Generated, Finish, Free, Unlock, Alone, Kept, locks, outside, At
<1>3. QED
    BY <1>1, <1>2 DEF Goes

(* The goroutine under way holds the file lock alone, and the manager      *)
(* names it; a manager that is closing waits for it.                       *)
LEMMA LocksStep ==
    ASSUME TypeOK, RecordFits, OperationsAreAlone, ActiveIsKnown, ClosedMeansDrained, [Next]_vars
    PROVE  OperationsAreAlone' /\ ActiveIsKnown' /\ ClosedMeansDrained'
<1> USE NobodyAssumption DEF OperationsAreAlone, ActiveIsKnown, ClosedMeansDrained,
    Live, At, TypeOK
<1>1. ASSUME NEW j \in Job, Goes(j)
      PROVE  OperationsAreAlone' /\ ActiveIsKnown' /\ ClosedMeansDrained'
  <2>1. /\ Path(j) /\ \A k \in Job \ {j} : pc'[k] = pc[k]
        /\ active' = active \/ (active' = Nobody /\ Free(j))
        /\ flock' = flock \/ (flock' = Nobody /\ Unlock(j))
        /\ UNCHANGED outside /\ (pc[j] = "free" => Free(j)) /\ (pc[j] = "unlock" => Unlock(j))
      BY <1>1, RecordMoves, LocksMoves DEF OwnRecord
  <2>2. pc[j] \notin {"none", "done"} /\ pc'[j] # "none"
      BY <2>1 DEF Path, Working, Submitting, Measuring, Transferring
  <2>3. OperationsAreAlone'
    <3>1. flock = j /\ \A k \in Job : pc'[k] \notin {"none", "done"} => k = j
        BY <2>1, <2>2
    <3>2. flock' = Nobody => pc'[j] = "done"
        BY <2>1, <3>1 DEF Unlock, JobTypes
    <3>3. QED
        BY <2>1, <3>1, <3>2
  <2>4. ActiveIsKnown'
    <3>1. CASE pc[j] = "free"
        BY <2>1, <2>2, <3>1 DEF Free, Goto, JobTypes, outside, process
    <3>2. CASE pc[j] = "unlock"
        BY <2>1, <2>2, <3>2 DEF Unlock, JobTypes, outside, process
    <3>3. CASE pc[j] \notin {"free", "unlock"}
      <4>1. active' = active /\ pc'[j] \notin {"none", "unlock", "done"}
          BY <2>1, <3>3 DEF Free, Path, Working, Submitting, Measuring, Transferring
      <4>2. QED
          BY <2>1, <2>2, <3>3, <4>1 DEF outside, process
    <3>4. QED
        BY <3>1, <3>2, <3>3
  <2>5. ClosedMeansDrained'
    <3>1. pc[j] \in {"none", "unlock", "done"} => pc'[j] \in {"none", "unlock", "done"}
        BY <2>1 DEF Path, Working, Submitting, Measuring, Transferring
    <3>2. QED
        BY <2>1, <3>1 DEF outside, process
  <2>6. QED
      BY <2>3, <2>4, <2>5
<1>2. ASSUME NEW j \in Job, Cancel(j)
      PROVE  OperationsAreAlone' /\ ActiveIsKnown' /\ ClosedMeansDrained'
    BY <1>2 DEF Cancel, locks, outside, process
<1>3. ASSUME NEW j \in Job, Start(j)
      PROVE  OperationsAreAlone' /\ ActiveIsKnown' /\ ClosedMeansDrained'
  <2>1. /\ pc[j] = "none" /\ pc' = [pc EXCEPT ![j] = "begin"] /\ active' = j /\ flock' = j
        /\ manager' = "open" /\ active = Nobody /\ flock = Nobody
      BY <1>3 DEF Start, Goto, RecordFits
  <2>2. QED
      BY <2>1 DEF JobTypes
<1>4. CASE Open
    BY <1>4 DEF Open, locks, process
<1>5. CASE ShutOperations
    BY <1>5 DEF ShutOperations, locks, ManagerTypes
<1>6. CASE Ends
    BY <1>6 DEF Ends, Vanish
<1>7. CASE Alongside
  <2>1. OperationsAreAlone' /\ ActiveIsKnown'
      BY <1>7, RecordElsewhere, LocksAlongside DEF job
  <2>2. ClosedMeansDrained'
    <3>1. CASE shut' = shut
        BY <1>7, <3>1, RecordElsewhere DEF job
    <3>2. CASE ShutTasks
        BY <3>2, RecordElsewhere DEF ShutTasks, job, locks
    <3>3. CASE ShutHandlers \/ Signal
        BY <3>3 DEF ShutHandlers, Signal, job
    <3>4. QED
        BY <1>7, <3>1, <3>2, <3>3 DEF Alongside, TaskOver, StartRefused, OthersTake,
           OthersGive,
           Intrusion, vars, outside, process
  <2>3. QED
      BY <2>1, <2>2
<1>8. QED
    BY <1>1, <1>2, <1>3, <1>4, <1>5, <1>6, <1>7, Cases

-----------------------------------------------------------------------------
(* The files *)

LEMMA GenuineLen == Genuine \in Seq({"right", "wrong"}) /\ Len(Genuine) = Size
<1>1. Genuine \in [1 .. Size -> {"right", "wrong"}] /\ Size \in Nat
    BY SizeAssumption DEF Genuine
<1>2. QED
    BY <1>1, SeqDef, LenProperties DEF Genuine

LEMMA FileMoves ==
    ASSUME [Next]_vars
    PROVE  \/ UNCHANGED files
           \/ \E j \in Job : Transfers(j) \/ Chunk(j)
           \/ Intrusion
           \/ Ends /\ FilesAfterPowerLoss
<1>1. ASSUME NEW j \in Job, Runs(j) \/ Acquire(j) PROVE UNCHANGED files
    BY <1>1 DEF Runs, Acquire, Begin, Execute, NextStep, Submit, List, Abandon,
       Interrupt, Drained,
       Observe, Renounce, Generated, Finish, Free, Unlock, Alone, Kept
<1>2. ASSUME NEW j \in Job, Cancel(j) \/ Start(j) PROVE UNCHANGED files
    BY <1>2 DEF Cancel, Start
<1>3. CASE Open \/ ShutOperations
    BY <1>3 DEF Open, ShutOperations
<1>4. CASE Alongside
    BY <1>4 DEF Alongside, TaskOver, StartRefused, Signal, ShutTasks, ShutHandlers,
       OthersTake,
       OthersGive, vars
<1>5. QED
    BY <1>1, <1>2, <1>3, <1>4, Cases DEF Goes, Ends

(* What a transfer may do to the content of the .part.                     *)
LEMMA Contents ==
    ASSUME FileTypes, NEW j \in Job, Transfers(j) \/ Chunk(j)
    PROVE  \/ bytes' = bytes
           \/ Len(bytes) < Size /\ \E b \in {"right", "wrong"} : bytes' = Append(bytes, b)
BY DEF Transfers, Chunk, Downloads, DownloadReceipt, DownloadPin, DownloadPart,
   DownloadRequest,
   DownloadStops, DownloadSync, DownloadHash, DownloadLink, DownloadUnlink, DownloadSettle,
   DownloadChunk, files, names, content

LEMMA Grows ==
    ASSUME NEW b \in {"right", "wrong"}, bytes \in Seq({"right", "wrong"})
    PROVE  /\ Append(bytes, b) \in Seq({"right", "wrong"}) /\ Len(Append(bytes, b)) = Len(bytes) + 1
           /\ Len(bytes) \in Nat
BY AppendProperties, LenProperties

LEMMA Cut ==
    ASSUME NEW s \in Seq({"right", "wrong"}), NEW n \in 0 .. Len(s)
    PROVE  /\ SubSeq(s, 1, n) \in Seq({"right", "wrong"}) /\ Len(SubSeq(s, 1, n)) = n
           /\ \A i \in 1 .. n : SubSeq(s, 1, n)[i] = s[i]
BY SubSeqProperties, LenProperties

LEMMA FileTypesStep == FileTypes /\ [Next]_vars => FileTypes'
<1> SUFFICES ASSUME FileTypes, [Next]_vars PROVE FileTypes'
    OBVIOUS
<1>0. Len(bytes) \in Nat /\ Size \in Nat /\ synced \in Nat
    BY LenProperties, SizeAssumption DEF FileTypes
<1>1. CASE UNCHANGED files
    BY <1>1 DEF files, names, content, FileTypes
<1>2. ASSUME NEW j \in Job, Transfers(j) \/ Chunk(j) PROVE FileTypes'
  <2>1. CASE bytes' = bytes
    <3> USE <2>1, <1>0 DEF FileTypes, files, names, content
    <3>1. CASE Chunk(j)
        BY <3>1 DEF Chunk, DownloadChunk
    <3>2. CASE DownloadReceipt(j)
        BY <3>2 DEF DownloadReceipt
    <3>3. CASE DownloadPin(j)
        BY <3>3 DEF DownloadPin
    <3>4. CASE DownloadPart(j)
        BY <3>4 DEF DownloadPart
    <3>5. CASE DownloadRequest(j)
        BY <3>5 DEF DownloadRequest
    <3>6. CASE DownloadStops(j)
        BY <3>6 DEF DownloadStops
    <3>7. CASE DownloadSync(j)
        BY <3>7 DEF DownloadSync
    <3>8. CASE DownloadHash(j)
        BY <3>8 DEF DownloadHash
    <3>9. CASE DownloadLink(j)
        BY <3>9 DEF DownloadLink
    <3>10. CASE DownloadUnlink(j)
        BY <3>10 DEF DownloadUnlink
    <3>11. CASE DownloadSettle(j)
        BY <3>11 DEF DownloadSettle
    <3>12. QED
        BY <1>2, <3>1, <3>2, <3>3, <3>4, <3>5, <3>6, <3>7, <3>8, <3>9, <3>10, <3>11
           DEF Transfers, Downloads
  <2>2. ASSUME NEW b \in {"right", "wrong"}, Len(bytes) < Size, bytes' = Append(bytes, b),
               bytes' # bytes
        PROVE  FileTypes'
    <3>1. Chunk(j)
        BY <1>2, <2>2 DEF Transfers, Downloads, DownloadReceipt, DownloadPin,
           DownloadPart,
           DownloadRequest, DownloadStops, DownloadSync, DownloadHash, DownloadLink, DownloadUnlink,
           DownloadSettle, files, names, content
    <3>2. UNCHANGED <<names, synced, pin>>
        BY <3>1 DEF Chunk, DownloadChunk
    <3>3. QED
        BY <1>0, <2>2, <3>2, Grows DEF FileTypes, names
  <2>3. QED
      BY <1>2, <2>1, <2>2, Contents
<1>3. CASE Intrusion
    BY <1>3 DEF Intrusion, Intrude, FileTypes, content
<1>4. CASE FilesAfterPowerLoss
  <2>1. PICK n \in synced .. Len(bytes) : bytes' = SubSeq(bytes, 1, n) /\ synced' = n
      BY <1>4 DEF FilesAfterPowerLoss
  <2>2. /\ bytes' \in Seq({"right", "wrong"}) /\ Len(bytes') = n
        /\ Len(bytes') <= Size /\ synced' \in 0 .. Len(bytes')
      BY <1>0, <2>1, Cut DEF FileTypes
  <2>3. QED
      BY <1>4, <2>2 DEF FilesAfterPowerLoss, FileTypes
<1>5. QED
    BY <1>1, <1>2, <1>3, <1>4, FileMoves

(* Without an error an operation comes to its end only after its last      *)
(* step, or a settled download.                                            *)
LEMMA CleanFinish ==
    ASSUME JobTypes, RecordFits, NEW j \in Job, Goes(j), pc'[j] = "finish", ~err'[j]
    PROVE  \/ (NextStep(j) /\ step[j] = Steps /\ passed[j])
           \/ (Transfers(j) /\ DownloadSettle(j))
<1> USE DEF At, Goto, Fail, Update, JobTypes
<1>1. CASE Runs(j) \/ Acquire(j)
    BY <1>1 DEF Runs, Acquire, Begin, Execute, NextStep, Submit, List, Abandon,
       Interrupt, Drained,
       Observe, Renounce, Generated, Finish, Free, Unlock, Coding
<1>2. CASE Transfers(j) \/ Chunk(j)
    BY <1>2 DEF Transfers, Chunk, Downloads, DownloadReceipt, DownloadPin, DownloadPart,
       DownloadRequest, DownloadStops, DownloadSync, DownloadHash, DownloadLink, DownloadUnlink,
       DownloadChunk
<1>3. QED
    BY <1>1, <1>2 DEF Goes

(* The files, and what a position of j says of them.                       *)
Facts ==
    /\ settled => dest = "ours"
    /\ dest = "ours" => bytes = Genuine /\ synced = Size

AtPosition(j) ==
    /\ pc[j] \in {"pin", "part", "request", "body", "sync", "hash", "link"} => dest # "ours"
    /\ pc[j] = "hash" => synced = Len(bytes)
    /\ pc[j] = "link" => bytes = Genuine /\ synced = Size
    /\ pc[j] \in {"unlink", "dirsync"} => dest = "ours"

Claims(j) ==
    kind[j] = "download" =>
        ((pc[j] = "finish" /\ ~err[j]) \/ status[j] = "PASS" \/ disk[j] = "PASS" => settled)

LEMMA TransferFacts ==
    ASSUME TypeOK, Facts, NEW j \in Job, AtPosition(j), Transfers(j) \/ Chunk(j)
    PROVE  /\ Facts' /\ AtPosition(j)' /\ (settled => settled')
           /\ (pc'[j] = "finish" /\ ~err'[j] => settled')
<1> USE DEF Facts, AtPosition, TypeOK, JobTypes, At, Goto, Fail, Update, files, names,
    content
<1>1. CASE Chunk(j)
    BY <1>1 DEF Chunk, DownloadChunk
<1>2. CASE DownloadReceipt(j)
    BY <1>2 DEF DownloadReceipt
<1>3. CASE DownloadPin(j)
    BY <1>3 DEF DownloadPin
<1>4. CASE DownloadPart(j)
    BY <1>4 DEF DownloadPart
<1>5. CASE DownloadRequest(j)
    BY <1>5 DEF DownloadRequest
<1>6. CASE DownloadStops(j)
    BY <1>6 DEF DownloadStops
<1>7. CASE DownloadSync(j)
    BY <1>7 DEF DownloadSync
<1>8. CASE DownloadHash(j)
    BY <1>8, GenuineLen DEF DownloadHash
<1>9. CASE DownloadLink(j)
    BY <1>9 DEF DownloadLink
<1>10. CASE DownloadUnlink(j)
    BY <1>10 DEF DownloadUnlink
<1>11. CASE DownloadSettle(j)
    BY <1>11 DEF DownloadSettle
<1>12. QED
    BY <1>1, <1>2, <1>3, <1>4, <1>5, <1>6, <1>7, <1>8, <1>9, <1>10, <1>11 DEF
       Transfers, Downloads

LEMMA EstablishedStep ==
    ASSUME TypeOK, RecordFits, KindFits, OperationsAreAlone, Established, [Next]_vars
    PROVE  Established'
<1>0. /\ Facts /\ \A j \in Job : AtPosition(j) /\ Claims(j)
      /\ (Facts' /\ \A j \in Job : AtPosition(j)' /\ Claims(j)') => Established'
    BY DEF Established, Facts, AtPosition, Claims
<1>1. ASSUME NEW j \in Job, Goes(j) PROVE Established'
  <2>0. /\ Path(j) /\ kind' = kind /\ ctx' = ctx
        /\ disk'[j] \in {disk[j], IF status'[j] \in Terminal THEN status'[j] ELSE "unfinished"}
        /\ \A k \in Job \ {j} : /\ pc'[k] = pc[k] /\ err'[k] = err[k]
                                /\ status'[k] = status[k] /\ disk'[k] = disk[k]
      BY <1>1, RecordMoves DEF OwnRecord, TypeOK
  <2>1. \A k \in Job \ {j} : pc[k] \in {"none", "done"}
      BY <2>0 DEF OperationsAreAlone, Live, Path, Working, Submitting, Measuring,
         Transferring
  <2>2. /\ Facts' /\ AtPosition(j)' /\ (settled => settled')
        /\ (kind[j] = "download" /\ pc'[j] = "finish" /\ ~err'[j] => settled')
    <3>1. CASE Transfers(j) \/ Chunk(j)
        BY <1>0, <3>1, TransferFacts
    <3>2. CASE Runs(j) \/ Acquire(j)
      <4>1. UNCHANGED files /\ pc'[j] \notin Transferring \ {"receipt"}
          BY <3>2 DEF Runs, Acquire, Begin, Execute, NextStep, Submit, List, Abandon,
             Interrupt, Drained,
             Observe, Renounce, Generated, Finish, Free, Unlock, Alone, Kept, Transferring, At, Goto,
             Fail, Update, TypeOK, JobTypes, Coding
      <4>2. Facts' /\ AtPosition(j)' /\ settled' = settled
          BY <1>0, <4>1 DEF Facts, AtPosition, files, names, content, Transferring
      <4>3. pc'[j] = "finish" /\ ~err'[j] => NextStep(j) \/ (Transfers(j) /\ DownloadSettle(j))
          BY <1>1, CleanFinish DEF TypeOK
      <4>4. NextStep(j) => kind[j] # "download"
          BY DEF NextStep, At, KindFits
      <4>5. QED
          BY <1>0, <4>2, <4>3, <4>4, TransferFacts
    <3>3. QED
        BY <1>1, <3>1, <3>2 DEF Goes
  <2>3. kind[j] = "download" /\ (status'[j] = "PASS" \/ disk'[j] = "PASS") => settled'
    <3>1. status'[j] = "PASS" => status[j] = "PASS" \/ (pc[j] = "finish" /\ ~err[j])
        BY <1>1, RecordMoves DEF OwnRecord, Outcome, RecordFits, Underway, Terminal,
           TypeOK
    <3>2. QED
        BY <1>0, <2>0, <2>2, <3>1 DEF Claims
  <2>4. \A k \in Job : AtPosition(k)' /\ Claims(k)'
      BY <1>0, <2>0, <2>1, <2>2, <2>3 DEF AtPosition, Claims
  <2>5. QED
      BY <1>0, <2>2, <2>4
<1>2. ASSUME NEW j \in Job, Cancel(j) \/ Start(j) PROVE Established'
  <2>1. UNCHANGED files /\ kind' = kind
      BY <1>2 DEF Cancel, Start, work
  <2>2. \A k \in Job : /\ err'[k] = err[k]
                       /\ status'[k] = "PASS" => status[k] = "PASS"
                       /\ disk'[k] = "PASS" => disk[k] = "PASS" \/ status[k] = "PASS"
                       /\ pc'[k] = pc[k] \/ pc'[k] = "begin"
      BY <1>2 DEF Cancel, Start, TypeOK, JobTypes, Saved, Unsaved, Terminal, Goto
  <2>3. QED
      BY <1>0, <2>1, <2>2 DEF Facts, AtPosition, Claims, files, names, content
<1>3. CASE Open
  <2>1. UNCHANGED files /\ kind' = kind /\ pc' = pc /\ err' = err
      BY <1>3 DEF Open, work
  <2>2. \A k \in Job : /\ status'[k] = "PASS" => disk[k] = "PASS" \/ status[k] = "PASS"
                       /\ disk'[k] = "PASS" => disk[k] = "PASS" \/ status[k] = "PASS"
      BY <1>3 DEF Open, Recovered
  <2>3. QED
      BY <1>0, <2>1, <2>2 DEF Facts, AtPosition, Claims, files, names, content
<1>4. CASE Ends
  <2>1. /\ kind' = kind /\ disk' = disk
        /\ \A j \in Job : status'[j] = "none" /\ pc'[j] = "none"
      BY <1>4 DEF Ends, Vanish
  <2>2. Facts' /\ (settled => settled')
    <3>1. CASE UNCHANGED files
        BY <1>0, <3>1 DEF Facts, files, names, content
    <3>2. CASE FilesAfterPowerLoss
      <4>1. PICK n \in synced .. Len(bytes) : bytes' = SubSeq(bytes, 1, n) /\ synced' = n
          BY <3>2 DEF FilesAfterPowerLoss
      <4>2. dest' = "ours" => dest = "ours"
          BY <3>2 DEF FilesAfterPowerLoss
      <4>3. dest = "ours" => bytes' = Genuine /\ synced' = Size
        <5> SUFFICES ASSUME dest = "ours" PROVE bytes' = Genuine /\ synced' = Size
            OBVIOUS
        <5>1. bytes = Genuine /\ n = Size /\ Len(bytes) = n
            BY <1>0, <4>1, GenuineLen, SizeAssumption DEF Facts
        <5>2. SubSeq(bytes, 1, n) = bytes
            BY <5>1, GenuineLen, Cut, SeqEqual, SizeAssumption
        <5>3. QED
            BY <4>1, <5>1, <5>2
      <4>4. settled' = (dest' = "ours") /\ (settled => dest' = "ours")
          BY <1>0, <3>2 DEF FilesAfterPowerLoss, Facts
      <4>5. QED
          BY <1>0, <4>2, <4>3, <4>4 DEF Facts
    <3>3. QED
        BY <1>4, <3>1, <3>2 DEF Ends
  <2>3. QED
      BY <1>0, <2>1, <2>2 DEF AtPosition, Claims
<1>5. CASE Alongside
  <2>1. /\ UNCHANGED <<job, kind, bytes, synced, settled>>
        /\ dest' = dest \/ (dest = "absent" /\ dest' = "foreign")
      BY <1>5, RecordElsewhere DEF TypeOK, Alongside, TaskOver, StartRefused, Signal,
         ShutTasks,
         ShutHandlers, OthersTake, OthersGive, Intrusion, Intrude, vars, files, names, content
  <2>2. QED
      BY <1>0, <2>1 DEF Facts, AtPosition, Claims, job
<1>6. CASE ShutOperations
    BY <1>0, <1>6 DEF ShutOperations, work, Facts, AtPosition, Claims, files, names,
       content
<1>7. QED
    BY <1>1, <1>2, <1>3, <1>4, <1>5, <1>6, Cases

-----------------------------------------------------------------------------
(* The tasks *)

(* What the goroutine of j may do with its tasks.                          *)
LEMMA WorkMoves ==
    ASSUME TaskTypes, WorkTypes, NEW j \in Job, Goes(j)
    PROVE  /\ kind' = kind
           /\ \A k \in Job \ {j} : /\ step'[k] = step[k] /\ tasks'[k] = tasks[k]
                                   /\ task'[k] = task[k] /\ passed'[k] = passed[k]
           /\ \/ promise' = promise
              \/ Submit(j) \/ Abandon(j) \/ Interrupt(j)
<1> USE DEF TaskTypes, WorkTypes
<1>1. CASE Transfers(j) \/ Chunk(j)
    BY <1>1, TransferMoves DEF Transfers, Chunk, work
<1>2. CASE Runs(j) \/ Acquire(j)
    BY <1>2 DEF Runs, Acquire, Begin, Execute, NextStep, Submit, List, Abandon,
       Interrupt, Drained,
       Observe, Renounce, Generated, Finish, Free, Unlock, Alone, Kept, work
<1>3. QED
    BY <1>1, <1>2 DEF Goes

LEMMA WorkElsewhere ==
    ASSUME (\E j \in Job : Cancel(j) \/ Start(j)) \/ Open \/ ShutOperations
    PROVE  UNCHANGED <<promise, work>>
BY DEF Cancel, Start, Open, ShutOperations

LEMMA WorkAlongside ==
    ASSUME Alongside
    PROVE  UNCHANGED work
BY DEF Alongside, TaskOver, StartRefused, Signal, ShutTasks, ShutHandlers, OthersTake,
   OthersGive,
   Intrusion, vars

(* A task is born for an operation, and what it ended with stays.          *)
LEMMA PromiseMoves ==
    ASSUME TaskTypes, WorkTypes, [Next]_vars
    PROVE  \/ Ends
           \/ \A t \in Task :
                 \/ life'[t] = life[t] /\ result'[t] = result[t]
                 \/ life[t] = "live" /\ life'[t] = "over"
                 \/ /\ life[t] = "none" /\ life'[t] = "live"
                    /\ \E j \in Job : Submit(j) /\ task'[j] = t
<1> USE DEF TaskTypes
<1>1. ASSUME NEW j \in Job, Submit(j), ~UNCHANGED promise
      PROVE  \A t \in Task : \/ life'[t] = life[t] /\ result'[t] = result[t]
                             \/ life[t] = "none" /\ life'[t] = "live" /\ task'[j] = t
    BY <1>1 DEF Submit, Born
<1>2. ASSUME NEW j \in Job, Abandon(j) \/ Interrupt(j)
      PROVE  \A t \in Task : life'[t] = life[t] /\ result'[t] = result[t]
    BY <1>2 DEF Abandon, Interrupt, Tell
<1>3. ASSUME NEW u \in Task, TaskOver(u)
      PROVE  \A t \in Task : \/ life'[t] = life[t] /\ result'[t] = result[t]
                             \/ life[t] = "live" /\ life'[t] = "over"
    BY <1>3 DEF TaskOver, Over
<1>4. CASE ShutTasks
    BY <1>4 DEF ShutTasks, Tell
<1>5. CASE UNCHANGED promise
    BY <1>5 DEF promise
<1>6. CASE Alongside
    BY <1>3, <1>4, <1>5, <1>6 DEF Alongside, StartRefused, Signal, ShutHandlers,
       OthersTake, OthersGive,
       Intrusion, vars
<1>7. ASSUME NEW j \in Job, Goes(j)
      PROVE  UNCHANGED promise \/ Submit(j) \/ Abandon(j) \/ Interrupt(j)
    BY <1>7, WorkMoves
<1>8. QED
    BY <1>1, <1>2, <1>5, <1>6, <1>7, WorkElsewhere, Cases

LEMMA WorkTypesStep == TypeOK /\ Counted /\ [Next]_vars => TaskTypes' /\ WorkTypes' /\ ManagerTypes'
<1> SUFFICES ASSUME TypeOK, Counted, [Next]_vars PROVE TaskTypes' /\ WorkTypes' /\ ManagerTypes'
    OBVIOUS
<1> USE StepsAssumption DEF TypeOK
<1>1. TaskTypes'
  <2> USE DEF TaskTypes, Result
  <2>1. ASSUME NEW j \in Job, Goes(j) PROVE TaskTypes'
    <3>1. CASE Transfers(j) \/ Chunk(j)
        BY <3>1, TransferMoves DEF promise, work
    <3>2. CASE Submit(j)
        BY <3>2 DEF Submit, Born, promise
    <3>3. CASE List(j)
      <4>1. task[j] \in Task /\ promise' = promise /\ task' = task
          BY <3>3 DEF List, At, Counted, Submitting
      <4>2. tasks' = [tasks EXCEPT ![j] = @ \cup {task[j]}]
          BY <3>3 DEF List
      <4>3. QED
          BY <4>1, <4>2 DEF promise
    <3>4. CASE Abandon(j) \/ Interrupt(j)
        BY <3>4 DEF Abandon, Interrupt, Tell, work
    <3>5. CASE Unlock(j)
        BY <3>5 DEF Unlock, promise
    <3>6. CASE \/ Begin(j) \/ Execute(j) \/ NextStep(j) \/ Drained(j) \/ Observe(j) \/ Renounce(j)
               \/ Generated(j) \/ Finish(j) \/ Free(j) \/ Acquire(j)
        BY <3>6 DEF Begin, Execute, NextStep, Drained, Observe, Renounce, Generated,
           Finish, Free, Acquire,
           Alone, promise, work
    <3>7. QED
        BY <2>1, <3>1, <3>2, <3>3, <3>4, <3>5, <3>6 DEF Goes, Runs
  <2>2. CASE (\E j \in Job : Cancel(j) \/ Start(j)) \/ Open \/ ShutOperations
      BY <2>2, WorkElsewhere DEF promise, work
  <2>3. CASE Ends
      BY <2>3 DEF Ends, Vanish, Forgotten
  <2>4. CASE Alongside
    <3>1. UNCHANGED work
        BY <2>4, WorkAlongside
    <3>2. ASSUME NEW t \in Task, TaskOver(t) PROVE TaskTypes'
        BY <3>1, <3>2 DEF TaskOver, Over, work
    <3>3. CASE ShutTasks
        BY <3>1, <3>3 DEF ShutTasks, Tell, work
    <3>4. CASE UNCHANGED promise
        BY <3>1, <3>4 DEF promise, work
    <3>5. QED
        BY <2>4, <3>2, <3>3, <3>4 DEF Alongside, StartRefused, Signal, ShutHandlers,
           OthersTake,
           OthersGive, Intrusion, vars
  <2>5. QED
      BY <2>1, <2>2, <2>3, <2>4, Cases
<1>2. WorkTypes'
  <2> USE DEF WorkTypes
  <2>1. ASSUME NEW j \in Job, Goes(j) PROVE WorkTypes'
    <3>1. CASE Transfers(j) \/ Chunk(j)
        BY <3>1, TransferMoves DEF work
    <3>2. CASE Observe(j)
      <4>1. Passes(j) \in BOOLEAN
          BY DEF Passes
      <4>2. step[j] < Steps
          BY <3>2 DEF Observe, At, Counted, Submitting
      <4>3. step' = step \/ step' = [step EXCEPT ![j] = @ + 1]
          BY <3>2 DEF Observe
      <4>4. step' \in [Job -> 0 .. Steps]
          BY <4>2, <4>3
      <4>5. passed' \in [Job -> BOOLEAN]
          BY <3>2, <4>1 DEF Observe
      <4>6. QED
          BY <3>2, <4>4, <4>5 DEF Observe, Kept
    <3>3. CASE Generated(j)
      <4>1. step[j] < Steps
          BY <3>3 DEF Generated, At, Counted, Measuring
      <4>2. step' = step \/ step' = [step EXCEPT ![j] = @ + 1]
          BY <3>3 DEF Generated
      <4>3. step' \in [Job -> 0 .. Steps]
          BY <4>1, <4>2
      <4>4. QED
          BY <3>3, <4>3 DEF Generated
    <3>4. CASE Unlock(j)
        BY <3>4 DEF Unlock
    <3>5. CASE \/ Begin(j) \/ Execute(j) \/ NextStep(j) \/ Submit(j) \/ List(j) \/ Abandon(j)
               \/ Interrupt(j) \/ Drained(j) \/ Renounce(j) \/ Finish(j) \/ Free(j) \/ Acquire(j)
        BY <3>5 DEF Begin, Execute, NextStep, Submit, List, Abandon, Interrupt,
           Drained, Renounce, Finish,
           Free, Acquire, Alone, Kept, work
    <3>6. QED
        BY <2>1, <3>1, <3>2, <3>3, <3>4, <3>5 DEF Goes, Runs
  <2>2. CASE (\E j \in Job : Cancel(j) \/ Start(j)) \/ Open \/ ShutOperations
      BY <2>2, WorkElsewhere DEF work
  <2>3. CASE Ends
      BY <2>3 DEF Ends, Vanish
  <2>4. CASE Alongside
      BY <2>4, WorkAlongside DEF work
  <2>5. QED
      BY <2>1, <2>2, <2>3, <2>4, Cases
<1>3. ManagerTypes'
  <2> USE DEF ManagerTypes
  <2>1. ASSUME NEW j \in Job, Goes(j) PROVE ManagerTypes'
    <3>1. active' \in Job \cup {Nobody} /\ flock' \in Job \cup {Others, Nobody} /\ UNCHANGED outside
        BY <2>1, LocksMoves
    <3>2. gen' \in Job \cup {Others, Nobody}
      <4>1. CASE Transfers(j) \/ Chunk(j)
          BY <4>1, TransferMoves DEF locks
      <4>2. CASE Runs(j) \/ Acquire(j)
          BY <4>2 DEF Runs, Acquire, Begin, Execute, NextStep, Submit, List, Abandon,
             Interrupt, Drained,
             Observe, Renounce, Generated, Finish, Free, Unlock, Alone, Kept, locks
      <4>3. QED
          BY <2>1, <4>1, <4>2 DEF Goes
    <3>3. QED
        BY <3>1, <3>2 DEF outside, process
  <2>2. ASSUME NEW j \in Job, Cancel(j) \/ Start(j) PROVE ManagerTypes'
      BY <2>2 DEF Cancel, Start, locks, outside, process
  <2>3. CASE Open \/ ShutOperations
      BY <2>3 DEF Open, ShutOperations, locks, process
  <2>4. CASE Ends
      BY <2>4 DEF Ends, Vanish
  <2>5. CASE Alongside
      BY <2>5 DEF Alongside, TaskOver, StartRefused, Signal, ShutTasks, ShutHandlers,
         OthersTake, OthersGive,
         Intrusion, vars, outside, process, locks
  <2>6. QED
      BY <2>1, <2>2, <2>3, <2>4, <2>5, Cases
<1>4. QED
    BY <1>1, <1>2, <1>3

LEMMA Lasting ==
    ASSUME TaskTypes, WorkTypes, [Next]_vars
    PROVE  \/ Ends
           \/ \A t \in Task : /\ life[t] # "none" => life'[t] # "none"
                              /\ life[t] = "over" => life'[t] = "over" /\ result'[t] = result[t]
BY PromiseMoves

CountedAt(j) ==
    /\ IsFiniteSet(tasks[j]) /\ \A t \in tasks[j] : life[t] # "none"
    /\ pc[j] \in Submitting \ {"submit"} => task[j] \in Task /\ life[task[j]] # "none"
    /\ pc[j] \in Submitting \cup Measuring => step[j] < Steps
    /\ pc[j] = "list" => task[j] \notin tasks[j]
    /\ pc[j] \in {"none", "begin", "execute", "next", "submit", "list"} /\ kind[j] = "coding"
          => Cardinality(tasks[j]) = step[j]
    /\ pc[j] = "wait" => task[j] \in tasks[j] /\ Cardinality(tasks[j]) = step[j] + 1

(* A step of the operation of j, as far as its tasks are concerned.        *)
LEMMA CountsOwn ==
    ASSUME TypeOK, RecordFits, KindFits, NEW j \in Job, CountedAt(j), Goes(j),
           \A t \in Task : life[t] # "none" => life'[t] # "none"
    PROVE  CountedAt(j)'
<1> USE DEF CountedAt, TypeOK, JobTypes, TaskTypes, WorkTypes, At, Goto, Fail, Update
<1>0. kind' = kind
    BY WorkMoves
<1>1. CASE Transfers(j) \/ Chunk(j)
  <2>1. /\ UNCHANGED <<promise, work>> /\ pc[j] \in Transferring /\ pc'[j] \in Transferring \cup {"finish"}
      BY <1>1, TransferMoves
  <2>2. QED
      BY <2>1 DEF promise, work, Transferring, Submitting, Measuring
<1>2. CASE Submit(j)
  <2>1. CASE pc'[j] = "list"
    <3>1. PICK t \in Task : life[t] = "none" /\ life'[t] = "live" /\ task'[j] = t
        BY <1>2, <2>1 DEF Submit, Born
    <3>2. t \notin tasks[j] /\ UNCHANGED <<step, tasks>> /\ pc[j] = "submit"
        BY <1>2, <3>1 DEF Submit
    <3>3. QED
        BY <1>0, <2>1, <3>1, <3>2 DEF KindFits, Submitting, Measuring
  <2>2. CASE pc'[j] = "finish"
    <3>1. UNCHANGED <<step, tasks, life>>
        BY <1>2, <2>2 DEF Submit, promise
    <3>2. QED
        BY <2>2, <3>1 DEF Submitting, Measuring
  <2>3. QED
      BY <1>2, <2>1, <2>2 DEF Submit
<1>3. CASE List(j)
  <2>1. /\ pc[j] = "list" /\ tasks'[j] = tasks[j] \cup {task[j]} /\ UNCHANGED <<step, life, task>>
        /\ pc'[j] \in {"wait", "abandon"}
      BY <1>3 DEF List, promise
  <2>2. task[j] \in Task /\ task[j] \notin tasks[j] /\ life[task[j]] # "none" /\ step[j] < Steps
      BY <2>1 DEF Submitting
  <2>3. /\ IsFiniteSet(tasks'[j]) /\ Cardinality(tasks'[j]) = Cardinality(tasks[j]) + 1
    <3>1. IsFiniteSet(tasks[j])
        OBVIOUS
    <3>2. /\ IsFiniteSet(tasks[j] \cup {task[j]})
          /\ Cardinality(tasks[j] \cup {task[j]}) = Cardinality(tasks[j]) + 1
        BY <2>2, <3>1, FS_AddElement
    <3>3. QED
        BY <2>1, <3>2
  <2>4. Cardinality(tasks[j]) = step[j]
      BY <2>1 DEF KindFits, Submitting
  <2>5. QED
      BY <2>1, <2>2, <2>3, <2>4 DEF Submitting, Measuring
<1>4. CASE Abandon(j) \/ Interrupt(j)
  <2>1. /\ UNCHANGED <<work, life>> /\ pc[j] \in {"abandon", "wait"} /\ pc'[j] = "drain"
      BY <1>4 DEF Abandon, Interrupt, Tell
  <2>2. QED
      BY <2>1 DEF work, Submitting, Measuring
<1>5. CASE Observe(j)
  <2>1. /\ pc[j] = "wait" /\ UNCHANGED <<task, tasks, life>>
        /\ (pc'[j] = "next" /\ step'[j] = step[j] + 1) \/ pc'[j] = "finish"
      BY <1>5 DEF Observe, promise
  <2>2. QED
      BY <2>1 DEF Submitting, Measuring
<1>6. CASE NextStep(j)
  <2>1. /\ pc[j] = "next" /\ UNCHANGED <<work, life>>
        /\ pc'[j] = "finish" \/ (pc'[j] \in {"submit", "lock"} /\ step[j] # Steps)
      BY <1>6 DEF NextStep, Alone, promise
  <2>2. QED
      BY <1>0, <2>1, StepsAssumption DEF work, Submitting, Measuring
<1>7. CASE Generated(j)
  <2>1. /\ pc[j] = "generate" /\ UNCHANGED <<task, tasks, life>> /\ pc'[j] \in {"next", "finish"}
      BY <1>7 DEF Generated, promise
  <2>2. kind[j] = "model"
      BY <2>1 DEF KindFits, Measuring
  <2>3. QED
      BY <1>0, <2>1, <2>2 DEF Submitting, Measuring
<1>8. CASE Acquire(j) \/ Renounce(j)
  <2>1. /\ pc[j] = "lock" /\ UNCHANGED <<work, life>> /\ pc'[j] \in {"generate", "finish"}
      BY <1>8 DEF Acquire, Renounce, Alone, promise
  <2>2. QED
      BY <2>1 DEF work, Submitting, Measuring
<1>9. CASE Begin(j) \/ Execute(j)
  <2>1. /\ pc[j] \in {"begin", "execute"} /\ UNCHANGED <<work, life>>
        /\ pc'[j] \in {"execute", "next", "receipt", "finish"}
      BY <1>9 DEF Begin, Execute, Alone, promise
  <2>2. QED
      BY <2>1 DEF work, Submitting, Measuring
<1>10. CASE Drained(j) \/ Finish(j) \/ Free(j) \/ Unlock(j)
  <2>1. /\ UNCHANGED <<tasks, life, step>> /\ pc'[j] \in {"finish", "free", "unlock", "done"}
      BY <1>10 DEF Drained, Finish, Free, Unlock, Alone, promise, work
  <2>2. QED
      BY <2>1 DEF Submitting, Measuring
<1>11. QED
    BY <1>1, <1>2, <1>3, <1>4, <1>5, <1>6, <1>7, <1>8, <1>9, <1>10 DEF Goes, Runs

LEMMA CountedStep ==
    ASSUME TypeOK, RecordFits, KindFits, Counted, [Next]_vars
    PROVE  Counted'
<1>0. \A j \in Job : CountedAt(j)
    BY DEF Counted, CountedAt
<1>1. SUFFICES \A j \in Job : CountedAt(j)'
    BY DEF Counted, CountedAt
<1>2. CASE Ends
  <2>1. \A j \in Job : pc'[j] = "none" /\ tasks'[j] = {} /\ step'[j] = 0
      BY <1>2 DEF Ends, Vanish
  <2>2. IsFiniteSet({}) /\ Cardinality({}) = 0
      BY FS_EmptySet
  <2>3. QED
      BY <2>1, <2>2 DEF CountedAt, Submitting, Measuring
<1>3. ASSUME \A t \in Task : life[t] # "none" => life'[t] # "none"
      PROVE  Ends \/ \A j \in Job : CountedAt(j)'
  <2>1. ASSUME NEW j \in Job, Goes(j) PROVE \A k \in Job : CountedAt(k)'
    <3>1. CountedAt(j)'
        BY <1>0, <1>3, <2>1, CountsOwn
    <3>2. kind' = kind
        BY <2>1, WorkMoves DEF TypeOK
    <3>3. ASSUME NEW k \in Job \ {j} PROVE CountedAt(k)'
      <4>1. /\ step'[k] = step[k] /\ tasks'[k] = tasks[k] /\ task'[k] = task[k] /\ pc'[k] = pc[k]
          BY <2>1, <3>3, WorkMoves, RecordMoves DEF TypeOK
      <4>2. QED
          BY <1>0, <1>3, <3>2, <3>3, <4>1 DEF CountedAt, TypeOK, TaskTypes
    <3>4. QED
        BY <3>1, <3>3
  <2>2. CASE /\ UNCHANGED work
             /\ pc' = pc \/ \E j \in Job : pc[j] = "none" /\ pc' = [pc EXCEPT ![j] = "begin"]
      BY <1>0, <1>3, <2>2 DEF CountedAt, work, TypeOK, TaskTypes, JobTypes,
         Submitting, Measuring
  <2>3. (UNCHANGED work /\ pc' = pc)
        \/ (UNCHANGED work /\ \E j \in Job : pc[j] = "none" /\ pc' = [pc EXCEPT ![j] = "begin"])
        \/ (\E j \in Job : Goes(j)) \/ Ends
    <3>1. ASSUME NEW j \in Job, Start(j) PROVE pc[j] = "none" /\ pc' = [pc EXCEPT ![j] = "begin"]
        BY <3>1 DEF Start, Goto, RecordFits
    <3>2. ASSUME NEW j \in Job, Cancel(j) PROVE pc' = pc
        BY <3>2 DEF Cancel
    <3>3. Open \/ ShutOperations => pc' = pc
        BY DEF Open, ShutOperations
    <3>4. Alongside => UNCHANGED work /\ pc' = pc
        BY WorkAlongside, RecordElsewhere DEF TypeOK, job
    <3>5. QED
        BY <3>1, <3>2, <3>3, <3>4, WorkElsewhere, Cases
  <2>4. QED
      BY <2>1, <2>2, <2>3
<1>4. TaskTypes /\ WorkTypes
    BY DEF TypeOK
<1>5. QED
    BY <1>2, <1>3, <1>4, Lasting

-----------------------------------------------------------------------------
(* PASS *)

EarnedAt(j) ==
    /\ pc[j] \in {"none", "begin", "execute", "next", "submit"} \cup Measuring /\ passed[j]
          => AllPass(tasks[j])
    /\ pc[j] \in {"list", "wait"} /\ passed[j] => AllPass(tasks[j] \ {task[j]})
    /\ (pc[j] = "finish" /\ ~err[j]) \/ (pc[j] \in Ended /\ status[j] = "PASS")
          => /\ kind[j] = "model" => step[j] = Steps
             /\ kind[j] = "coding" => Cardinality(tasks[j]) = Steps /\ AllPass(tasks[j])

(* Who passed, has passed.                                                 *)
LEMMA PassLasts ==
    ASSUME \A t \in Task : life[t] = "over" => life'[t] = "over" /\ result'[t] = result[t],
           NEW S \in SUBSET Task, AllPass(S)
    PROVE  \A T \in SUBSET S : AllPass(T)'
BY DEF AllPass

LEMMA EarnsOwn ==
    ASSUME TypeOK, RecordFits, KindFits, NEW j \in Job, CountedAt(j), EarnedAt(j), Goes(j),
           \A t \in Task : life[t] = "over" => life'[t] = "over" /\ result'[t] = result[t]
    PROVE  EarnedAt(j)'
<1> USE DEF EarnedAt, TypeOK, JobTypes, TaskTypes, WorkTypes, At, Goto, Fail, Update
<1>0. /\ kind' = kind /\ tasks[j] \in SUBSET Task
      /\ \A S \in SUBSET Task : AllPass(S) => \A T \in SUBSET S : AllPass(T)'
    BY WorkMoves, PassLasts
<1>1. CASE Transfers(j) \/ Chunk(j)
  <2>1. pc'[j] \in Transferring \cup {"finish"} /\ kind[j] = "download"
      BY <1>1, TransferMoves DEF KindFits
  <2>2. QED
      BY <1>0, <2>1 DEF Transferring, Measuring, Ended
<1>2. CASE Submit(j)
  <2>1. /\ pc[j] = "submit" /\ UNCHANGED <<tasks, passed>>
        /\ pc'[j] = "list" \/ (pc'[j] = "finish" /\ err'[j])
      BY <1>2 DEF Submit
  <2>2. tasks[j] \ {task'[j]} \in SUBSET tasks[j]
      OBVIOUS
  <2>3. QED
      BY <1>0, <2>1, <2>2 DEF Measuring, Ended
<1>3. CASE List(j)
  <2>1. /\ pc[j] = "list" /\ tasks'[j] = tasks[j] \cup {task[j]} /\ UNCHANGED <<passed, task>>
        /\ pc'[j] \in {"wait", "abandon"}
      BY <1>3 DEF List
  <2>2. tasks'[j] \ {task[j]} \in SUBSET (tasks[j] \ {task[j]})
      BY <2>1
  <2>3. QED
      BY <1>0, <2>1, <2>2 DEF Measuring, Ended
<1>4. CASE Abandon(j) \/ Interrupt(j) \/ Drained(j)
  <2>1. pc'[j] = "drain" \/ (pc'[j] = "finish" /\ err'[j])
      BY <1>4 DEF Abandon, Interrupt, Drained
  <2>2. QED
      BY <2>1 DEF Measuring, Ended
<1>5. CASE Observe(j)
  <2>1. /\ pc[j] = "wait" /\ UNCHANGED <<task, tasks>> /\ life[task[j]] = "over"
        /\ pc'[j] = "next" \/ (pc'[j] = "finish" /\ err'[j])
      BY <1>5 DEF Observe
  <2>2. passed'[j] => passed[j] /\ result[task[j]] = "PASS"
    <3>1. passed'[j] = Passes(j)
        BY <1>5 DEF Observe
    <3>2. QED
        BY <3>1 DEF Passes
  <2>3. passed'[j] => AllPass(tasks[j])
      BY <2>1, <2>2 DEF AllPass
  <2>4. QED
      BY <1>0, <2>1, <2>3 DEF Measuring, Ended
<1>6. CASE NextStep(j)
  <2>1. /\ pc[j] = "next" /\ UNCHANGED work
        /\ \/ pc'[j] = "finish" /\ step[j] = Steps /\ (~err'[j] => passed[j])
           \/ pc'[j] = "finish" /\ err'[j]
           \/ pc'[j] \in {"submit", "lock"}
      BY <1>6 DEF NextStep, Alone
  <2>2. kind[j] = "coding" => Cardinality(tasks[j]) = step[j]
      BY <2>1 DEF CountedAt
  <2>3. QED
      BY <1>0, <2>1, <2>2 DEF work, Measuring, Ended
<1>7. CASE Generated(j)
  <2>1. /\ pc[j] = "generate" /\ UNCHANGED <<passed, tasks>>
        /\ pc'[j] = "next" \/ (pc'[j] = "finish" /\ err'[j])
      BY <1>7 DEF Generated
  <2>2. QED
      BY <1>0, <2>1 DEF Measuring, Ended
<1>8. CASE Acquire(j) \/ Renounce(j) \/ Begin(j) \/ Execute(j)
  <2>1. /\ pc[j] \in {"lock", "begin", "execute"} /\ UNCHANGED work
        /\ pc'[j] \in {"generate", "execute", "next", "receipt"} \/ (pc'[j] = "finish" /\ err'[j])
      BY <1>8 DEF Acquire, Renounce, Begin, Execute, Alone
  <2>2. QED
      BY <1>0, <2>1 DEF work, Measuring, Ended
<1>9. CASE Finish(j) \/ Free(j) \/ Unlock(j)
  <2>1. /\ UNCHANGED <<tasks, step>> /\ pc'[j] \in Ended
        /\ pc[j] \in {"finish", "free", "unlock"}
        /\ status'[j] = (IF pc[j] = "finish" THEN Outcome(j) ELSE status[j])
      BY <1>9 DEF Finish, Free, Unlock, Alone, work, Ended
  <2>2. status'[j] = "PASS" => \/ pc[j] = "finish" /\ ~err[j]
                               \/ pc[j] \in Ended /\ status[j] = "PASS"
      BY <2>1 DEF Outcome, RecordFits, Underway, Terminal, Ended
  <2>3. QED
      BY <1>0, <2>1, <2>2 DEF Measuring, Ended
<1>10. QED
    BY <1>1, <1>2, <1>3, <1>4, <1>5, <1>6, <1>7, <1>8, <1>9 DEF Goes, Runs

LEMMA EarnedStep ==
    ASSUME TypeOK, RecordFits, KindFits, Counted, EarnedSoFar, [Next]_vars
    PROVE  EarnedSoFar'
<1>0. \A j \in Job : CountedAt(j) /\ EarnedAt(j)
    BY DEF Counted, CountedAt, EarnedSoFar, EarnedAt
<1>1. SUFFICES \A j \in Job : EarnedAt(j)'
    BY DEF EarnedSoFar, EarnedAt
<1>2. CASE Ends
  <2>1. \A j \in Job : pc'[j] = "none" /\ tasks'[j] = {}
      BY <1>2 DEF Ends, Vanish
  <2>2. QED
      BY <2>1 DEF EarnedAt, Measuring, Ended, AllPass
<1>3. ASSUME \A t \in Task : life[t] = "over" => life'[t] = "over" /\ result'[t] = result[t]
      PROVE  Ends \/ \A j \in Job : EarnedAt(j)'
  <2>0. \A S \in SUBSET Task : AllPass(S) => \A T \in SUBSET S : AllPass(T)'
      BY <1>3, PassLasts
  <2>1. ASSUME NEW k \in Job, pc'[k] = pc[k], kind'[k] = kind[k], err'[k] = err[k],
               step'[k] = step[k], tasks'[k] = tasks[k], task'[k] = task[k], passed'[k] = passed[k],
               status'[k] = "PASS" => status[k] = "PASS" \/ pc[k] = "none"
        PROVE  EarnedAt(k)'
    <3>1. tasks[k] \in SUBSET Task /\ tasks[k] \in SUBSET tasks[k]
          /\ tasks[k] \ {task[k]} \in SUBSET Task
          /\ tasks[k] \ {task[k]} \in SUBSET (tasks[k] \ {task[k]})
        BY DEF TypeOK, TaskTypes
    <3>2. QED
        BY <1>0, <2>0, <2>1, <3>1 DEF EarnedAt, Ended
  <2>2. ASSUME NEW j \in Job, Goes(j) PROVE \A k \in Job : EarnedAt(k)'
    <3>1. EarnedAt(j)'
        BY <1>0, <1>3, <2>2, EarnsOwn
    <3>2. ASSUME NEW k \in Job \ {j} PROVE EarnedAt(k)'
      <4>1. /\ step'[k] = step[k] /\ tasks'[k] = tasks[k] /\ task'[k] = task[k] /\ pc'[k] = pc[k]
            /\ passed'[k] = passed[k] /\ kind' = kind /\ err'[k] = err[k] /\ status'[k] = status[k]
          BY <2>2, <3>2, WorkMoves, RecordMoves DEF TypeOK
      <4>2. QED
          BY <2>1, <4>1
    <3>3. QED
        BY <3>1, <3>2
  <2>3. CASE (\E j \in Job : Cancel(j)) \/ Open \/ ShutOperations \/ Alongside
    <3>1. UNCHANGED work
        BY <2>3, WorkElsewhere, WorkAlongside
    <3>2. pc' = pc /\ err' = err
        BY <2>3, RecordElsewhere DEF Cancel, Open, ShutOperations, job, TypeOK
    <3>3. \A k \in Job : status'[k] = "PASS" => status[k] = "PASS" \/ pc[k] = "none"
      <4>1. CASE Open
          BY <4>1 DEF Open, RecordFits
      <4>2. CASE \E j \in Job : Cancel(j)
          BY <4>2 DEF Cancel, TypeOK, JobTypes
      <4>3. CASE ShutOperations \/ Alongside
          BY <4>3, RecordElsewhere DEF ShutOperations, job, TypeOK
      <4>4. QED
          BY <2>3, <4>1, <4>2, <4>3
    <3>4. QED
        BY <2>1, <3>1, <3>2, <3>3 DEF work
  <2>4. ASSUME NEW j \in Job, Start(j) PROVE \A k \in Job : EarnedAt(k)'
    <3>1. /\ UNCHANGED <<work, err>> /\ pc[j] = "none" /\ pc'[j] = "begin"
          /\ \A k \in Job \ {j} : pc'[k] = pc[k] /\ status'[k] = status[k]
        BY <2>4 DEF Start, Goto, RecordFits, TypeOK, JobTypes
    <3>2. EarnedAt(j)'
      <4>1. passed[j] => AllPass(tasks[j])'
          BY <1>0, <2>0, <3>1 DEF EarnedAt, TypeOK, TaskTypes, work
      <4>2. QED
          BY <3>1, <4>1 DEF EarnedAt, work, Ended, Measuring
    <3>3. \A k \in Job \ {j} : EarnedAt(k)'
        BY <2>1, <3>1 DEF work
    <3>4. QED
        BY <3>2, <3>3
  <2>5. QED
      BY <2>2, <2>3, <2>4, Cases
<1>4. TaskTypes /\ WorkTypes
    BY DEF TypeOK
<1>5. QED
    BY <1>2, <1>3, <1>4, Lasting

-----------------------------------------------------------------------------
(* Attendance *)

Watches(j, t) ==
    /\ task[j] = t
    /\ \/ pc[j] \in {"list", "abandon", "drain"}
       \/ pc[j] = "wait" /\ t \in tasks[j]

(* An operation turns away from a task only when that is over.             *)
LEMMA WatchesOwn ==
    ASSUME TypeOK, NEW j \in Job, NEW t \in Task, CountedAt(j), Goes(j),
           Watches(j, t), life[t] = "live"
    PROVE  Watches(j, t)'
<1> USE DEF Watches, TypeOK, JobTypes, TaskTypes, At, Goto, Fail, Update
<1>1. CASE Transfers(j) \/ Chunk(j)
    BY <1>1, TransferMoves DEF Transferring
<1>2. CASE Runs(j) /\ List(j)
    BY <1>2 DEF List
<1>3. CASE Abandon(j) \/ Interrupt(j)
    BY <1>3 DEF Abandon, Interrupt, work
<1>4. CASE \/ Begin(j) \/ Execute(j) \/ NextStep(j) \/ Submit(j) \/ Drained(j) \/ Observe(j)
           \/ Renounce(j) \/ Generated(j) \/ Finish(j) \/ Free(j) \/ Unlock(j) \/ Acquire(j)
    BY <1>4 DEF Begin, Execute, NextStep, Submit, Drained, Observe, Renounce,
       Generated, Finish, Free,
       Unlock, Acquire
<1>5. QED
    BY <1>1, <1>2, <1>3, <1>4 DEF Goes, Runs

LEMMA WatchedStep ==
    ASSUME TypeOK, RecordFits, Counted, TasksAreWatched, [Next]_vars
    PROVE  TasksAreWatched'
<1>0. /\ \A t \in Task : life[t] = "live" => \E j \in Job : Watches(j, t)
      /\ \A j \in Job : CountedAt(j)
    BY DEF TasksAreWatched, Watches, Counted, CountedAt
<1>1. SUFFICES ASSUME NEW t \in Task, life'[t] = "live"
               PROVE  \E j \in Job : Watches(j, t)'
    BY DEF TasksAreWatched, Watches
<1>2. CASE Ends
    BY <1>1, <1>2 DEF Ends, Vanish, Forgotten
<1>3. ASSUME NEW j \in Job, Submit(j), task'[j] = t, life[t] = "none"
      PROVE  Watches(j, t)'
    BY <1>1, <1>3 DEF Submit, Goto, Fail, promise, Watches, TypeOK, JobTypes
<1>4. ASSUME life[t] = "live"
      PROVE  Ends \/ \E j \in Job : Watches(j, t)'
  <2>1. PICK j \in Job : Watches(j, t)
      BY <1>0, <1>4
  <2>2. ASSUME task'[j] = task[j], tasks'[j] = tasks[j], pc'[j] = pc[j]
        PROVE  Watches(j, t)'
      BY <2>1, <2>2 DEF Watches
  <2>3. ASSUME NEW k \in Job, Goes(k) PROVE Watches(j, t)'
    <3>1. CASE k = j
        BY <1>0, <1>4, <2>1, <2>3, <3>1, WatchesOwn
    <3>2. CASE k # j
        BY <2>2, <2>3, <3>2, WorkMoves, RecordMoves DEF TypeOK
    <3>3. QED
        BY <3>1, <3>2
  <2>4. CASE (\E k \in Job : Cancel(k)) \/ Open \/ ShutOperations \/ Alongside
    <3>1. UNCHANGED work
        BY <2>4, WorkElsewhere, WorkAlongside
    <3>2. pc' = pc
        BY <2>4, RecordElsewhere DEF Cancel, Open, ShutOperations, job, TypeOK
    <3>3. QED
        BY <2>2, <3>1, <3>2 DEF work
  <2>5. ASSUME NEW k \in Job, Start(k) PROVE Watches(j, t)'
    <3>1. UNCHANGED work /\ pc[k] = "none" /\ pc' = [pc EXCEPT ![k] = "begin"]
        BY <2>5 DEF Start, Goto, RecordFits
    <3>2. k # j
        BY <2>1, <3>1 DEF Watches
    <3>3. QED
        BY <2>2, <3>1, <3>2 DEF work, TypeOK, JobTypes
  <2>6. QED
      BY <2>3, <2>4, <2>5, Cases
<1>5. TaskTypes /\ WorkTypes
    BY DEF TypeOK
<1>6. life[t] = "live" \/ (\E j \in Job : Submit(j) /\ task'[j] = t /\ life[t] = "none") \/ Ends
    BY <1>1, <1>5, PromiseMoves
<1>7. QED
    BY <1>2, <1>3, <1>4, <1>6

-----------------------------------------------------------------------------
LEMMA InitInv == Init => Inv
<1> SUFFICES ASSUME Init PROVE Inv
    OBVIOUS
<1> USE DEF Init, JobInit, DownloadInit, PromiseInit
<1>1. TypeOK
  <2>1. JobTypes
      BY DEF JobTypes, Status
  <2>2. FileTypes
    <3>1. bytes \in Seq({"right", "wrong"}) /\ Len(bytes) \in 0 .. 1
      <4>1. CASE bytes = <<>>
          BY <4>1, EmptySeq
      <4>2. CASE bytes = <<"wrong">>
          BY <4>2
      <4>3. QED
          BY <4>1, <4>2
    <3>2. dest = "absent" /\ part \in BOOLEAN /\ settled = FALSE /\ pin \in {"none", "other"}
        OBVIOUS
    <3>3. Len(bytes) <= Size /\ synced \in 0 .. Len(bytes)
        BY <3>1, SizeAssumption
    <3>4. QED
        BY <3>1, <3>2, <3>3 DEF FileTypes
  <2>3. TaskTypes /\ WorkTypes /\ ManagerTypes
      BY KindsAssumption, StepsAssumption DEF TaskTypes, WorkTypes, ManagerTypes
  <2>4. QED
      BY <2>1, <2>2, <2>3 DEF TypeOK
<1>2. RecordFits /\ KindFits
    BY DEF RecordFits, KindFits, Working, Submitting, Measuring, Transferring, Ended
<1>3. OperationsAreAlone /\ ActiveIsKnown /\ NothingRunsOn
    BY NobodyAssumption DEF OperationsAreAlone, ActiveIsKnown, NothingRunsOn,
       TasksAreWatched,
       ClosedMeansDrained, Live, At
<1>4. Established
    BY DEF Established
<1>5. IsFiniteSet({}) /\ Cardinality({}) = 0
    BY FS_EmptySet
<1>6. Counted
    BY <1>5 DEF Counted, Submitting, Measuring
<1>7. EarnedSoFar
    BY DEF EarnedSoFar, AllPass, Measuring, Ended
<1>8. QED
    BY <1>1, <1>2, <1>3, <1>4, <1>6, <1>7 DEF Inv

LEMMA NextInv == Inv /\ [Next]_vars => Inv'
<1> SUFFICES ASSUME Inv, [Next]_vars PROVE Inv'
    OBVIOUS
<1>1. /\ TypeOK /\ RecordFits /\ KindFits /\ OperationsAreAlone /\ ActiveIsKnown /\ Established
      /\ Counted /\ EarnedSoFar /\ TasksAreWatched /\ ClosedMeansDrained
    BY DEF Inv, NothingRunsOn
<1>2. JobTypes' /\ FileTypes'
    BY <1>1, JobTypesStep, FileTypesStep DEF TypeOK
<1>3. TaskTypes' /\ WorkTypes' /\ ManagerTypes'
    BY <1>1, WorkTypesStep
<1>4. RecordFits' /\ KindFits'
    BY <1>1, RecordStep, KindStep DEF TypeOK
<1>5. OperationsAreAlone' /\ ActiveIsKnown' /\ ClosedMeansDrained'
    BY <1>1, LocksStep
<1>6. Established'
    BY <1>1, EstablishedStep
<1>7. Counted' /\ EarnedSoFar'
    BY <1>1, CountedStep, EarnedStep
<1>8. TasksAreWatched'
    BY <1>1, WatchedStep
<1>9. QED
    BY <1>2, <1>3, <1>4, <1>5, <1>6, <1>7, <1>8 DEF Inv, TypeOK, NothingRunsOn

(* Inv holds in every reachable state, for any jobs, tasks and kinds.      *)
THEOREM Invariance == Spec => []Inv
<1>1. QED
    BY InitInv, NextInv, PTL DEF Spec

(* Every variable keeps its type.                                          *)
THEOREM TypeCorrect == Spec => []TypeOK
<1>1. Inv => TypeOK
    BY DEF Inv
<1>2. QED
    BY <1>1, Invariance, PTL

(* One operation at a time on this host, of this gateway or of another     *)
(* (operations.go:370-383).                                                *)
THEOREM Exclusion == Spec => []OperationsAreAlone
<1>1. Inv => OperationsAreAlone
    BY DEF Inv
<1>2. QED
    BY <1>1, Invariance, PTL

(* A coding task that runs is watched by its operation, and a manager that *)
(* was closed has no operation under way when the tasks are collected.     *)
THEOREM Attendance == Spec => []NothingRunsOn
<1>1. Inv => NothingRunsOn
    BY DEF Inv
<1>2. QED
    BY <1>1, Invariance, PTL

(* PASS, in memory or in job.json, says what it means.                     *)
THEOREM PassEarned == Spec => []PassIsEarned
<1>1. ASSUME Inv PROVE PassIsEarned
  <2> USE DEF Inv
  <2>1. SUFFICES ASSUME NEW j \in Job
                 PROVE  /\ status[j] = "PASS" /\ ~At(j, "none") => Earned(j)
                        /\ disk[j] = "PASS" /\ kind[j] = "download" => Earned(j)
      BY DEF PassIsEarned
  <2>2. kind[j] = "download" /\ (status[j] = "PASS" \/ disk[j] = "PASS") => Earned(j)
      BY <1>1 DEF Established, Earned
  <2>3. ASSUME status[j] = "PASS", ~At(j, "none") PROVE Earned(j)
    <3>1. pc[j] \in Ended /\ kind[j] \in {"coding", "model", "download"}
        BY <1>1, <2>3 DEF RecordFits, At, TypeOK, JobTypes, WorkTypes, Underway
    <3>2. CASE kind[j] = "coding"
        BY <1>1, <2>3, <3>1, <3>2 DEF EarnedSoFar, Earned, AllPass
    <3>3. CASE kind[j] = "model"
        BY <1>1, <2>3, <3>1, <3>3 DEF EarnedSoFar, Earned
    <3>4. QED
        BY <2>2, <2>3, <3>1, <3>2, <3>3
  <2>4. QED
      BY <2>2, <2>3
<1>2. QED
    BY <1>1, Invariance, PTL

-----------------------------------------------------------------------------
(* Nothing is touched *)

LEMMA SamePrefix ==
    ASSUME NEW s \in Seq({"right", "wrong"}), NEW t \in Seq({"right", "wrong"}), NEW n \in Nat,
           n <= Len(s), n <= Len(t), \A i \in 1 .. n : s[i] = t[i]
    PROVE  SubSeq(s, 1, n) = SubSeq(t, 1, n)
<1>1. n \in 0 .. Len(s) /\ n \in 0 .. Len(t)
    BY LenProperties
<1>2. /\ SubSeq(s, 1, n) \in Seq({"right", "wrong"}) /\ SubSeq(t, 1, n) \in Seq({"right", "wrong"})
      /\ Len(SubSeq(s, 1, n)) = n /\ Len(SubSeq(t, 1, n)) = n
      /\ \A i \in 1 .. n : SubSeq(s, 1, n)[i] = SubSeq(t, 1, n)[i]
    BY <1>1, Cut
<1>3. QED
    BY <1>2, SeqEqual

Keeps ==
    LET n == IF PowerLoss THEN synced ELSE Len(bytes)
    IN  /\ dest = "foreign" => dest' = "foreign"
        /\ SubSeq(bytes, 1, n) = SubSeq(bytes', 1, n)

LEMMA KeepsStep ==
    ASSUME Inv, Inv', [Next]_vars
    PROVE  Keeps
<1>0. FileTypes /\ FileTypes' /\ Len(bytes) \in Nat /\ synced \in Nat /\ synced <= Len(bytes)
    BY LenProperties DEF Inv, TypeOK, FileTypes
<1>1. dest = "foreign" => dest' = "foreign"
  <2>1. ASSUME NEW j \in Job, Transfers(j) \/ Chunk(j), dest = "foreign" PROVE dest' = "foreign"
      BY <2>1 DEF Transfers, Chunk, Downloads, DownloadReceipt, DownloadPin,
         DownloadPart,
         DownloadRequest, DownloadStops, DownloadSync, DownloadHash, DownloadLink, DownloadUnlink,
         DownloadSettle, DownloadChunk, files, names
  <2>2. QED
      BY <2>1, FileMoves DEF files, names, Intrusion, Intrude, FilesAfterPowerLoss
<1>2. CASE PowerLoss
  <2>1. PICK m \in synced .. Len(bytes) : bytes' = SubSeq(bytes, 1, m)
      BY <1>2 DEF PowerLoss, FilesAfterPowerLoss
  <2>2. /\ m \in 0 .. Len(bytes) /\ synced <= m /\ bytes \in Seq({"right", "wrong"})
        /\ bytes' \in Seq({"right", "wrong"})
      BY <1>0, <2>1 DEF FileTypes
  <2>3. Len(bytes') = m /\ \A i \in 1 .. m : bytes[i] = bytes'[i]
      BY <2>1, <2>2, Cut
  <2>4. \A i \in 1 .. synced : bytes[i] = bytes'[i]
      BY <1>0, <2>2, <2>3
  <2>5. SubSeq(bytes, 1, synced) = SubSeq(bytes', 1, synced)
      BY <1>0, <2>2, <2>3, <2>4, SamePrefix
  <2>6. QED
      BY <1>1, <1>2, <2>5 DEF Keeps
<1>3. CASE ~PowerLoss
  <2>1. SubSeq(bytes, 1, Len(bytes)) = SubSeq(bytes', 1, Len(bytes))
    <3>1. CASE bytes' = bytes
        BY <3>1
    <3>2. ASSUME NEW b \in {"right", "wrong"}, bytes' = Append(bytes, b)
          PROVE  SubSeq(bytes, 1, Len(bytes)) = SubSeq(bytes', 1, Len(bytes))
      <4>1. bytes \in Seq({"right", "wrong"})
          BY <1>0 DEF FileTypes
      <4>2. /\ bytes' \in Seq({"right", "wrong"}) /\ Len(bytes') = Len(bytes) + 1
            /\ \A i \in 1 .. Len(bytes) : bytes[i] = bytes'[i]
          BY <3>2, <4>1, AppendProperties, LenProperties
      <4>3. QED
          BY <1>0, <4>1, <4>2, SamePrefix
    <3>3. bytes' = bytes \/ \E b \in {"right", "wrong"} : bytes' = Append(bytes, b)
      <4>1. CASE UNCHANGED files \/ Intrusion
          BY <4>1 DEF files, content, Intrusion, Intrude
      <4>2. ASSUME NEW j \in Job, Transfers(j) \/ Chunk(j)
            PROVE  bytes' = bytes \/ \E b \in {"right", "wrong"} : bytes' = Append(bytes, b)
          BY <1>0, <4>2, Contents
      <4>3. ~(Ends /\ FilesAfterPowerLoss)
          BY <1>3 DEF Ends, PowerLoss
      <4>4. QED
          BY <4>1, <4>2, <4>3, FileMoves
    <3>4. QED
        BY <3>1, <3>2, <3>3
  <2>2. QED
      BY <1>1, <1>3, <2>1 DEF Keeps
<1>4. QED
    BY <1>2, <1>3

(* No file of others is replaced, and of the .part only a loss of power    *)
(* takes anything, and only what was not synced.                           *)
THEOREM FilesKept == Spec => FilesAreKept
<1>1. Inv /\ Inv' /\ [Next]_vars => [Keeps]_vars
    BY KeepsStep
<1>2. Spec => [][Keeps]_vars
    BY <1>1, Invariance, PTL DEF Spec
<1>3. QED
    BY <1>2 DEF FilesAreKept, Keeps

-----------------------------------------------------------------------------
(* The promise *)

LEMMA MapsInit == Init => O!PromiseInit
BY DEF Init, JobInit, O!PromiseInit, OpLife, OpResult, At

(* A step that leaves a goroutine between its begin and its done, and says *)
(* nothing of its status to those who wait, is no step of the promise.     *)
LEMMA Silent ==
    ASSUME \A k \in Job : \/ pc'[k] = pc[k] /\ (pc[k] = "done" => status'[k] = status[k])
                          \/ {pc[k], pc'[k]} \cap {"none", "done"} = {},
           ctx' = ctx
    PROVE  UNCHANGED O!promise
BY DEF O!promise, OpLife, OpResult, At

LEMMA MapsNext == Inv /\ [Next]_vars => [O!PromiseNext]_O!promise
<1> SUFFICES ASSUME Inv, [Next]_vars PROVE [O!PromiseNext]_O!promise
    OBVIOUS
<1>0. JobTypes /\ RecordFits /\ ActiveIsKnown
    BY DEF Inv, TypeOK
<1>1. ASSUME NEW j \in Job, Goes(j), ~Unlock(j) PROVE UNCHANGED O!promise
  <2>1. /\ OwnRecord(j) /\ ctx' = ctx
        /\ \A k \in Job \ {j} : pc'[k] = pc[k] /\ status'[k] = status[k]
      BY <1>0, <1>1, RecordMoves
  <2>2. pc[j] # "unlock"
      BY <1>0, <1>1, LocksMoves
  <2>3. {pc[j], pc'[j]} \cap {"none", "done"} = {}
      BY <2>1, <2>2 DEF OwnRecord, Path, Working, Submitting, Measuring, Transferring
  <2>4. QED
      BY <2>1, <2>3, Silent
<1>2. ASSUME NEW j \in Job, Unlock(j) PROVE O!Over(j)
  <2>1. /\ pc[j] = "unlock" /\ pc' = [pc EXCEPT ![j] = "done"] /\ status' = status /\ ctx' = ctx
      BY <1>2 DEF Unlock, At
  <2>2. /\ status[j] \in {"PASS", "FAIL", "CANCELLED", "INCOMPLETE"}
        /\ status[j] = "CANCELLED" => ctx[j]
      BY <1>0, <2>1 DEF RecordFits, Ended
  <2>3. OpLife[j] = "live" /\ OpLife' = [OpLife EXCEPT ![j] = "over"]
      BY <1>0, <2>1 DEF OpLife, At, JobTypes
  <2>4. OpResult' = [OpResult EXCEPT ![j] = status[j]]
      BY <1>0, <2>1 DEF OpResult, At, JobTypes
  <2>5. QED
      BY <2>1, <2>2, <2>3, <2>4 DEF O!Over, O!Result
<1>3. ASSUME NEW j \in Job, Start(j) PROVE O!Born(j)
  <2>1. /\ pc[j] = "none" /\ pc' = [pc EXCEPT ![j] = "begin"] /\ ctx' = ctx
        /\ \A k \in Job \ {j} : status'[k] = status[k]
      BY <1>0, <1>3 DEF Start, Goto, RecordFits, JobTypes
  <2>2. OpLife[j] = "none" /\ OpLife' = [OpLife EXCEPT ![j] = "live"]
      BY <1>0, <2>1 DEF OpLife, At, JobTypes
  <2>3. OpResult' = OpResult
      BY <1>0, <2>1 DEF OpResult, At, JobTypes
  <2>4. QED
      BY <2>1, <2>2, <2>3 DEF O!Born
<1>4. ASSUME NEW j \in Job, Cancel(j) PROVE [O!PromiseNext]_O!promise
  <2>1. CASE status[j] \in Terminal
    <3>1. pc' = pc /\ status' = status /\ ctx' = ctx
        BY <1>4, <2>1 DEF Cancel
    <3>2. QED
        BY <3>1, Silent
  <2>2. CASE status[j] \notin Terminal
    <3>1. /\ pc' = pc /\ pc[j] \notin {"none", "done"} /\ ctx' = [ctx EXCEPT ![j] = TRUE]
          /\ \A k \in Job \ {j} : status'[k] = status[k]
        BY <1>0, <1>4, <2>2 DEF Cancel, RecordFits, JobTypes, Ended, Terminal
    <3>2. OpLife' = OpLife /\ OpResult' = OpResult /\ OpLife[j] # "none"
        BY <1>0, <3>1 DEF OpLife, OpResult, At, JobTypes
    <3>3. ctx' = [k \in Job |-> ctx[k] \/ k \in {j}]
        BY <1>0, <3>1 DEF JobTypes
    <3>4. O!Tell({j})
        BY <3>2, <3>3 DEF O!Tell
    <3>5. QED
        BY <3>4 DEF O!PromiseNext
  <2>3. QED
      BY <2>1, <2>2
<1>5. CASE ShutOperations
  <2>1. pc' = pc /\ status' = status /\ ctx' = [j \in Job |-> ctx[j] \/ j = active]
      BY <1>5 DEF ShutOperations
  <2>2. OpLife' = OpLife /\ OpResult' = OpResult
      BY <2>1 DEF OpLife, OpResult, At
  <2>3. \A j \in {active} \cap Job : OpLife[j] # "none"
      BY <1>0 DEF ActiveIsKnown, Live, OpLife, At
  <2>4. ctx' = [j \in Job |-> ctx[j] \/ j \in {active} \cap Job]
      BY <2>1
  <2>5. O!Tell({active} \cap Job)
      BY <2>2, <2>3, <2>4 DEF O!Tell
  <2>6. QED
      BY <2>5 DEF O!PromiseNext
<1>6. CASE Ends
  <2>1. /\ pc' = [j \in Job |-> "none"] /\ ctx' = [j \in Job |-> FALSE]
      BY <1>6 DEF Ends, Vanish
  <2>2. QED
      BY <2>1 DEF O!PromiseNext, O!Forgotten, OpLife, OpResult, At
<1>7. CASE Open
  <2>1. pc' = pc /\ ctx' = ctx /\ \A k \in Job : pc[k] = "none"
      BY <1>0, <1>7 DEF Open, RecordFits
  <2>2. QED
      BY <2>1, Silent
<1>8. CASE Alongside
  <2>1. UNCHANGED job
      BY <1>0, <1>8, RecordElsewhere
  <2>2. QED
      BY <2>1, Silent DEF job
<1>9. QED
    BY <1>1, <1>2, <1>3, <1>4, <1>5, <1>6, <1>7, <1>8, Cases DEF O!PromiseNext

(* An operation is over once, with one result that stays, and CANCELLED    *)
(* only if it was told to stop.                                            *)
THEOREM PromiseKept == Spec => KeepsPromise
<1>1. QED
    BY Invariance, MapsInit, MapsNext, PTL DEF Spec, KeepsPromise, O!PromiseSafety
=============================================================================
