---------------------------- MODULE OperationJob ----------------------------
(***************************************************************************)
(* The record of an operation (OperationJob of operations.go): what the    *)
(* gateway holds of it in memory, what its job.json says, and where the    *)
(* goroutine that carries it out stands.                                   *)
(***************************************************************************)
EXTENDS Naturals, Sequences

CONSTANT Job

VARIABLES
    status,   \* [Job -> OperationJob.Status], "none": unknown to the manager
    disk,     \* [Job -> the status in its job.json, or "unfinished"]
    ctx,      \* [Job -> BOOLEAN]: OperationJob.cancel was called
    pc,       \* [Job -> position of its goroutine]
    err       \* [Job -> BOOLEAN]: execute has returned an error

job == <<status, disk, ctx, pc, err>>

Terminal == {"PASS", "FAIL", "CANCELLED", "INTERRUPTED", "INCOMPLETE"}
Status == {"none", "queued", "running", "cancelling", "draining"} \cup Terminal

JobInit ==
    /\ status = [j \in Job |-> "none"] /\ disk = status
    /\ ctx = [j \in Job |-> FALSE] /\ pc = [j \in Job |-> "none"]
    /\ err = [j \in Job |-> FALSE]

At(j, l) == pc[j] = l
Goto(j, l) == pc' = [pc EXCEPT ![j] = l] /\ UNCHANGED err
Fail(j) == pc' = [pc EXCEPT ![j] = "finish"] /\ err' = [err EXCEPT ![j] = TRUE]

(* OperationJob.update: the change is made under the mutex of the job and  *)
(* job.json renamed into place.  An error leaves the old file behind the   *)
(* changed memory.  Of a status that is not terminal, readers of the file   *)
(* see no more than that.                                                  *)
Saved(j) ==
    disk' = [disk EXCEPT ![j] = IF status'[j] \in Terminal THEN status'[j] ELSE "unfinished"]

Unsaved == UNCHANGED disk

(* An update on the way to l: its error ends the operation.                *)
Update(j, l) == (Saved(j) /\ Goto(j, l)) \/ (Unsaved /\ Fail(j))
=============================================================================
