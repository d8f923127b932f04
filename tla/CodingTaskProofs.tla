-------------------------- MODULE CodingTaskProofs --------------------------
(***************************************************************************)
(* Proofs about CodingTask, for any set of tasks, any failures and any     *)
(* number of repairs.  IndInv is inductive because it speaks of one task   *)
(* at a time: a step changes what it says of the task that takes it, and   *)
(* leaves what is read of every other task the same (Same).  Goes, Saves   *)
(* and Sets say what the three ways to move on change; RunsKeep and        *)
(* HandlersKeep take the actions one by one.  The refinement of            *)
(* TaskPromise follows from the same invariant.                            *)
(***************************************************************************)
EXTENDS CodingTask, TLAPS

(* A save reaches the file of its task, or does not.                       *)
LEMMA Writes ==
    ASSUME TypeOK, NEW t \in Task, NEW s \in Status, NEW late \in BOOLEAN,
           WriteResult(t, s, late) \/ WriteFails(t) \/ UNCHANGED file
    PROVE  /\ disk' \in [Task -> Status] /\ behind' \in [Task -> BOOLEAN]
           /\ \/ disk'[t] = s /\ behind'[t] = late
              \/ disk'[t] = disk[t] /\ behind'[t] = TRUE
              \/ disk'[t] = disk[t] /\ behind'[t] = behind[t] /\ UNCHANGED file
           /\ \A u \in Task \ {t} : disk'[u] = disk[u] /\ behind'[u] = behind[u]
<1>1. CASE WriteResult(t, s, late)
    BY <1>1 DEF TypeOK, WriteResult
<1>2. CASE WriteFails(t)
    BY <1>2 DEF TypeOK, WriteFails
<1>3. CASE UNCHANGED file
    BY <1>3 DEF TypeOK, file
<1>4. QED
    BY <1>1, <1>2, <1>3

(* What the small steps of the goroutine are made of keeps the types.      *)
Moved == pc' \in [Task -> Position] /\ to' \in [Task -> Position] /\ shot' \in [Task -> Status]

LEMMA MoveTypes ==
    ASSUME TypeOK, NEW t \in Task, NEW l \in Position
    PROVE  (Goto(t, l) => Moved) /\ (Save(t, l) => Moved)
<1>1. Goto(t, l) => Moved
    BY DEF Goto, Moved, TypeOK
<1>2. "snap" \in Position
    BY DEF Position
<1>3. Save(t, l) => Moved
    BY <1>2 DEF Save, Moved, TypeOK
<1>4. QED
    BY <1>1, <1>3

LEMMA StatusTypes ==
    ASSUME TypeOK, NEW t \in Task, NEW l \in Position, NEW s \in Status, SetStatus(t, s, l)
    PROVE  Moved /\ status' \in [Task -> Status]
BY MoveTypes DEF SetStatus, TypeOK

LEMMA AroundTypes ==
    ASSUME TypeOK, UNCHANGED Around, Moved, status' \in [Task -> Status],
           repeats' \in [Task -> Nat], fails' \in [Task -> Seq(Feedback)],
           gen' \in Task \cup {Chat, Nobody}
    PROVE  TypeOK'
BY DEF TypeOK, Around, handlers, process, file, Moved

(* What a step of the goroutine changes besides: nothing, or the status.   *)
Advances(t) ==
    \/ \E l \in Position : (Goto(t, l) \/ Save(t, l)) /\ UNCHANGED status
    \/ \E l \in Position, s \in Status : SetStatus(t, s, l)

LEMMA AdvanceTypes ==
    ASSUME TypeOK, NEW t \in Task, Advances(t)
    PROVE  Moved /\ status' \in [Task -> Status]
<1>1. CASE \E l \in Position : (Goto(t, l) \/ Save(t, l)) /\ UNCHANGED status
    BY <1>1, MoveTypes DEF TypeOK
<1>2. CASE \E l \in Position, s \in Status : SetStatus(t, s, l)
    BY <1>2, StatusTypes
<1>3. QED
    BY <1>1, <1>2 DEF Advances

LEMMA TypesKept == TypeOK /\ [Next]_vars => TypeOK'
<1> SUFFICES ASSUME TypeOK, [Next]_vars PROVE TypeOK'
    OBVIOUS
<1> USE DEF Status, Active, Terminal, Position, Working, file
<1>1. ASSUME NEW t \in Task, Admit(t) PROVE TypeOK'
    BY <1>1 DEF TypeOK, Admit, tasks, goroutine, process
<1>2. ASSUME NEW t \in Task, Cancel(t) PROVE TypeOK'
  <2>2. req' \in [Task -> {"no", "snap", "write"}]
      BY <1>2 DEF TypeOK, Cancel, Requested
  <2>1. CASE status[t] \in {"queued", "running"}
    <3>1. ctx' = [ctx EXCEPT ![t] = TRUE] /\ status' = [status EXCEPT ![t] = "draining"]
        BY <1>2, <2>1 DEF Cancel
    <3>2. ctx' \in [Task -> BOOLEAN] /\ status' \in [Task -> Status]
        BY <3>1 DEF TypeOK
    <3>3. QED
        BY <1>2, <2>2, <3>2 DEF TypeOK, Cancel, goroutine, process
  <2>3. CASE status[t] \notin {"queued", "running"}
      BY <1>2, <2>2, <2>3 DEF TypeOK, Cancel, goroutine, process
  <2>4. QED
      BY <2>1, <2>3
<1>3. ASSUME NEW t \in Task, ApplyTask(t) PROVE TypeOK'
    BY <1>3 DEF TypeOK, ApplyTask, Requested, goroutine, process
<1>0. {"snap", "write", "end", "done", "attempt", "admission", "generate", "check",
      "verify", "finish", "apply", "passed"} \cup Terminal \subseteq Position
    OBVIOUS
<1>4. ASSUME NEW t \in Task, Panic(t) PROVE TypeOK'
    BY <1>4, MoveTypes, StatusTypes, AroundTypes DEF TypeOK, Panic
<1>5. ASSUME NEW t \in Task, Generates(t) PROVE TypeOK'
  <2>1. CASE Acquire(t)
      BY <2>1, MoveTypes, StatusTypes, AroundTypes DEF TypeOK, Acquire
  <2>2. CASE Progress(t)
      BY <2>2, MoveTypes, StatusTypes, AroundTypes DEF TypeOK, Progress
  <2>3. CASE Generated(t)
      BY <2>3, MoveTypes, StatusTypes, AroundTypes DEF TypeOK, Generated
  <2>4. QED
      BY <1>5, <2>1, <2>2, <2>3 DEF Generates
<1>6. ASSUME NEW t \in Task, Runs(t) PROVE TypeOK'
  <2>1. CASE Snap(t)
      BY <2>1 DEF TypeOK, Snap, At, Around, handlers, process
  <2>2. CASE Write(t)
      BY <2>2, Writes DEF TypeOK, Write, At, Goto, handlers, process
  <2>3. CASE Begin(t)
      BY <2>3, MoveTypes, StatusTypes, AroundTypes DEF TypeOK, Begin
  <2>4. CASE Attempt(t)
    <3>1. Advances(t) /\ UNCHANGED <<repeats, fails, gen, Around>>
        BY <2>4 DEF Attempt, Advances
    <3>2. QED
        BY <3>1, AdvanceTypes, AroundTypes DEF TypeOK
  <2>5. CASE Renounce(t)
      BY <2>5, MoveTypes, StatusTypes, AroundTypes DEF TypeOK, Renounce
  <2>7. CASE Check(t)
    <3>1. Moved
        BY <2>7, MoveTypes DEF Check
    <3>2. fails' \in [Task -> Seq(Feedback)]
      <4>1. ASSUME NEW f \in Feedback PROVE Append(fails[t], f) \in Seq(Feedback)
          BY DEF TypeOK
      <4>2. CASE UNCHANGED fails
          BY <4>2 DEF TypeOK
      <4>3. ASSUME NEW f \in Feedback, fails' = [fails EXCEPT ![t] = Append(@, f)]
            PROVE  fails' \in [Task -> Seq(Feedback)]
          BY <4>1, <4>3 DEF TypeOK
      <4>4. QED
          BY <2>7, <4>2, <4>3 DEF Check
    <3>3. QED
        BY <2>7, <3>1, <3>2, AroundTypes DEF TypeOK, Check
  <2>8. CASE Settle(t)
    <3>1. Advances(t) /\ UNCHANGED <<repeats, fails, gen, Around>>
        BY <2>8 DEF Settle, Advances
    <3>2. QED
        BY <3>1, AdvanceTypes, AroundTypes DEF TypeOK
  <2>0. CASE Failed(t)
    <3>1. Repeats(t) \in Nat
        BY DEF Repeats, TypeOK
    <3>2. repeats' \in [Task -> Nat]
        BY <2>0, <3>1 DEF TypeOK, Failed
    <3>3. QED
      <4>1. Advances(t) /\ UNCHANGED <<fails, gen, Around>>
          BY <2>0 DEF Failed, Advances
      <4>2. QED
          BY <3>2, <4>1, AdvanceTypes, AroundTypes DEF TypeOK
  <2>9. CASE Verify(t)
    <3>1. Advances(t) /\ UNCHANGED <<repeats, fails, gen, Around>>
        BY <2>9 DEF Verify, Advances
    <3>2. QED
        BY <3>1, AdvanceTypes, AroundTypes DEF TypeOK
  <2>10. CASE Finish(t)
      BY <2>10, MoveTypes, StatusTypes, AroundTypes DEF TypeOK, Finish
  <2>11. CASE Apply(t)
    <3>1. Moved /\ applied' \in [Task -> BOOLEAN]
        BY <2>11, MoveTypes DEF Apply, TypeOK
    <3>2. QED
        BY <2>11, <3>1 DEF TypeOK, Apply, Moved, handlers, process
  <2>12. CASE Passed(t)
      BY <2>12, MoveTypes, StatusTypes, AroundTypes DEF TypeOK, Passed
  <2>13. CASE End(t)
      BY <2>13, MoveTypes, StatusTypes, AroundTypes DEF TypeOK, End
  <2>14. QED
      BY <1>6, <2>0, <2>1, <2>2, <2>3, <2>4, <2>5, <2>7, <2>8, <2>9, <2>10, <2>11, <2>12, <2>13
         DEF Runs
<1>7. ASSUME NEW t \in Task, Handles(t) PROVE TypeOK'
  <2>1. CASE Submit(t)
    <3>1. disk' \in [Task -> Status] /\ behind' \in [Task -> BOOLEAN]
      <4>1. WriteResult(t, "queued", FALSE) \/ WriteFails(t)
          BY <2>1 DEF Submit
      <4>2. "queued" \in Status /\ FALSE \in BOOLEAN
          OBVIOUS
      <4>3. QED
          BY <4>1, <4>2, Writes
    <3>2. /\ submit' = [submit EXCEPT ![t] = "over"]
          /\ status' = [status EXCEPT ![t] = "queued"]
          /\ pc' = [pc EXCEPT ![t] = "begin"]
          /\ auto' \in [Task -> BOOLEAN]
          /\ UNCHANGED <<ctx, to, shot, repeats, fails, applied, req, reqShot, gen, process>>
        BY <2>1 DEF Submit, TypeOK
    <3>3. QED
        BY <3>1, <3>2 DEF TypeOK, process
  <2>2. CASE SubmitRefused(t)
      BY <2>2 DEF TypeOK, SubmitRefused, tasks, goroutine, process
  <2>3. CASE RequestSnap(t)
      BY <2>3 DEF TypeOK, RequestSnap, tasks, goroutine, process
  <2>4. CASE RequestWrite(t)
      BY <2>4, Writes DEF TypeOK, RequestWrite, goroutine, process
  <2>5. QED
      BY <1>7, <2>1, <2>2, <2>3, <2>4 DEF Handles
<1>8. CASE ChatBegins \/ ChatEnds
    BY <1>8 DEF TypeOK, ChatBegins, ChatEnds, tasks, goroutine, handlers, process
<1>9. CASE Signal
    BY <1>9 DEF TypeOK, Signal, tasks, goroutine, handlers, process
<1>10. CASE ShutTasks
    BY <1>10 DEF TypeOK, ShutTasks, goroutine, handlers
<1>11. CASE ShutHandlers
    BY <1>11 DEF TypeOK, ShutHandlers, tasks, goroutine, handlers
<1>12. ASSUME Vanish PROVE TypeOK'
  <2>1. None \in [Task -> Status] /\ None \in [Task -> Position]
      BY DEF None
  <2>2. fails' \in [Task -> Seq(Feedback)]
      BY <1>12 DEF Vanish
  <2>3. submit' \in [Task -> {"no", "admitted", "over"}]
      BY <1>12 DEF Vanish
  <2>4. req' \in [Task -> {"no", "snap", "write"}]
      BY <1>12 DEF Vanish
  <2>5. QED
      BY <1>12, <2>1, <2>2, <2>3, <2>4 DEF TypeOK, Vanish
<1>13. CASE Restart
    BY <1>13 DEF TypeOK, Restart, tasks, goroutine, handlers
<1>14. CASE UNCHANGED vars
    BY <1>14 DEF TypeOK, vars, tasks, goroutine, handlers, process
<1>15. QED
    BY <1>1, <1>2, <1>3, <1>4, <1>5, <1>6, <1>7, <1>8, <1>9, <1>10, <1>11, <1>12, <1>13, <1>14 DEF
       Next, Shutdown, Exit, Expire, Crash

-----------------------------------------------------------------------------
(* What a step does to the task it is about, and that it leaves the others *)
(* alone.                                                                  *)
Same(u) ==
    /\ status'[u] = status[u] /\ ctx'[u] = ctx[u]
    /\ pc'[u] = pc[u] /\ to'[u] = to[u] /\ shot'[u] = shot[u]
    /\ repeats'[u] = repeats[u] /\ fails'[u] = fails[u]
    /\ applied'[u] = applied[u] /\ disk'[u] = disk[u] /\ behind'[u] = behind[u]
    /\ submit'[u] = submit[u] /\ req'[u] = req[u]

LEMMA SameKeeps == ASSUME NEW u \in Task, TaskInv(u), Same(u) PROVE TaskInv(u)'
<1>1. Stand(u)' = Stand(u)
    BY DEF Same, Stand
<1>2. (StatusFollows(u) /\ ToldWhenCancelled(u) /\ ShotIsCurrent(u))'
    BY <1>1 DEF Same, TaskInv, StatusFollows, ToldWhenCancelled, ShotIsCurrent
<1>3. (AppliedFollows(u) /\ FailureCounted(u))'
    BY <1>1 DEF Same, TaskInv, AppliedFollows, FailureCounted
<1>4. (EndOnDisk(u) /\ Announced(u))'
    BY DEF Same, TaskInv, EndOnDisk, Announced, Done, At
<1>5. QED
    BY <1>2, <1>3, <1>4 DEF TaskInv

LEMMA Goes ==
    ASSUME TypeOK, NEW t \in Task, NEW l, Goto(t, l)
    PROVE  /\ pc'[t] = l /\ to'[t] = to[t] /\ shot'[t] = shot[t]
           /\ \A u \in Task \ {t} : pc'[u] = pc[u] /\ to'[u] = to[u] /\ shot'[u] = shot[u]
BY DEF TypeOK, Goto

LEMMA Saves ==
    ASSUME TypeOK, NEW t \in Task, NEW l, Save(t, l)
    PROVE  /\ pc'[t] = "snap" /\ to'[t] = l /\ shot'[t] = shot[t]
           /\ \A u \in Task \ {t} : pc'[u] = pc[u] /\ to'[u] = to[u] /\ shot'[u] = shot[u]
BY DEF TypeOK, Save

LEMMA Sets ==
    ASSUME TypeOK, NEW t \in Task, NEW s, NEW l, SetStatus(t, s, l)
    PROVE  /\ status'[t] = s /\ Save(t, l)
           /\ \A u \in Task \ {t} : status'[u] = status[u]
BY DEF TypeOK, SetStatus

(* The steps of a goroutine leave the rest of its task alone.              *)
LEMMA Alone ==
    ASSUME UNCHANGED Around, NEW t \in Task
    PROVE  /\ ctx'[t] = ctx[t] /\ applied'[t] = applied[t] /\ disk'[t] = disk[t]
           /\ behind'[t] = behind[t] /\ submit'[t] = submit[t] /\ req'[t] = req[t]
BY DEF Around, handlers, file

(* A step of t's goroutine keeps what is said of t.                        *)
LEMMA RunsKeep ==
    ASSUME IndInv, NEW t \in Task, Runs(t) \/ Generates(t) \/ Panic(t)
    PROVE  TaskInv(t)' /\ \A u \in Task \ {t} : Same(u)
<1>0. TypeOK /\ TaskInv(t)
    BY DEF IndInv
<1> USE DEF TaskInv, StatusFollows, ToldWhenCancelled, ShotIsCurrent, AppliedFollows,
        FailureCounted, EndOnDisk, Announced, Stand, Done, At, Active, Terminal, Working
<1>1. CASE Begin(t)
  <2>1. TaskInv(t)'
      BY <1>0, <1>1, Goes, Saves, Sets, Alone DEF Begin
  <2>2. \A u \in Task \ {t} : Same(u)
      BY <1>0, <1>1, Goes, Saves, Sets, Alone DEF Begin, Same
  <2>3. QED
      BY <2>1, <2>2
<1>2. CASE Attempt(t)
  <2>1. TaskInv(t)'
      BY <1>0, <1>2, Goes, Saves, Sets, Alone DEF Attempt
  <2>2. \A u \in Task \ {t} : Same(u)
      BY <1>0, <1>2, Goes, Saves, Sets, Alone DEF Attempt, Same
  <2>3. QED
      BY <2>1, <2>2
<1>3. CASE Renounce(t)
  <2>1. TaskInv(t)'
      BY <1>0, <1>3, Goes, Saves, Sets, Alone DEF Renounce
  <2>2. \A u \in Task \ {t} : Same(u)
      BY <1>0, <1>3, Goes, Saves, Sets, Alone DEF Renounce, Same
  <2>3. QED
      BY <2>1, <2>2
<1>4. CASE Settle(t)
  <2>1. TaskInv(t)'
      BY <1>0, <1>4, Goes, Saves, Sets, Alone DEF Settle
  <2>2. \A u \in Task \ {t} : Same(u)
      BY <1>0, <1>4, Goes, Saves, Sets, Alone DEF Settle, Same
  <2>3. QED
      BY <2>1, <2>2
<1>5. CASE Verify(t)
  <2>1. TaskInv(t)'
      BY <1>0, <1>5, Goes, Saves, Sets, Alone DEF Verify
  <2>2. \A u \in Task \ {t} : Same(u)
      BY <1>0, <1>5, Goes, Saves, Sets, Alone DEF Verify, Same
  <2>3. QED
      BY <2>1, <2>2
<1>6. CASE Finish(t)
  <2>1. TaskInv(t)'
      BY <1>0, <1>6, Goes, Saves, Sets, Alone DEF Finish
  <2>2. \A u \in Task \ {t} : Same(u)
      BY <1>0, <1>6, Goes, Saves, Sets, Alone DEF Finish, Same
  <2>3. QED
      BY <2>1, <2>2
<1>7. CASE Passed(t)
  <2>1. TaskInv(t)'
      BY <1>0, <1>7, Goes, Saves, Sets, Alone DEF Passed
  <2>2. \A u \in Task \ {t} : Same(u)
      BY <1>0, <1>7, Goes, Saves, Sets, Alone DEF Passed, Same
  <2>3. QED
      BY <2>1, <2>2
<1>8. CASE End(t)
  <2>1. TaskInv(t)'
      BY <1>0, <1>8, Goes, Saves, Sets, Alone DEF End
  <2>2. \A u \in Task \ {t} : Same(u)
      BY <1>0, <1>8, Goes, Saves, Sets, Alone DEF End, Same
  <2>3. QED
      BY <2>1, <2>2
<1>9. CASE Panic(t)
  <2>1. TaskInv(t)'
      BY <1>0, <1>9, Goes, Alone DEF Panic, TypeOK
  <2>2. \A u \in Task \ {t} : Same(u)
      BY <1>0, <1>9, Goes, Saves, Sets, Alone DEF Panic, Same
  <2>3. QED
      BY <2>1, <2>2
<1>10. CASE Acquire(t)
  <2>1. TaskInv(t)'
      BY <1>0, <1>10, Goes, Saves, Sets, Alone DEF Acquire
  <2>2. \A u \in Task \ {t} : Same(u)
      BY <1>0, <1>10, Goes, Saves, Sets, Alone DEF Acquire, Same
  <2>3. QED
      BY <2>1, <2>2
<1>11. CASE Generated(t)
  <2>1. TaskInv(t)'
      BY <1>0, <1>11, Goes, Saves, Sets, Alone DEF Generated
  <2>2. \A u \in Task \ {t} : Same(u)
      BY <1>0, <1>11, Goes, Saves, Sets, Alone DEF Generated, Same
  <2>3. QED
      BY <2>1, <2>2
<1>12. CASE Snap(t)
  <2>1. pc'[t] = "write" /\ to'[t] = to[t] /\ shot'[t] = status[t]
      BY <1>0, <1>12 DEF Snap, TypeOK
  <2>2. TaskInv(t)'
      BY <1>0, <1>12, <2>1, Alone DEF Snap
  <2>3. \A u \in Task \ {t} : Same(u)
      BY <1>0, <1>12, Alone DEF Snap, Same, TypeOK
  <2>4. QED
      BY <2>2, <2>3
<1>13. CASE Write(t)
  <2>1. /\ pc[t] = "write" /\ pc'[t] = to[t] /\ to'[t] = to[t]
        /\ disk'[t] = shot[t] \/ behind'[t]
        /\ shot[t] \in Status
    <3>1. shot[t] \in Status
        BY <1>0 DEF TypeOK
    <3>2. disk'[t] = shot[t] \/ behind'[t]
        BY <1>0, <1>13 DEF Write, WriteResult, WriteFails, TypeOK
    <3>3. QED
        BY <1>0, <1>13, <3>1, <3>2, Goes DEF Write
  <2>0. Stand(t)' = Stand(t) /\ Stand(t) = to[t] /\ to[t] \in Position
      BY <1>0, <2>1 DEF TypeOK
  <2>2. TaskInv(t)'
    <3>1. (StatusFollows(t) /\ ToldWhenCancelled(t) /\ ShotIsCurrent(t) /\ FailureCounted(t))'
        BY <1>0, <1>13, <2>0, <2>1 DEF Write
    <3>2. status[t] \in Terminal \cup {"applying"} /\ ~behind'[t] => disk'[t] = status[t]
        BY <1>0, <2>0, <2>1 DEF Position
    <3>3. /\ status'[t] = status[t] /\ applied'[t] = applied[t] /\ req'[t] = req[t]
          /\ submit'[t] = submit[t]
        BY <1>13 DEF Write, handlers
    <3>4. (EndOnDisk(t) /\ Announced(t) /\ AppliedFollows(t))'
        BY <1>0, <2>0, <2>1, <3>2, <3>3
    <3>5. QED
        BY <3>1, <3>4
  <2>3. \A u \in Task \ {t} : Same(u)
    <3>1. \A u \in Task \ {t} : disk'[u] = disk[u] /\ behind'[u] = behind[u]
        BY <1>0, <1>13 DEF Write, WriteResult, WriteFails, TypeOK
    <3>2. QED
        BY <1>0, <1>13, <3>1, Goes DEF Write, Same, TypeOK, handlers
  <2>4. QED
      BY <2>2, <2>3
<1>14. CASE Apply(t)
  <2>1. applied'[t] \in BOOLEAN /\ \A u \in Task \ {t} : applied'[u] = applied[u]
      BY <1>0, <1>14 DEF Apply, TypeOK
  <2>2. TaskInv(t)'
      BY <1>0, <1>14, <2>1, Goes DEF Apply, handlers, file
  <2>3. \A u \in Task \ {t} : Same(u)
      BY <1>0, <1>14, <2>1, Goes DEF Apply, Same, handlers, file
  <2>4. QED
      BY <2>2, <2>3
<1>15. CASE Check(t)
  <2>1. CASE (\E s \in {"BLOCKED", "PASS"} : Save(t, s)) /\ UNCHANGED fails
    <3>1. TaskInv(t)'
        BY <1>0, <1>15, <2>1, Saves, Alone DEF Check
    <3>2. \A u \in Task \ {t} : Same(u)
        BY <1>0, <1>15, <2>1, Saves, Alone DEF Check, Same
    <3>3. QED
        BY <3>1, <3>2
  <2>2. ASSUME NEW f \in Feedback, fails' = [fails EXCEPT ![t] = Append(@, f)], Save(t, "FAIL")
        PROVE  TaskInv(t)' /\ \A u \in Task \ {t} : Same(u)
    <3>1. fails[t] \in Seq(Feedback) /\ fails'[t] = Append(fails[t], f)
        BY <1>0, <2>2 DEF TypeOK
    <3>2. Len(fails'[t]) > 0 /\ pc[t] = "check" /\ Stand(t)' = "FAIL"
        BY <1>0, <1>15, <2>2, <3>1, Saves DEF Check
    <3>3. TaskInv(t)'
        BY <1>0, <1>15, <2>2, <3>2, Saves, Alone DEF Check
    <3>4. \A u \in Task \ {t} : Same(u)
        BY <1>0, <1>15, <2>2, Saves, Alone DEF Check, Same, TypeOK
    <3>5. QED
        BY <3>3, <3>4
  <2>3. QED
      BY <1>15, <2>1, <2>2 DEF Check
<1>16. CASE Failed(t)
  <2>1. TaskInv(t)'
    <3>1. fails'[t] = fails[t] /\ pc[t] = "FAIL" /\ Stand(t) = "FAIL"
        BY <1>0, <1>16 DEF Failed
    <3>2. \/ Stand(t)' = "end" /\ pc'[t] = "snap" /\ status'[t] = "FAIL"
          \/ Stand(t)' = "attempt" /\ pc'[t] = "attempt" /\ status'[t] = status[t]
        BY <1>0, <1>16, Goes, Saves, Sets DEF Failed
    <3>3. QED
        BY <1>0, <1>16, <3>1, <3>2, Alone DEF Failed
  <2>2. \A u \in Task \ {t} : Same(u)
      BY <1>0, <1>16, Goes, Saves, Sets, Alone DEF Failed, Same, TypeOK
  <2>3. QED
      BY <2>1, <2>2
<1>17. CASE Progress(t)
  <2>1. TaskInv(t)'
      BY <1>0, <1>17, Goes, Saves, Sets, Alone DEF Progress
  <2>2. \A u \in Task \ {t} : Same(u)
      BY <1>0, <1>17, Goes, Saves, Sets, Alone DEF Progress, Same
  <2>3. QED
      BY <2>1, <2>2
<1>18. QED
    BY <1>1, <1>2, <1>3, <1>4, <1>5, <1>6, <1>7, <1>8, <1>9, <1>10, <1>11, <1>12, <1>13, <1>14,
       <1>15, <1>16, <1>17 DEF Runs, Generates

(* A step of a handler of t does, too.                                     *)
LEMMA HandlersKeep ==
    ASSUME IndInv, NEW t \in Task, Handles(t) \/ Admit(t) \/ Cancel(t) \/ ApplyTask(t)
    PROVE  TaskInv(t)' /\ \A u \in Task \ {t} : Same(u)
<1>0. TypeOK /\ TaskInv(t)
    BY DEF IndInv
<1> USE DEF TaskInv, StatusFollows, ToldWhenCancelled, ShotIsCurrent, AppliedFollows,
        FailureCounted, EndOnDisk, Announced, Stand, Done, At, Active, Terminal, Working, file
<1>1. CASE Submit(t)
  <2>1. status[t] = "none" /\ pc[t] = "none" /\ ~applied[t]
      BY <1>0, <1>1 DEF Submit
  <2>2. /\ status'[t] = "queued" /\ pc'[t] = "begin" /\ submit'[t] = "over"
      BY <1>0, <1>1 DEF Submit, TypeOK
  <2>3. TaskInv(t)'
      BY <1>0, <1>1, <2>1, <2>2 DEF Submit
  <2>4. \A u \in Task \ {t} : Same(u)
    <3>1. \A u \in Task \ {t} : disk'[u] = disk[u] /\ behind'[u] = behind[u]
        BY <1>0, <1>1 DEF Submit, WriteResult, WriteFails, TypeOK
    <3>2. QED
        BY <1>0, <1>1, <3>1 DEF Submit, Same, TypeOK
  <2>5. QED
      BY <2>3, <2>4
<1>2. CASE SubmitRefused(t) \/ Admit(t)
  <2>1. submit'[t] \in {"admitted", "over"} /\ (submit[t] = "over" => submit'[t] = "over")
      BY <1>0, <1>2 DEF SubmitRefused, Admit, TypeOK
  <2>2. TaskInv(t)'
      BY <1>0, <1>2, <2>1 DEF SubmitRefused, Admit, tasks, goroutine
  <2>3. \A u \in Task \ {t} : Same(u)
      BY <1>0, <1>2 DEF SubmitRefused, Admit, tasks, goroutine, Same, TypeOK
  <2>4. QED
      BY <2>2, <2>3
<1>3. CASE RequestSnap(t)
  <2>1. TaskInv(t)'
      BY <1>0, <1>3 DEF RequestSnap, tasks, goroutine, TypeOK
  <2>2. \A u \in Task \ {t} : Same(u)
      BY <1>0, <1>3 DEF RequestSnap, tasks, goroutine, Same, TypeOK
  <2>3. QED
      BY <2>1, <2>2
<1>4. CASE RequestWrite(t)
  <2>1. /\ \/ ~behind'[t] => disk'[t] = status[t]
           \/ disk'[t] = disk[t] /\ behind'[t] = behind[t]
        /\ \A u \in Task \ {t} : disk'[u] = disk[u] /\ behind'[u] = behind[u]
      BY <1>0, <1>4, Writes DEF RequestWrite, TypeOK
  <2>2. /\ UNCHANGED <<status, ctx, pc, to, shot, repeats, fails, applied, submit>>
        /\ req[t] = "write" /\ req'[t] = "no"
      BY <1>0, <1>4 DEF RequestWrite, goroutine, TypeOK
  <2>3. Stand(t)' = Stand(t)
      BY <2>2
  <2>4. (StatusFollows(t) /\ ToldWhenCancelled(t) /\ ShotIsCurrent(t) /\ FailureCounted(t))'
      BY <1>0, <2>2, <2>3
  <2>5. (AppliedFollows(t) /\ EndOnDisk(t) /\ Announced(t))'
      BY <1>0, <2>1, <2>2, <2>3
  <2>6. \A u \in Task \ {t} : Same(u)
      BY <1>0, <1>4, <2>1, <2>2 DEF RequestWrite, Same, TypeOK
  <2>7. QED
      BY <2>4, <2>5, <2>6
<1>5. CASE Cancel(t)
  <2>1. /\ req'[t] = "snap" /\ status[t] # "none"
        /\ \/ status[t] \in {"queued", "running"} /\ status'[t] = "draining" /\ ctx'[t]
           \/ status'[t] = status[t] /\ ctx'[t] = ctx[t]
      BY <1>0, <1>5 DEF Cancel, Requested, TypeOK
  <2>2. TaskInv(t)'
      BY <1>0, <1>5, <2>1 DEF Cancel, goroutine, file
  <2>3. \A u \in Task \ {t} : Same(u)
      BY <1>0, <1>5 DEF Cancel, Requested, goroutine, file, Same, TypeOK
  <2>4. QED
      BY <2>2, <2>3
<1>6. CASE ApplyTask(t)
  <2>1. /\ req'[t] = "snap" /\ status[t] = "PASS" /\ applied'[t]
        /\ behind'[t] = (behind[t] \/ disk[t] # "PASS")
      BY <1>0, <1>6 DEF ApplyTask, Requested, TypeOK
  <2>2. TaskInv(t)'
      BY <1>0, <1>6, <2>1 DEF ApplyTask, goroutine
  <2>3. \A u \in Task \ {t} : Same(u)
      BY <1>0, <1>6, <2>1 DEF ApplyTask, Requested, goroutine, Same, TypeOK
  <2>4. QED
      BY <2>2, <2>3
<1>7. QED
    BY <1>1, <1>2, <1>3, <1>4, <1>5, <1>6 DEF Handles

(* The end of the process leaves tasks of which only the files are known.  *)
LEMMA VanishKeeps == ASSUME IndInv, Vanish, NEW t \in Task PROVE TaskInv(t)'
<1>0. TypeOK /\ TaskInv(t)
    BY DEF IndInv
<1>1. /\ status'[t] = "none" /\ pc'[t] = "none" /\ to'[t] = "none" /\ repeats'[t] = 0
      /\ fails'[t] = <<>> /\ applied'[t] = applied[t] /\ disk'[t] = disk[t]
      /\ behind'[t] = behind[t] /\ req'[t] = "no"
      /\ submit'[t] = (IF submit[t] = "no" THEN "no" ELSE "over")
    BY DEF Vanish, None, file
<1>2. applied[t] => submit[t] = "over"
    BY <1>0 DEF TaskInv, AppliedFollows
<1>3. Stand(t)' = "none"
    BY <1>1 DEF Stand
<1>4. QED
    BY <1>0, <1>1, <1>2, <1>3 DEF TaskInv, StatusFollows, ToldWhenCancelled, ShotIsCurrent,
       AppliedFollows, FailureCounted, EndOnDisk, Announced, Done, At, Terminal, Working

(* The shutdown cancels, and changes nothing else of a task.               *)
LEMMA ShutTasksKeeps == ASSUME IndInv, ShutTasks, NEW t \in Task PROVE TaskInv(t)'
<1>0. TaskInv(t)
    BY DEF IndInv
<1>1. (ctx[t] => ctx'[t]) /\ Stand(t)' = Stand(t)
    BY DEF ShutTasks, goroutine, Stand
<1>2. QED
    BY <1>0, <1>1 DEF ShutTasks, goroutine, handlers, file, TaskInv, StatusFollows,
       ToldWhenCancelled, ShotIsCurrent, AppliedFollows, FailureCounted, EndOnDisk, Announced,
       Done, At

LEMMA RestSame ==
    ASSUME \/ ChatBegins \/ ChatEnds \/ Signal \/ ShutHandlers \/ Restart
           \/ UNCHANGED vars,
           NEW t \in Task
    PROVE  Same(t)
BY DEF ChatBegins, ChatEnds, Signal, ShutHandlers, Restart, vars, tasks, goroutine, handlers,
   process, file, Same

-----------------------------------------------------------------------------
(* The invariant holds initially, every step keeps it.                     *)
LEMMA Initially == Init => IndInv
<1> SUFFICES ASSUME Init PROVE IndInv
    OBVIOUS
<1>1. TypeOK
    BY DEF Init, TypeOK, None, Status, Position
<1>2. ASSUME NEW t \in Task PROVE TaskInv(t)
  <2>1. /\ status[t] = "none" /\ pc[t] = "none" /\ to[t] = "none" /\ repeats[t] = 0
        /\ fails[t] = <<>> /\ ~applied[t] /\ disk[t] = "none" /\ submit[t] = "no" /\ req[t] = "no"
      BY DEF Init, None
  <2>2. Stand(t) = "none"
      BY <2>1 DEF Stand
  <2>3. QED
      BY <2>1, <2>2 DEF TaskInv, StatusFollows, ToldWhenCancelled, ShotIsCurrent, AppliedFollows,
         FailureCounted, EndOnDisk, Announced, Done, At, Terminal, Working
<1>3. QED
    BY <1>1, <1>2 DEF IndInv

LEMMA StepKeeps == IndInv /\ [Next]_vars => IndInv'
<1> SUFFICES ASSUME IndInv, [Next]_vars PROVE IndInv'
    OBVIOUS
<1>1. TypeOK'
    BY TypesKept DEF IndInv
<1>2. ASSUME NEW u \in Task PROVE TaskInv(u)'
  <2>0. TaskInv(u)
      BY DEF IndInv
  <2>1. ASSUME NEW t \in Task, Runs(t) \/ Generates(t) \/ Panic(t) PROVE TaskInv(u)'
      BY <2>0, <2>1, RunsKeep, SameKeeps
  <2>2. ASSUME NEW t \in Task, Handles(t) \/ Admit(t) \/ Cancel(t) \/ ApplyTask(t)
        PROVE  TaskInv(u)'
      BY <2>0, <2>2, HandlersKeep, SameKeeps
  <2>3. CASE Exit \/ Expire \/ Crash
      BY <2>3, VanishKeeps DEF Exit, Expire, Crash
  <2>4. CASE ShutTasks
      BY <2>4, ShutTasksKeeps
  <2>5. CASE \/ ChatBegins \/ ChatEnds \/ Signal \/ ShutHandlers \/ Restart
             \/ UNCHANGED vars
      BY <2>0, <2>5, RestSame, SameKeeps
  <2>6. QED
      BY <2>1, <2>2, <2>3, <2>4, <2>5 DEF Next, Shutdown
<1>3. QED
    BY <1>1, <1>2 DEF IndInv

(* IndInv holds in every reachable state: what a task shows, what its      *)
(* result.json says and where its goroutine stands fit together.           *)
THEOREM Invariance == Spec => []IndInv
<1>1. QED
    BY Initially, StepKeeps, PTL DEF Spec

-----------------------------------------------------------------------------
(* Every variable keeps its type.                                          *)
THEOREM TypeCorrect == Spec => []TypeOK
<1>1. IndInv => TypeOK
    BY DEF IndInv
<1>2. QED
    BY <1>1, Invariance, PTL

(* A patch is in the repository only for a task that passed.               *)
THEOREM AppliedPassed == Spec => []AppliedMeansPassed
<1>1. IndInv => AppliedMeansPassed
    BY DEF IndInv, TaskInv, AppliedFollows, AppliedMeansPassed, PassedIfApplied
<1>2. QED
    BY <1>1, Invariance, PTL

(* The end of a task that no handler touched is in result.json.            *)
THEOREM Finished == Spec => []FinishedIsOnDisk
<1>1. IndInv => FinishedIsOnDisk
    BY DEF IndInv, TaskInv, FinishedIsOnDisk
<1>2. QED
    BY <1>1, Invariance, PTL

(* No patch is applied unannounced, whenever the process may stop.         *)
THEOREM AppliesAnnounced == Spec => []ApplyIsAnnounced
<1>1. IndInv => ApplyIsAnnounced
    BY DEF IndInv, TaskInv, ApplyIsAnnounced
<1>2. QED
    BY <1>1, Invariance, PTL

(* Both: the disk tells of every end and of every apply.                   *)
THEOREM OnDisk == Spec => []DiskTells
<1>1. FinishedIsOnDisk /\ ApplyIsAnnounced => DiskTells
    BY DEF DiskTells
<1>2. QED
    BY <1>1, Finished, AppliesAnnounced, PTL

(* A task whose status says that it is over stands at its end.             *)
LEMMA OverStands ==
    ASSUME IndInv, NEW t \in Task, status[t] \in Terminal
    PROVE  Stand(t) \in {"end", "done"}
<1>1. StatusFollows(t) /\ Stand(t) \in Position
    BY DEF IndInv, TaskInv, TypeOK, Stand
<1>2. QED
    BY <1>1 DEF StatusFollows, Position, Terminal

(* The end of a task is never taken back.                                  *)
THEOREM TerminalStays == Spec => TerminalIsFinal
<1>1. IndInv /\ [Next]_vars =>
          [\A t \in Task : status[t] \in Terminal => status'[t] \in {status[t], "none"}]_vars
  <2> SUFFICES ASSUME IndInv, [Next]_vars, NEW u \in Task, status[u] \in Terminal
               PROVE  status'[u] \in {status[u], "none"}
      OBVIOUS
  <2>0. TypeOK /\ Stand(u) \in {"end", "done"}
      BY OverStands DEF IndInv
  <2>1. ASSUME NEW t \in Task, Runs(t) \/ Generates(t) \/ Panic(t)
        PROVE  status'[u] = status[u]
    <3>1. CASE t = u
      <4>1. At(u, "snap") \/ At(u, "write") \/ At(u, "end") \/ At(u, "done")
          BY <2>0 DEF Stand, At
      <4>2. Snap(u) \/ Write(u) \/ End(u)
          BY <2>1, <3>1, <4>1 DEF At, Runs, Generates, Acquire, Panic, Begin, Attempt, Renounce,
             Progress, Generated, Check, Failed, Settle, Verify, Finish, Apply, Passed
      <4>3. QED
          BY <4>2 DEF Snap, Write, End
    <3>2. CASE t # u
        BY <2>1, <3>2, RunsKeep DEF Same
    <3>3. QED
        BY <3>1, <3>2
  <2>2. ASSUME NEW t \in Task, Handles(t) \/ Admit(t) \/ Cancel(t) \/ ApplyTask(t)
        PROVE  status'[u] = status[u]
    <3>1. CASE t = u
      <4>1. submit[u] = "over"
          BY DEF IndInv, TaskInv, AppliedFollows, Terminal
      <4>2. QED
          BY <2>2, <3>1, <4>1 DEF Handles, Submit, SubmitRefused, RequestSnap, RequestWrite,
             Admit, Cancel, ApplyTask, tasks, Terminal
    <3>2. CASE t # u
        BY <2>2, <3>2, HandlersKeep DEF Same
    <3>3. QED
        BY <3>1, <3>2
  <2>3. CASE Exit \/ Expire \/ Crash
      BY <2>3 DEF Exit, Expire, Crash, Vanish, None
  <2>4. CASE ShutTasks
      BY <2>4 DEF ShutTasks
  <2>5. CASE \/ ChatBegins \/ ChatEnds \/ Signal \/ ShutHandlers \/ Restart
             \/ UNCHANGED vars
      BY <2>5, RestSame DEF Same
  <2>6. QED
      BY <2>1, <2>2, <2>3, <2>4, <2>5 DEF Next, Shutdown
<1>2. QED
    BY <1>1, Invariance, PTL DEF Spec, TerminalIsFinal

-----------------------------------------------------------------------------
(* The refinement.  What is seen of a task depends on its status, on       *)
(* whether its goroutine is done, and on its context.                      *)
Seen(u) ==
    /\ status'[u] = "none" <=> status[u] = "none"
    /\ (Done(u)' <=> Done(u)) /\ (Done(u) => status'[u] = status[u])

LEMMA SeenSame ==
    ASSUME \A u \in Task : Seen(u)
    PROVE  Life' = Life /\ Outcome' = Outcome
BY DEF Seen, Life, Outcome

(* A task becomes known, is told to stop, ends: the steps of the promise.  *)
LEMMA GoroutineMaps ==
    ASSUME IndInv, NEW t \in Task, Runs(t) \/ Generates(t) \/ Panic(t)
    PROVE  (Life' = Life /\ Outcome' = Outcome /\ ctx' = ctx) \/ P!Over(t)
<1>0. /\ TypeOK /\ TaskInv(t) /\ Stand(t) \in Position
      /\ \A u \in Task \ {t} : Seen(u)
    BY RunsKeep DEF IndInv, TypeOK, Stand, Same, Seen, Done, At
<1>1. ctx' = ctx
    BY DEF Runs, Snap, Write, Begin, Attempt, Renounce, Generates, Progress, Generated, Check,
       Failed, Settle, Verify, Finish, Apply, Passed, End, Panic, Acquire, Around
<1>2. TaskInv(t)' /\ ~Done(t) /\ status[t] # "none"
  <2>1. pc[t] \notin {"none", "done"}
      BY DEF At, Runs, Generates, Acquire, Progress, Panic, Snap, Write, Begin, Attempt, Renounce,
         Generated, Check, Failed, Settle, Verify, Finish, Apply, Passed, End, Terminal
  <2>2. QED
      BY <1>0, <2>1, RunsKeep DEF TaskInv, StatusFollows, Stand, Done, At
<1>3. CASE ~Done(t)'
  <2>1. status'[t] # "none"
    <3>1. CASE Panic(t)
        BY <1>0, <3>1 DEF Panic, TypeOK
    <3>2. CASE Begin(t) \/ Finish(t) \/ Passed(t) \/ Failed(t)
        BY <1>0, <1>2, <3>2, Sets DEF Begin, Finish, Passed, Failed
    <3>3. CASE Attempt(t) \/ Settle(t) \/ Verify(t)
        BY <1>0, <1>2, <3>3, Sets DEF Attempt, Settle, Verify
    <3>4. CASE UNCHANGED status
        BY <1>2, <3>4
    <3>5. QED
        BY <3>1, <3>2, <3>3, <3>4 DEF Runs, Generates, Acquire, Progress, Snap, Write, Renounce,
           Generated, Check, Apply, End
  <2>2. Seen(t)
      BY <1>2, <1>3, <2>1 DEF Seen
  <2>3. QED
      BY <1>0, <1>1, <2>2, SeenSame
<1>4. CASE Done(t)'
  <2>1. status'[t] \in Terminal /\ (status'[t] = "CANCELLED" => ctx[t])
      BY <1>1, <1>2, <1>4 DEF TaskInv, StatusFollows, ToldWhenCancelled, Stand, Done, At
  <2>2. Life' = [Life EXCEPT ![t] = "over"] /\ Life[t] = "live"
      BY <1>0, <1>2, <1>4, <2>1 DEF Life, Seen, Terminal
  <2>3. Outcome' = [Outcome EXCEPT ![t] = status'[t]]
      BY <1>0, <1>4 DEF Outcome, Seen
  <2>4. QED
      BY <1>1, <2>1, <2>2, <2>3 DEF P!Over, P!Result, Terminal
<1>5. QED
    BY <1>3, <1>4

LEMMA HandlerMaps ==
    ASSUME IndInv, NEW t \in Task, Handles(t) \/ Admit(t) \/ Cancel(t) \/ ApplyTask(t)
    PROVE  \/ Life' = Life /\ Outcome' = Outcome /\ (ctx' = ctx \/ P!Tell({t}))
           \/ P!Born(t)
<1>0. /\ TypeOK /\ TaskInv(t)
      /\ \A u \in Task \ {t} : Seen(u)
    BY HandlersKeep DEF IndInv, Same, Seen, Done, At
<1>1. CASE Submit(t)
  <2>1. /\ status[t] = "none" /\ pc[t] = "none" /\ ctx' = ctx
        /\ status'[t] = "queued" /\ pc'[t] = "begin"
      BY <1>0, <1>1 DEF Submit, TypeOK, TaskInv, AppliedFollows, StatusFollows, Stand
  <2>2. Life[t] = "none" /\ Life' = [Life EXCEPT ![t] = "live"]
      BY <1>0, <2>1 DEF Life, Seen, Done, At
  <2>3. Outcome' = Outcome
      BY <1>0, <2>1 DEF Outcome, Seen, Done, At
  <2>4. QED
      BY <2>1, <2>2, <2>3 DEF P!Born
<1>2. CASE Cancel(t)
  <2>1. status[t] # "none" /\ status'[t] # "none" /\ pc' = pc
      BY <1>0, <1>2 DEF Cancel, Requested, TypeOK, goroutine
  <2>2. Done(t) => status'[t] = status[t]
      BY <1>0, <1>2 DEF Cancel, TaskInv, StatusFollows, Stand, Done, At, Terminal
  <2>3. Seen(t)
      BY <2>1, <2>2 DEF Seen, Done, At
  <2>4. ctx' = ctx \/ ctx' = [u \in Task |-> ctx[u] \/ u \in {t}]
    <3>1. ctx \in [Task -> BOOLEAN] /\ (ctx' = ctx \/ ctx' = [ctx EXCEPT ![t] = TRUE])
        BY <1>0, <1>2 DEF Cancel, TypeOK
    <3>2. CASE ctx' = [ctx EXCEPT ![t] = TRUE]
        BY <3>1, <3>2
    <3>3. QED
        BY <3>1, <3>2
  <2>5. Life' = Life /\ Outcome' = Outcome
      BY <1>0, <2>3, SeenSame
  <2>6. Life[t] # "none"
      BY <2>1 DEF Life
  <2>7. QED
      BY <2>4, <2>5, <2>6 DEF P!Tell
<1>3. CASE SubmitRefused(t) \/ RequestSnap(t) \/ RequestWrite(t) \/ Admit(t) \/ ApplyTask(t)
  <2>1. UNCHANGED <<status, pc, ctx>>
      BY <1>3 DEF SubmitRefused, RequestSnap, RequestWrite, Admit, ApplyTask, tasks, goroutine
  <2>2. QED
      BY <2>1 DEF Life, Outcome, Done, At
<1>4. QED
    BY <1>1, <1>2, <1>3 DEF Handles

LEMMA MapsInit == Init => P!PromiseInit
<1>1. Init => \A t \in Task : status[t] = "none" /\ pc[t] = "none"
    BY DEF Init, None
<1>2. QED
    BY <1>1 DEF Init, P!PromiseInit, Life, Outcome, Done, At

LEMMA MapsNext == IndInv /\ [Next]_vars => [P!PromiseNext]_(P!promise)
<1> SUFFICES ASSUME IndInv, [Next]_vars PROVE P!PromiseNext \/ UNCHANGED P!promise
    OBVIOUS
<1> USE DEF P!promise
<1>1. ASSUME NEW t \in Task, Runs(t) \/ Generates(t) \/ Panic(t)
      PROVE  P!PromiseNext \/ UNCHANGED P!promise
    BY <1>1, GoroutineMaps DEF P!PromiseNext
<1>2. ASSUME NEW t \in Task, Handles(t) \/ Admit(t) \/ Cancel(t) \/ ApplyTask(t)
      PROVE  P!PromiseNext \/ UNCHANGED P!promise
    BY <1>2, HandlerMaps DEF P!PromiseNext
<1>3. CASE Exit \/ Expire \/ Crash
  <2>1. \A t \in Task : status'[t] = "none" /\ pc'[t] = "none" /\ ~ctx'[t]
      BY <1>3 DEF Exit, Expire, Crash, Vanish, None
  <2>2. ctx' = [t \in Task |-> FALSE]
      BY <1>3 DEF Exit, Expire, Crash, Vanish
  <2>3. QED
      BY <2>1, <2>2 DEF P!PromiseNext, P!Forgotten, Life, Outcome, Done, At
<1>4. CASE ShutTasks
  <2>1. UNCHANGED <<status, pc>>
      BY <1>4 DEF ShutTasks, goroutine
  <2>2. Life' = Life /\ Outcome' = Outcome
      BY <2>1 DEF Life, Outcome, Done, At
  <2>3. ctx' = [t \in Task |-> ctx[t] \/ t \in {u \in Task : status[u] # "none"}]
      BY <1>4 DEF ShutTasks
  <2>4. \A t \in {u \in Task : status[u] # "none"} : Life[t] # "none"
      BY DEF Life
  <2>5. P!Tell({u \in Task : status[u] # "none"})
      BY <2>2, <2>3, <2>4 DEF P!Tell
  <2>6. QED
      BY <2>5 DEF P!PromiseNext
<1>5. CASE \/ ChatBegins \/ ChatEnds \/ Signal \/ ShutHandlers \/ Restart
           \/ UNCHANGED vars
  <2>1. UNCHANGED <<status, pc, ctx>>
      BY <1>5 DEF ChatBegins, ChatEnds, Signal, ShutHandlers, Restart, vars, tasks, goroutine
  <2>2. QED
      BY <2>1 DEF Life, Outcome, Done, At
<1>6. QED
    BY <1>1, <1>2, <1>3, <1>4, <1>5 DEF Next, Shutdown

(* Coding tasks implement what those who wait for them rely on.            *)
THEOREM PromiseKept == Spec => KeepsPromise
<1>1. QED
    BY Invariance, MapsInit, MapsNext, PTL DEF Spec, KeepsPromise, P!PromiseSafety
=============================================================================
