----------------------- MODULE ApplyTransactionProofs -----------------------
(***************************************************************************)
(* Proofs about ApplyTransaction, for any number of files, any of them new.*)
(* IndInv follows the transaction through its phases: what may be in the   *)
(* tree (HowFar), what is kept of it (BackedUp, NotYetWritten), what a     *)
(* rollback has undone (UndoneSoFar).  One lemma for each conjunct shows   *)
(* that every action keeps it.                                             *)
(***************************************************************************)
EXTENDS ApplyTransaction, TLAPS

(* The fields of a receipt, and of one that is changed in one of them.     *)
LEMMA ReceiptFields ==
    ASSUME NEW r \in Receipts
    PROVE  /\ r.status \in Statuses /\ r.applied \in 0..N /\ r.made \in BOOLEAN
           /\ \A s \in Statuses : /\ [r EXCEPT !.status = s] \in Receipts
                                  /\ [r EXCEPT !.status = s].status = s
                                  /\ [r EXCEPT !.status = s].applied = r.applied
                                  /\ [r EXCEPT !.status = s].made = r.made
           /\ \A n \in 0..N : /\ [r EXCEPT !.applied = n] \in Receipts
                              /\ [r EXCEPT !.applied = n].status = r.status
                              /\ [r EXCEPT !.applied = n].applied = n
           /\ \A d \in BOOLEAN : /\ [r EXCEPT !.made = d] \in Receipts
                                 /\ [r EXCEPT !.made = d].status = r.status
                                 /\ [r EXCEPT !.made = d].applied = r.applied
BY DEF Receipts

LEMMA Prepared ==
    /\ Receipt("PREPARED", 0, FALSE) \in Receipts
    /\ Receipt("PREPARED", 0, FALSE).status = "PREPARED"
    /\ Receipt("PREPARED", 0, FALSE).applied = 0
BY NAssumption DEF Receipt, Receipts, Statuses

(* What each action makes of the receipt in memory.                        *)
Fields(s, n) == rcpt' \in Receipts /\ rcpt'.status = s /\ rcpt'.applied = n

LEMMA ReceiptChanges ==
    ASSUME TypeOK
    PROVE  /\ BackUp => UNCHANGED rcpt \/ Fields("PREPARED", 0)
           /\ Stage => Fields(rcpt.status, rcpt.applied)
           /\ Rename => UNCHANGED rcpt \/ Fields(rcpt.status, i)
           /\ Finalize => Fields("APPLIED", rcpt.applied)
           /\ RollbackEntry => Fields("ROLLED_BACK", rcpt.applied)
           /\ Close => /\ Fields(IF errors THEN "ROLLBACK_UNCERTAIN" ELSE rcpt.status,
                                 rcpt.applied)
                       /\ rcpt'.made = rcpt.made
<1>1. rcpt \in Receipts /\ rcpt.made \in BOOLEAN /\ i \in 0..N
    BY ReceiptFields DEF TypeOK
<1>2. BackUp => UNCHANGED rcpt \/ Fields("PREPARED", 0)
    BY Prepared DEF BackUp, GiveUp, Fields
<1>3. ASSUME Stage PROVE Fields(rcpt.status, rcpt.applied)
  <2>1. PICK d \in BOOLEAN : rcpt' = [rcpt EXCEPT !.made = d]
      BY <1>1, <1>3 DEF Stage
  <2>2. QED
      BY <1>1, <2>1, ReceiptFields DEF Fields
<1>4. ASSUME Rename PROVE UNCHANGED rcpt \/ Fields(rcpt.status, i)
    BY <1>1, <1>4 DEF Rename, Fields, Receipts
<1>5. Finalize => Fields("APPLIED", rcpt.applied)
    BY <1>1 DEF Finalize, Fields, Statuses, Receipts
<1>6. RollbackEntry => Fields("ROLLED_BACK", rcpt.applied)
    BY <1>1 DEF RollbackEntry, Fields, Statuses, Receipts
<1>7. ASSUME Close
      PROVE  /\ Fields(IF errors THEN "ROLLBACK_UNCERTAIN" ELSE rcpt.status, rcpt.applied)
             /\ rcpt'.made = rcpt.made
  <2>1. DEFINE s == IF errors THEN "ROLLBACK_UNCERTAIN" ELSE rcpt.status
  <2>2. s \in Statuses /\ rcpt' = [rcpt EXCEPT !.status = s]
      BY <1>1, <1>7, ReceiptFields DEF Close, Statuses
  <2>3. QED
      BY <1>1, <2>2, ReceiptFields DEF Fields
<1>8. QED
    BY <1>2, <1>3, <1>4, <1>5, <1>6, <1>7

LEMMA ReceiptsKept ==
    ASSUME IndInv, [Next]_vars
    PROVE  rcpt' \in Receipts /\ disk' \in Receipts /\ rcpt'.applied \in 0..N
<1>1. rcpt \in Receipts /\ disk \in Receipts /\ rcpt.applied \in 0..N /\ i \in 0..N /\ 0 \in 0..N
    BY ReceiptFields, NAssumption DEF IndInv, TypeOK
<1>2. /\ BackUp \/ Stage \/ Rename \/ Finalize \/ RollbackEntry \/ Close \/ UNCHANGED rcpt
      /\ disk' \in {disk, rcpt'}
    BY DEF Next, vars, Begin, Inspect, BackUp, Stage, ParentFails, CheckAll, Verify,
       Rename,
           Record, Finalize, RollbackEntry, Restore, Clean, Close, Settle, Crash, Edit, Revert,
           GiveUp, Persist, PersistFails, diskVars
<1>3. rcpt' \in Receipts /\ rcpt'.applied \in 0..N
    BY <1>1, <1>2, ReceiptChanges DEF IndInv, Fields
<1>4. QED
    BY <1>1, <1>2, <1>3

(* The parts of TypeOK.                                                    *)
Position == pc \in Pcs /\ i \in 0..N /\ (pc # "rollback" => i \in Files)

TreeTypes ==
    /\ tree \in [Files -> Contents] /\ dir \in {"absent", "made", "theirs"}
    /\ temps \in SUBSET Files /\ backup \in SUBSET (Files \ New)

TaskTypes ==
    /\ failed \in BOOLEAN /\ errors \in BOOLEAN /\ status \in {"applying", "PASS"}
    /\ applied \in BOOLEAN /\ late \in SUBSET Files
    /\ told \in {"nothing", "applied", "refused", "uncertain", "unsaved"}

LEMMA PositionKept == IndInv /\ [Next]_vars => Position'
<1> SUFFICES ASSUME IndInv, [Next]_vars PROVE Position'
    OBVIOUS
<1> USE NAssumption, NewAssumption DEF Position, IndInv, TypeOK, Files
<1>0. rcpt'.applied \in 0..N /\ rcpt.applied \in 0..N
    BY ReceiptsKept, ReceiptFields
<1>1. CASE Begin
    BY <1>1, <1>0 DEF Begin, Goto, diskVars, taskVars, Pcs
<1>2. CASE Inspect
    BY <1>2, <1>0 DEF Inspect, GiveUp, Unchanged, Original, Goto, diskVars, taskVars,
       Pcs
<1>3. CASE BackUp
  <2>1. CASE GiveUp
      BY <1>3, <2>1 DEF BackUp, GiveUp, Goto, diskVars, taskVars, Pcs
  <2>2. CASE Goto("stage", 1)
      BY <2>2 DEF Goto, Pcs
  <2>3. CASE i # N /\ i \in Files /\ Goto("backup", i + 1)
      BY <2>3 DEF Goto, Pcs
  <2>4. QED
      BY <1>3, <2>1, <2>2, <2>3 DEF BackUp
<1>4. CASE Stage
    BY <1>4, <1>0 DEF Stage, RollBack, Persist, PersistFails, Goto, diskVars,
       taskVars, Pcs
<1>5. CASE ParentFails
    BY <1>5, <1>0 DEF ParentFails, RollBack, Goto, diskVars, taskVars, Pcs
<1>6. CASE CheckAll
    BY <1>6, <1>0 DEF CheckAll, RollBack, Unchanged, Original, Goto, diskVars,
       taskVars, Pcs
<1>7. CASE Verify
    BY <1>7, <1>0 DEF Verify, RollBack, Unchanged, Original, Goto, diskVars, taskVars,
       Pcs
<1>8. CASE Rename
    BY <1>8, <1>0 DEF Rename, RollBack, Goto, diskVars, taskVars, Pcs
<1>9. CASE Record
    BY <1>9, <1>0 DEF Record, RollBack, Persist, PersistFails, Goto, diskVars,
       taskVars, Pcs
<1>10. CASE Finalize
    BY <1>10, <1>0 DEF Finalize, RollBack, Persist, PersistFails, Goto, diskVars,
       taskVars, Pcs
<1>11. CASE RollbackEntry
    BY <1>11, <1>0 DEF RollbackEntry, Goto, diskVars, taskVars, Pcs
<1>12. CASE Restore
    BY <1>12, <1>0 DEF Restore, Original, Goto, diskVars, taskVars, Pcs
<1>13. CASE Clean
    BY <1>13, <1>0 DEF Clean, DirInUse, Goto, diskVars, taskVars, Pcs
<1>14. CASE Close
    BY <1>14, <1>0 DEF Close, Persist, PersistFails, Goto, diskVars, taskVars, Pcs
<1>15. CASE Settle
    BY <1>15, <1>0 DEF Settle, Goto, diskVars, taskVars, Pcs
<1>16. CASE Crash
    BY <1>16, <1>0 DEF Crash, Goto, diskVars, taskVars, Pcs
<1>17. ASSUME NEW f \in Files, Edit(f) PROVE Position'
    BY <1>17, <1>0 DEF Edit, Original, taskVars, Pcs
<1>18. ASSUME NEW f \in Files, Revert(f) PROVE Position'
    BY <1>18, <1>0 DEF Revert, Original, taskVars, Pcs
<1>19. CASE UNCHANGED vars
    BY <1>19, <1>0 DEF vars, Pcs
<1>20. QED
    BY <1>1, <1>2, <1>3, <1>4, <1>5, <1>6, <1>7, <1>8, <1>9, <1>10, <1>11, <1>12,
       <1>13, <1>14, <1>15, <1>16, <1>17, <1>18, <1>19 DEF Next

LEMMA TreeTypesKept == TypeOK /\ [Next]_vars => TreeTypes'
<1> SUFFICES ASSUME TypeOK, [Next]_vars PROVE TreeTypes'
    OBVIOUS
<1> USE NAssumption, NewAssumption DEF TreeTypes, TypeOK, Files
<1>1. CASE Begin
    BY <1>1 DEF Begin, Goto, diskVars, taskVars, Contents
<1>2. CASE Inspect
    BY <1>2 DEF Inspect, GiveUp, Unchanged, Original, Goto, diskVars, taskVars, Contents
<1>3. CASE BackUp
    BY <1>3 DEF BackUp, GiveUp, Persist, Goto, diskVars, taskVars, Contents
<1>4. CASE Stage
    BY <1>4 DEF Stage, RollBack, Persist, PersistFails, Goto, diskVars, taskVars,
       Contents
<1>5. CASE ParentFails
    BY <1>5 DEF ParentFails, RollBack, Goto, diskVars, taskVars, Contents
<1>6. CASE CheckAll
    BY <1>6 DEF CheckAll, RollBack, Unchanged, Original, Goto, diskVars, taskVars,
       Contents
<1>7. CASE Verify
    BY <1>7 DEF Verify, RollBack, Unchanged, Original, Goto, diskVars, taskVars,
       Contents
<1>8. CASE Rename
    BY <1>8 DEF Rename, RollBack, Goto, diskVars, taskVars, Contents
<1>9. CASE Record
    BY <1>9 DEF Record, RollBack, Persist, PersistFails, Goto, diskVars, taskVars,
       Contents
<1>10. CASE Finalize
    BY <1>10 DEF Finalize, RollBack, Persist, PersistFails, Goto, diskVars, taskVars,
       Contents
<1>11. CASE RollbackEntry
    BY <1>11 DEF RollbackEntry, Goto, diskVars, taskVars, Contents
<1>12. CASE Restore
    BY <1>12 DEF Restore, Original, Goto, diskVars, taskVars, Contents
<1>13. CASE Clean
    BY <1>13 DEF Clean, DirInUse, Goto, diskVars, taskVars, Contents
<1>14. CASE Close
    BY <1>14 DEF Close, Persist, PersistFails, Goto, diskVars, taskVars, Contents
<1>15. CASE Settle
    BY <1>15 DEF Settle, Goto, diskVars, taskVars, Contents
<1>16. CASE Crash
    BY <1>16 DEF Crash, Goto, diskVars, taskVars, Contents
<1>17. ASSUME NEW f \in Files, Edit(f) PROVE TreeTypes'
    BY <1>17 DEF Edit, Original, taskVars, Contents
<1>18. ASSUME NEW f \in Files, Revert(f) PROVE TreeTypes'
    BY <1>18 DEF Revert, Original, taskVars, Contents
<1>19. CASE UNCHANGED vars
    BY <1>19 DEF vars, Contents
<1>20. QED
    BY <1>1, <1>2, <1>3, <1>4, <1>5, <1>6, <1>7, <1>8, <1>9, <1>10, <1>11, <1>12,
       <1>13, <1>14, <1>15, <1>16, <1>17, <1>18, <1>19 DEF Next

LEMMA TaskTypesKept == TypeOK /\ [Next]_vars => TaskTypes'
<1> SUFFICES ASSUME TypeOK, [Next]_vars PROVE TaskTypes'
    OBVIOUS
<1> USE NAssumption, NewAssumption DEF TaskTypes, TypeOK, Files
<1>1. CASE Begin
    BY <1>1 DEF Begin, Goto, diskVars, taskVars
<1>2. CASE Inspect
    BY <1>2 DEF Inspect, GiveUp, Unchanged, Original, Goto, diskVars, taskVars
<1>3. CASE BackUp
    BY <1>3 DEF BackUp, GiveUp, Persist, Goto, diskVars, taskVars
<1>4. CASE Stage
    BY <1>4 DEF Stage, RollBack, Persist, PersistFails, Goto, diskVars, taskVars
<1>5. CASE ParentFails
    BY <1>5 DEF ParentFails, RollBack, Goto, diskVars, taskVars
<1>6. CASE CheckAll
    BY <1>6 DEF CheckAll, RollBack, Unchanged, Original, Goto, diskVars, taskVars
<1>7. CASE Verify
    BY <1>7 DEF Verify, RollBack, Unchanged, Original, Goto, diskVars, taskVars
<1>8. CASE Rename
    BY <1>8 DEF Rename, RollBack, Goto, diskVars, taskVars
<1>9. CASE Record
    BY <1>9 DEF Record, RollBack, Persist, PersistFails, Goto, diskVars, taskVars
<1>10. CASE Finalize
    BY <1>10 DEF Finalize, RollBack, Persist, PersistFails, Goto, diskVars, taskVars
<1>11. CASE RollbackEntry
    BY <1>11 DEF RollbackEntry, Goto, diskVars, taskVars
<1>12. CASE Restore
    BY <1>12 DEF Restore, Original, Goto, diskVars, taskVars
<1>13. CASE Clean
    BY <1>13 DEF Clean, DirInUse, Goto, diskVars, taskVars
<1>14. CASE Close
    BY <1>14 DEF Close, Persist, PersistFails, Goto, diskVars, taskVars
<1>15. CASE Settle
    BY <1>15 DEF Settle, Goto, diskVars, taskVars
<1>16. CASE Crash
    BY <1>16 DEF Crash, Goto, diskVars, taskVars
<1>17. ASSUME NEW f \in Files, Edit(f) PROVE TaskTypes'
    BY <1>17 DEF Edit, Original, taskVars
<1>18. ASSUME NEW f \in Files, Revert(f) PROVE TaskTypes'
    BY <1>18 DEF Revert, Original, taskVars
<1>19. CASE UNCHANGED vars
    BY <1>19 DEF vars
<1>20. QED
    BY <1>1, <1>2, <1>3, <1>4, <1>5, <1>6, <1>7, <1>8, <1>9, <1>10, <1>11, <1>12,
       <1>13, <1>14, <1>15, <1>16, <1>17, <1>18, <1>19 DEF Next

LEMMA CalmKept == IndInv /\ [Next]_vars => Calm'
<1> SUFFICES ASSUME IndInv, [Next]_vars PROVE Calm'
    OBVIOUS
<1> USE NAssumption, NewAssumption DEF IndInv, TypeOK, Calm, Files, Deferred, Checked
<1>1. CASE Begin
    BY <1>1 DEF Begin, Goto, diskVars, taskVars
<1>2. CASE Inspect
    BY <1>2 DEF Inspect, GiveUp, Unchanged, Original, Goto, diskVars, taskVars
<1>3. CASE BackUp
    BY <1>3, ReceiptChanges DEF BackUp, GiveUp, Persist, Goto, diskVars, taskVars,
       Fields
<1>4. CASE Stage
    BY <1>4, ReceiptChanges DEF Stage, RollBack, Persist, PersistFails, Goto,
       diskVars, taskVars, Fields
<1>5. CASE ParentFails
    BY <1>5 DEF ParentFails, RollBack, Goto, diskVars, taskVars
<1>6. CASE CheckAll
    BY <1>6 DEF CheckAll, RollBack, Unchanged, Original, Goto, diskVars, taskVars
<1>7. CASE Verify
    BY <1>7 DEF Verify, RollBack, Unchanged, Original, Goto, diskVars, taskVars
<1>8. CASE Rename
    BY <1>8, ReceiptChanges DEF Rename, RollBack, Goto, diskVars, taskVars, Fields
<1>9. CASE Record
    BY <1>9 DEF Record, RollBack, Persist, PersistFails, Goto, diskVars, taskVars
<1>10. CASE Finalize
    BY <1>10, ReceiptChanges DEF Finalize, RollBack, Persist, PersistFails, Goto,
       diskVars, taskVars, Fields
<1>11. CASE RollbackEntry
    BY <1>11, ReceiptChanges DEF RollbackEntry, Goto, diskVars, taskVars, Fields
<1>12. CASE Restore
    BY <1>12 DEF Restore, Original, Goto, diskVars, taskVars
<1>13. CASE Clean
    BY <1>13 DEF Clean, DirInUse, Goto, diskVars, taskVars
<1>14. CASE Close
    BY <1>14, ReceiptChanges DEF Close, Persist, PersistFails, Goto, diskVars,
       taskVars, Fields
<1>15. CASE Settle
    BY <1>15 DEF Settle, Goto, diskVars, taskVars
<1>16. CASE Crash
    BY <1>16 DEF Crash, Goto, diskVars, taskVars
<1>17. ASSUME NEW f \in Files, Edit(f) PROVE Calm'
    BY <1>17 DEF Edit, Original, taskVars
<1>18. ASSUME NEW f \in Files, Revert(f) PROVE Calm'
    BY <1>18 DEF Revert, Original, taskVars
<1>19. CASE UNCHANGED vars
    BY <1>19 DEF vars
<1>20. QED
    BY <1>1, <1>2, <1>3, <1>4, <1>5, <1>6, <1>7, <1>8, <1>9, <1>10, <1>11, <1>12,
       <1>13, <1>14, <1>15, <1>16, <1>17, <1>18, <1>19 DEF Next

LEMMA NotYetWrittenKept == IndInv /\ [Next]_vars => NotYetWritten'
<1> SUFFICES ASSUME IndInv, [Next]_vars PROVE NotYetWritten'
    OBVIOUS
<1> USE NAssumption, NewAssumption DEF IndInv, TypeOK, Calm, NotYetWritten, Files,
    Deferred, Checked
<1>1. CASE Begin
    BY <1>1 DEF Begin, Goto, diskVars, taskVars
<1>2. CASE Inspect
    BY <1>2 DEF Inspect, GiveUp, Unchanged, Original, Goto, diskVars, taskVars
<1>3. CASE BackUp
  <2>1. CASE GiveUp
      BY <1>3, <2>1 DEF BackUp, GiveUp, Goto, diskVars, taskVars
  <2>2. CASE ~GiveUp /\ i = N
      BY <1>3, <2>2, Prepared DEF BackUp, Persist, Goto, diskVars, taskVars
  <2>3. CASE ~GiveUp /\ i # N
      BY <1>3, <2>3, Prepared DEF BackUp, Persist, Goto, diskVars, taskVars
  <2>4. QED
      BY <2>1, <2>2, <2>3
<1>4. CASE Stage
    BY <1>4, ReceiptChanges DEF Stage, RollBack, Persist, PersistFails, Goto,
       diskVars, taskVars, Fields
<1>5. CASE ParentFails
    BY <1>5 DEF ParentFails, RollBack, Goto, diskVars, taskVars
<1>6. CASE CheckAll
    BY <1>6 DEF CheckAll, RollBack, Unchanged, Original, Goto, diskVars, taskVars
<1>7. CASE Verify
    BY <1>7 DEF Verify, RollBack, Unchanged, Original, Goto, diskVars, taskVars
<1>8. CASE Rename
    BY <1>8, ReceiptChanges DEF Rename, RollBack, Goto, diskVars, taskVars, Fields
<1>9. CASE Record
    BY <1>9 DEF Record, RollBack, Persist, PersistFails, Goto, diskVars, taskVars
<1>10. CASE Finalize
    BY <1>10, ReceiptChanges DEF Finalize, RollBack, Persist, PersistFails, Goto,
       diskVars, taskVars, Fields
<1>11. CASE RollbackEntry
    BY <1>11, ReceiptChanges DEF RollbackEntry, Goto, diskVars, taskVars, Fields
<1>12. CASE Restore
    BY <1>12 DEF Restore, Original, Goto, diskVars, taskVars
<1>13. CASE Clean
    BY <1>13 DEF Clean, DirInUse, Goto, diskVars, taskVars
<1>14. CASE Close
  <2>1. disk'.status # "none" /\ UNCHANGED <<tree, dir, temps>> /\ pc' = "settle"
    <3>1. disk.status # "none" /\ rcpt.status # "none"
        BY <1>14 DEF Close
    <3>2. rcpt'.status # "none"
        BY <1>14, <3>1, ReceiptChanges DEF Fields
    <3>3. QED
        BY <1>14, <3>1, <3>2 DEF Close, Persist, PersistFails, Goto
  <2>2. QED
      BY <2>1
<1>15. CASE Settle
    BY <1>15 DEF Settle, Goto, diskVars, taskVars
<1>16. CASE Crash
    BY <1>16 DEF Crash, Goto, diskVars, taskVars
<1>17. ASSUME NEW f \in Files, Edit(f) PROVE NotYetWritten'
    BY <1>17 DEF Edit, Original, taskVars
<1>18. ASSUME NEW f \in Files, Revert(f) PROVE NotYetWritten'
    BY <1>18 DEF Revert, Original, taskVars
<1>19. CASE UNCHANGED vars
    BY <1>19 DEF vars
<1>20. QED
    BY <1>1, <1>2, <1>3, <1>4, <1>5, <1>6, <1>7, <1>8, <1>9, <1>10, <1>11, <1>12,
       <1>13, <1>14, <1>15, <1>16, <1>17, <1>18, <1>19 DEF Next

LEMMA HowFarKept == IndInv /\ [Next]_vars => HowFar'
<1> SUFFICES ASSUME IndInv, [Next]_vars PROVE HowFar'
    OBVIOUS
<1> USE NAssumption, NewAssumption DEF IndInv, TypeOK, Calm, HowFar, Files, Deferred,
    Checked
<1>1. CASE Begin
    BY <1>1 DEF Begin, Goto, diskVars, taskVars
<1>2. CASE Inspect
    BY <1>2 DEF Inspect, GiveUp, Unchanged, Original, Goto, diskVars, taskVars
<1>3. CASE BackUp
  <2>1. CASE GiveUp
      BY <1>3, <2>1 DEF BackUp, GiveUp, Goto, diskVars, taskVars
  <2>2. CASE ~GiveUp /\ i = N
      BY <1>3, <2>2, Prepared DEF BackUp, Persist, Goto, diskVars, taskVars
  <2>3. CASE ~GiveUp /\ i # N
      BY <1>3, <2>3, Prepared DEF BackUp, Persist, Goto, diskVars, taskVars
  <2>4. QED
      BY <2>1, <2>2, <2>3
<1>4. CASE Stage
    BY <1>4, ReceiptChanges DEF Stage, RollBack, Persist, PersistFails, Goto,
       diskVars, taskVars, Fields
<1>5. CASE ParentFails
    BY <1>5 DEF ParentFails, RollBack, Goto, diskVars, taskVars
<1>6. CASE CheckAll
    BY <1>6 DEF CheckAll, RollBack, Unchanged, Original, Goto, diskVars, taskVars
<1>7. CASE Verify
    BY <1>7 DEF Verify, RollBack, Unchanged, Original, Goto, diskVars, taskVars
<1>8. CASE Rename
  <2>1. CASE UNCHANGED rcpt
    <3>1. CASE pc' = "rollback"
        BY <3>1
    <3>2. CASE pc' = "record"
        BY <1>8, <2>1, <3>2 DEF Rename, RollBack, Goto, Receipts
    <3>3. QED
        BY <1>8, <3>1, <3>2 DEF Rename, RollBack, Goto
  <2>2. CASE Fields(rcpt.status, i)
      BY <1>8, <2>2 DEF Rename, RollBack, Goto, diskVars, taskVars, Fields
  <2>3. QED
      BY <1>8, <2>1, <2>2, ReceiptChanges
<1>9. CASE Record
    BY <1>9 DEF Record, RollBack, Persist, PersistFails, Goto, diskVars, taskVars
<1>10. CASE Finalize
    BY <1>10, ReceiptChanges DEF Finalize, RollBack, Persist, PersistFails, Goto,
       diskVars, taskVars, Fields
<1>11. CASE RollbackEntry
    BY <1>11, ReceiptChanges DEF RollbackEntry, Goto, diskVars, taskVars, Fields
<1>12. CASE Restore
    BY <1>12 DEF Restore, Original, Goto, diskVars, taskVars
<1>13. CASE Clean
    BY <1>13 DEF Clean, DirInUse, Goto, diskVars, taskVars
<1>14. CASE Close
    BY <1>14, ReceiptChanges DEF Close, Persist, PersistFails, Goto, diskVars,
       taskVars, Fields
<1>15. CASE Settle
    BY <1>15 DEF Settle, Goto, diskVars, taskVars
<1>16. CASE Crash
    BY <1>16 DEF Crash, Goto, diskVars, taskVars
<1>17. ASSUME NEW f \in Files, Edit(f) PROVE HowFar'
    BY <1>17 DEF Edit, Original, taskVars
<1>18. ASSUME NEW f \in Files, Revert(f) PROVE HowFar'
    BY <1>18 DEF Revert, Original, taskVars
<1>19. CASE UNCHANGED vars
    BY <1>19 DEF vars
<1>20. QED
    BY <1>1, <1>2, <1>3, <1>4, <1>5, <1>6, <1>7, <1>8, <1>9, <1>10, <1>11, <1>12,
       <1>13, <1>14, <1>15, <1>16, <1>17, <1>18, <1>19 DEF Next

LEMMA BackedUpKept == IndInv /\ [Next]_vars => BackedUp'
<1> SUFFICES ASSUME IndInv, [Next]_vars PROVE BackedUp'
    OBVIOUS
<1> USE NAssumption, NewAssumption DEF IndInv, TypeOK, Calm, BackedUp, Files,
    Deferred, Checked
<1>1. CASE Begin
    BY <1>1 DEF Begin, Goto, diskVars, taskVars
<1>2. CASE Inspect
    BY <1>2 DEF Inspect, GiveUp, Unchanged, Original, Goto, diskVars, taskVars
<1>3. CASE BackUp
  <2>1. CASE GiveUp
      BY <1>3, <2>1 DEF BackUp, GiveUp, Goto, diskVars, taskVars
  <2>2. CASE ~GiveUp
    <3>1. \A f \in Files : tree'[f] # "after"
        BY <1>3, <2>2 DEF BackUp, HowFar
    <3>2. i \in Files /\ pc' \in {"backup", "stage"} /\ (pc' = "stage" => i = N)
        BY <1>3, <2>2 DEF BackUp, Goto
    <3>3. pc' = "backup" => i' = i + 1
        BY <1>3, <2>2 DEF BackUp, Goto
    <3>4. \A f \in Files : f < i + 1 => f \in New \/ f \in backup'
      <4> SUFFICES ASSUME NEW f \in Files, f < i + 1, f \notin New PROVE f \in backup'
          OBVIOUS
      <4>1. backup' = (IF i = 1 THEN {} ELSE backup) \cup ({i} \ New)
          BY <1>3, <2>2 DEF BackUp
      <4>2. CASE f = i
          BY <4>1, <4>2
      <4>3. CASE f # i
        <5>1. f < i /\ i # 1
            BY <3>2, <4>3
        <5>2. f \in backup
            BY <1>3, <2>2, <5>1 DEF BackUp
        <5>3. QED
            BY <4>1, <5>1, <5>2
      <4>4. QED
          BY <4>2, <4>3
    <3>5. QED
        BY <3>1, <3>2, <3>3, <3>4
  <2>4. QED
      BY <2>1, <2>2
<1>4. CASE Stage
    BY <1>4, ReceiptChanges DEF Stage, RollBack, Persist, PersistFails, Goto,
       diskVars, taskVars, Fields
<1>5. CASE ParentFails
    BY <1>5 DEF ParentFails, RollBack, Goto, diskVars, taskVars
<1>6. CASE CheckAll
    BY <1>6 DEF CheckAll, RollBack, Unchanged, Original, Goto, diskVars, taskVars
<1>7. CASE Verify
    BY <1>7 DEF Verify, RollBack, Unchanged, Original, Goto, diskVars, taskVars
<1>8. CASE Rename
    BY <1>8, ReceiptChanges DEF Rename, RollBack, Goto, diskVars, taskVars, Fields
<1>9. CASE Record
    BY <1>9 DEF Record, RollBack, Persist, PersistFails, Goto, diskVars, taskVars
<1>10. CASE Finalize
    BY <1>10, ReceiptChanges DEF Finalize, RollBack, Persist, PersistFails, Goto,
       diskVars, taskVars, Fields
<1>11. CASE RollbackEntry
    BY <1>11, ReceiptChanges DEF RollbackEntry, Goto, diskVars, taskVars, Fields
<1>12. CASE Restore
    BY <1>12 DEF Restore, Original, Goto, diskVars, taskVars
<1>13. CASE Clean
    BY <1>13 DEF Clean, DirInUse, Goto, diskVars, taskVars
<1>14. CASE Close
    BY <1>14, ReceiptChanges DEF Close, Persist, PersistFails, Goto, diskVars,
       taskVars, Fields
<1>15. CASE Settle
    BY <1>15 DEF Settle, Goto, diskVars, taskVars
<1>16. CASE Crash
    BY <1>16 DEF Crash, Goto, diskVars, taskVars
<1>17. ASSUME NEW f \in Files, Edit(f) PROVE BackedUp'
    BY <1>17 DEF Edit, Original, taskVars
<1>18. ASSUME NEW f \in Files, Revert(f) PROVE BackedUp'
    BY <1>18 DEF Revert, Original, taskVars
<1>19. CASE UNCHANGED vars
    BY <1>19 DEF vars
<1>20. QED
    BY <1>1, <1>2, <1>3, <1>4, <1>5, <1>6, <1>7, <1>8, <1>9, <1>10, <1>11, <1>12,
       <1>13, <1>14, <1>15, <1>16, <1>17, <1>18, <1>19 DEF Next

LEMMA UndoneSoFarKept == IndInv /\ [Next]_vars => UndoneSoFar'
<1> SUFFICES ASSUME IndInv, [Next]_vars PROVE UndoneSoFar'
    OBVIOUS
<1> USE NAssumption, NewAssumption DEF IndInv, TypeOK, Calm, UndoneSoFar, HowFar,
    Files, Deferred, Checked
<1>1. CASE Begin
    BY <1>1 DEF Begin, Goto, diskVars, taskVars
<1>2. CASE Inspect
    BY <1>2 DEF Inspect, GiveUp, Unchanged, Original, Goto, diskVars, taskVars
<1>3. CASE BackUp
    BY <1>3, ReceiptChanges DEF BackUp, GiveUp, Persist, Goto, diskVars, taskVars,
       Fields
<1>4. CASE Stage
    BY <1>4, ReceiptChanges DEF Stage, RollBack, Persist, PersistFails, Goto,
       diskVars, taskVars, Fields
<1>5. CASE ParentFails
    BY <1>5 DEF ParentFails, RollBack, Goto, diskVars, taskVars
<1>6. CASE CheckAll
    BY <1>6 DEF CheckAll, RollBack, Unchanged, Original, Goto, diskVars, taskVars
<1>7. CASE Verify
    BY <1>7 DEF Verify, RollBack, Unchanged, Original, Goto, diskVars, taskVars
<1>8. CASE Rename
    BY <1>8, ReceiptChanges DEF Rename, RollBack, Goto, diskVars, taskVars, Fields
<1>9. CASE Record
    BY <1>9 DEF Record, RollBack, Persist, PersistFails, Goto, diskVars, taskVars
<1>10. CASE Finalize
    BY <1>10, ReceiptChanges DEF Finalize, RollBack, Persist, PersistFails, Goto,
       diskVars, taskVars, Fields
<1>11. CASE RollbackEntry
    BY <1>11, ReceiptChanges DEF RollbackEntry, Goto, diskVars, taskVars, Fields
<1>12. CASE Restore
  <2>1. CASE tree' = [tree EXCEPT ![i] = Original(i)]
    <3>1. i \in Files /\ pc' = "rollback" /\ i' = i - 1 /\ failed'
        BY <1>12 DEF Restore, Goto
    <3>2. ~errors' => ~errors
        BY <1>12, <2>1 DEF Restore
    <3>3. tree'[i] # "after"
        BY <2>1, <3>1 DEF Original
    <3>4. \A f \in Files \ {i} : tree'[f] = tree[f]
        BY <2>1
    <3>5. ~errors' => \A f \in Files : tree'[f] = "after" => f <= i - 1
        BY <1>12, <3>1, <3>2, <3>3, <3>4 DEF Restore
    <3>6. QED
        BY <3>1, <3>5
  <2>2. CASE UNCHANGED tree /\ errors'
      BY <1>12, <2>2 DEF Restore, Goto
  <2>3. QED
      BY <1>12, <2>1, <2>2 DEF Restore
<1>13. CASE Clean
    BY <1>13 DEF Clean, DirInUse, Goto, diskVars, taskVars
<1>14. CASE Close
    BY <1>14, ReceiptChanges DEF Close, Persist, PersistFails, Goto, diskVars,
       taskVars, Fields
<1>15. CASE Settle
    BY <1>15 DEF Settle, Goto, diskVars, taskVars
<1>16. CASE Crash
    BY <1>16 DEF Crash, Goto, diskVars, taskVars
<1>17. ASSUME NEW f \in Files, Edit(f) PROVE UndoneSoFar'
    BY <1>17 DEF Edit, Original, taskVars
<1>18. ASSUME NEW f \in Files, Revert(f) PROVE UndoneSoFar'
    BY <1>18 DEF Revert, Original, taskVars
<1>19. CASE UNCHANGED vars
    BY <1>19 DEF vars
<1>20. QED
    BY <1>1, <1>2, <1>3, <1>4, <1>5, <1>6, <1>7, <1>8, <1>9, <1>10, <1>11, <1>12,
       <1>13, <1>14, <1>15, <1>16, <1>17, <1>18, <1>19 DEF Next

LEMMA AppliedIsFinalKept == IndInv /\ [Next]_vars => AppliedIsFinal'
<1> SUFFICES ASSUME IndInv, [Next]_vars PROVE AppliedIsFinal'
    OBVIOUS
<1> USE NAssumption, NewAssumption DEF IndInv, TypeOK, Calm, AppliedIsFinal, Files,
    Deferred, Checked
<1>1. CASE Begin
    BY <1>1 DEF Begin, Goto, diskVars, taskVars
<1>2. CASE Inspect
    BY <1>2 DEF Inspect, GiveUp, Unchanged, Original, Goto, diskVars, taskVars
<1>3. CASE BackUp
    BY <1>3, ReceiptChanges DEF BackUp, GiveUp, Persist, Goto, diskVars, taskVars,
       Fields
<1>4. CASE Stage
    BY <1>4, ReceiptChanges DEF Stage, RollBack, Persist, PersistFails, Goto,
       diskVars, taskVars, Fields
<1>5. CASE ParentFails
    BY <1>5 DEF ParentFails, RollBack, Goto, diskVars, taskVars
<1>6. CASE CheckAll
    BY <1>6 DEF CheckAll, RollBack, Unchanged, Original, Goto, diskVars, taskVars
<1>7. CASE Verify
    BY <1>7 DEF Verify, RollBack, Unchanged, Original, Goto, diskVars, taskVars
<1>8. CASE Rename
    BY <1>8, ReceiptChanges DEF Rename, RollBack, Goto, diskVars, taskVars, Fields
<1>9. CASE Record
    BY <1>9 DEF Record, RollBack, Persist, PersistFails, Goto, diskVars, taskVars
<1>10. CASE Finalize
    BY <1>10, ReceiptChanges DEF Finalize, RollBack, Persist, PersistFails, Goto,
       diskVars, taskVars, Fields
<1>11. CASE RollbackEntry
    BY <1>11, ReceiptChanges DEF RollbackEntry, Goto, diskVars, taskVars, Fields
<1>12. CASE Restore
    BY <1>12 DEF Restore, Original, Goto, diskVars, taskVars
<1>13. CASE Clean
    BY <1>13 DEF Clean, DirInUse, Goto, diskVars, taskVars
<1>14. CASE Close
    BY <1>14, ReceiptChanges DEF Close, Persist, PersistFails, Goto, diskVars,
       taskVars, Fields
<1>15. CASE Settle
    BY <1>15 DEF Settle, Goto, diskVars, taskVars
<1>16. CASE Crash
    BY <1>16 DEF Crash, Goto, diskVars, taskVars
<1>17. ASSUME NEW f \in Files, Edit(f) PROVE AppliedIsFinal'
    BY <1>17 DEF Edit, Original, taskVars
<1>18. ASSUME NEW f \in Files, Revert(f) PROVE AppliedIsFinal'
    BY <1>18 DEF Revert, Original, taskVars
<1>19. CASE UNCHANGED vars
    BY <1>19 DEF vars
<1>20. QED
    BY <1>1, <1>2, <1>3, <1>4, <1>5, <1>6, <1>7, <1>8, <1>9, <1>10, <1>11, <1>12,
       <1>13, <1>14, <1>15, <1>16, <1>17, <1>18, <1>19 DEF Next

LEMMA EditsAreSeenKept == IndInv /\ [Next]_vars => EditsAreSeen'
<1> SUFFICES ASSUME IndInv, [Next]_vars PROVE EditsAreSeen'
    OBVIOUS
<1> USE NAssumption, NewAssumption DEF IndInv, TypeOK, Calm, EditsAreSeen, Files,
    Deferred, Checked
<1>1. CASE Begin
    BY <1>1 DEF Begin, Goto, diskVars, taskVars
<1>2. CASE Inspect
    BY <1>2 DEF Inspect, GiveUp, Unchanged, Original, Goto, diskVars, taskVars
<1>3. CASE BackUp
    BY <1>3, ReceiptChanges DEF BackUp, GiveUp, Persist, Goto, diskVars, taskVars,
       Fields
<1>4. CASE Stage
    BY <1>4, ReceiptChanges DEF Stage, RollBack, Persist, PersistFails, Goto,
       diskVars, taskVars, Fields
<1>5. CASE ParentFails
    BY <1>5 DEF ParentFails, RollBack, Goto, diskVars, taskVars
<1>6. CASE CheckAll
    BY <1>6 DEF CheckAll, RollBack, Unchanged, Original, Goto, diskVars, taskVars
<1>7. CASE Verify
    BY <1>7 DEF Verify, RollBack, Unchanged, Original, Goto, diskVars, taskVars
<1>8. CASE Rename
    BY <1>8, ReceiptChanges DEF Rename, RollBack, Goto, diskVars, taskVars, Fields
<1>9. CASE Record
    BY <1>9 DEF Record, RollBack, Persist, PersistFails, Goto, diskVars, taskVars
<1>10. CASE Finalize
    BY <1>10, ReceiptChanges DEF Finalize, RollBack, Persist, PersistFails, Goto,
       diskVars, taskVars, Fields
<1>11. CASE RollbackEntry
    BY <1>11, ReceiptChanges DEF RollbackEntry, Goto, diskVars, taskVars, Fields
<1>12. CASE Restore
    BY <1>12 DEF Restore, Original, Goto, diskVars, taskVars
<1>13. CASE Clean
    BY <1>13 DEF Clean, DirInUse, Goto, diskVars, taskVars
<1>14. CASE Close
    BY <1>14, ReceiptChanges DEF Close, Persist, PersistFails, Goto, diskVars,
       taskVars, Fields
<1>15. CASE Settle
    BY <1>15 DEF Settle, Goto, diskVars, taskVars
<1>16. CASE Crash
    BY <1>16 DEF Crash, Goto, diskVars, taskVars
<1>17. ASSUME NEW f \in Files, Edit(f) PROVE EditsAreSeen'
    BY <1>17 DEF Edit, Original, taskVars
<1>18. ASSUME NEW f \in Files, Revert(f) PROVE EditsAreSeen'
    BY <1>18 DEF Revert, Original, taskVars
<1>19. CASE UNCHANGED vars
    BY <1>19 DEF vars
<1>20. QED
    BY <1>1, <1>2, <1>3, <1>4, <1>5, <1>6, <1>7, <1>8, <1>9, <1>10, <1>11, <1>12,
       <1>13, <1>14, <1>15, <1>16, <1>17, <1>18, <1>19 DEF Next

LEMMA TypesKept == IndInv /\ [Next]_vars => TypeOK'
<1> SUFFICES ASSUME IndInv, [Next]_vars PROVE TypeOK'
    OBVIOUS
<1>1. TypeOK
    BY DEF IndInv
<1>2. Position' /\ TreeTypes' /\ TaskTypes'
    BY <1>1, PositionKept, TreeTypesKept, TaskTypesKept
<1>3. rcpt' \in Receipts /\ disk' \in Receipts
    BY ReceiptsKept
<1>4. HowFar'
    BY HowFarKept
<1>5. QED
    BY <1>2, <1>3, <1>4 DEF Position, TreeTypes, TaskTypes, HowFar, TypeOK, Checked

LEMMA InitInv == Init => IndInv
<1> SUFFICES ASSUME Init PROVE IndInv
    OBVIOUS
<1>1. NoReceipt \in Receipts /\ NoReceipt.status = "none"
    BY NAssumption DEF NoReceipt, Receipt, Receipts, Statuses
<1>2. TypeOK
  <2>1. tree \in [Files -> Contents]
      BY DEF Init, Original, Contents
  <2>2. i \in Files /\ i \in 0..N
      BY NAssumption DEF Init, Files
  <2>3. QED
      BY <1>1, <2>1, <2>2 DEF Init, TypeOK, Pcs
<1>3. \A f \in Files : tree[f] # "after"
    BY DEF Init, Original
<1>4. NotYetWritten /\ HowFar /\ BackedUp
    BY <1>3 DEF Init, NotYetWritten, HowFar, BackedUp, Deferred, Checked
<1>5. QED
    BY <1>2, <1>4 DEF Init, IndInv, Calm, UndoneSoFar, AppliedIsFinal, EditsAreSeen

(* The invariant, for any number of files.                                 *)
THEOREM Invariance == Spec => []IndInv
<1>1. Init => IndInv
    BY InitInv
<1>2. IndInv /\ [Next]_vars => IndInv'
    BY TypesKept, CalmKept, NotYetWrittenKept, HowFarKept, BackedUpKept,
       UndoneSoFarKept,
       AppliedIsFinalKept, EditsAreSeenKept DEF IndInv
<1>3. QED
    BY <1>1, <1>2, PTL DEF Spec

(* Every variable has its type, and the position agrees with the receipt.  *)
THEOREM TypeCorrect == Spec => []TypeOK
<1>1. IndInv => TypeOK
    BY DEF IndInv
<1>2. QED
    BY <1>1, Invariance, PTL

LEMMA InvTells == IndInv => TrailTellsTheTree
<1> SUFFICES ASSUME IndInv PROVE CrashLeavesATrail /\ ReceiptTracksTree
    BY DEF TrailTellsTheTree
<1>1. CrashLeavesATrail
    BY DEF CrashLeavesATrail, IndInv, NotYetWritten, BackedUp
<1>2. ASSUME NEW f \in Files, tree[f] = "after",
             pc \in {"stage", "check", "verify", "rename", "record", "finalize"}
      PROVE  f <= disk.applied + 1
    BY <1>2, NAssumption DEF IndInv, TypeOK, HowFar, Checked, Files
<1>3. QED
    BY <1>1, <1>2 DEF ReceiptTracksTree, IndInv, AppliedIsFinal

(* Whenever the process may die, the receipt and the backups on disk tell  *)
(* how far the user's repository was changed, and a task that counts as    *)
(* applied is applied as a whole.                                          *)
THEOREM TrailIsLeft == Spec => []TrailTellsTheTree
BY Invariance, InvTells, PTL

(* An application that is refused without a word about its rollback leaves *)
(* nothing behind.                                                         *)
THEOREM Undone == Spec => RefusalUndoesEverything
<1>1. IndInv /\ [Next]_vars => [RefusalUndoes]_vars
  <2> SUFFICES ASSUME IndInv, [Next]_vars, pc = "save", pc' = "settle", told' = "refused"
               PROVE  /\ \A f \in Files : tree[f] # "after"
                      /\ rcpt.made => dir # "made"
      BY DEF RefusalUndoes
  <2>1. Close
      BY DEF Next, vars, Begin, Inspect, BackUp, Stage, ParentFails, CheckAll, Verify,
         Rename,
             Record, Finalize, RollbackEntry, Restore, Clean, Settle, Crash, Edit, Revert, Goto
  <2>2. failed /\ ~errors
      BY <2>1 DEF Close
  <2>3. QED
      BY <2>2 DEF IndInv, UndoneSoFar
<1>2. QED
    BY <1>1, Invariance, PTL DEF Spec, RefusalUndoesEverything

(* The user's edits are lost only in the window between the last check of  *)
(* a file and its rename.                                                  *)
THEOREM EditsKept == Spec => EditsSurvive
<1>1. IndInv /\ [Next]_vars => [OverwritesOnlyUnseen]_vars
  <2> SUFFICES ASSUME IndInv, [Next]_vars, NEW f \in Files, tree[f] = "edited",
                      tree'[f] # "edited", pc' # pc
               PROVE  f \in late
      BY DEF OverwritesOnlyUnseen
  <2>1. Rename \/ Restore
      BY DEF Next, vars, diskVars, Begin, Inspect, BackUp, Stage, ParentFails,
         CheckAll, Verify,
             Record, Finalize, RollbackEntry, Clean, Close, Settle, Crash, Edit, Revert, GiveUp
  <2>2. f = i /\ pc \in {"rename", "restore"}
      BY <2>1 DEF Rename, Restore, IndInv, TypeOK
  <2>3. QED
      BY <2>2 DEF IndInv, EditsAreSeen
<1>2. QED
    BY <1>1, Invariance, PTL DEF Spec, EditsSurvive
=============================================================================
