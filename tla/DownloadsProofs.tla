-------------------------- MODULE DownloadsProofs ---------------------------
(***************************************************************************)
(* What is published is genuine, what job.json calls COMPLETE is there     *)
(* after a loss of power, and no chunk is taken back.  Inv is inductive.   *)
(***************************************************************************)
EXTENDS Downloads, SequenceTheorems, TLAPS

(* The parts of the type.                                                  *)
MemoryOK == /\ status \in [Job -> JobStatus] /\ fstat \in [File -> FileStatus]
            /\ tag \in [File -> Version \cup {NoTag}]
ReceiptOK == /\ dstatus \in [Job -> JobStatus] /\ dfstat \in [File -> FileStatus]
             /\ dtag \in [File -> Version \cup {NoTag}]
PlanOK == /\ direct \in [Job -> BOOLEAN]
          /\ sha \in [File -> Version \cup {NoHash}] /\ src \in [File -> Version]
DiskOK == /\ part \in [File -> Seq(Version)] /\ synced \in [File -> Nat]
          /\ \A f \in File : synced[f] <= Len(part[f]) /\ Len(part[f]) <= Size[f[2]]
FlagsOK == final \in [File -> BOOLEAN] /\ durable \in [File -> BOOLEAN]
WorkerOK ==
    /\ active \in Job \cup {Nobody} /\ cur \in 0 .. Files
    /\ pc \in {"idle", "next", "open", "request", "body", "sync", "mark", "hash", "link",
               "dirsync", "record", "end"}
    /\ pc = "idle" <=> active = Nobody
    /\ ver \in Version \cup {NoTag}
BitsOK == /\ failed \in BOOLEAN /\ ctx \in BOOLEAN
          /\ up \in BOOLEAN /\ closing \in BOOLEAN /\ calm \in BOOLEAN

LEMMA Types == TypeOK <=> /\ MemoryOK /\ ReceiptOK /\ PlanOK /\ DiskOK /\ FlagsOK /\ WorkerOK
                          /\ BitsOK
BY DEF TypeOK, MemoryOK, ReceiptOK, PlanOK, DiskOK, FlagsOK, WorkerOK, BitsOK

Busy == pc \notin {"idle", "next", "end"}

(* The file the worker is at.                                              *)
LEMMA Current ==
    ASSUME TypeOK, WorkerKnows, Busy
    PROVE  /\ active \in Job /\ cur \in 1 .. Files /\ c \in File /\ c \in Of(active)
           /\ c[1] = active /\ c[2] = cur /\ Size[cur] \in Nat
BY SizeAssumption DEF TypeOK, WorkerKnows, Busy, c, File

LEMMA Files2 ==
    ASSUME NEW f \in File
    PROVE  /\ f[1] \in Job /\ f[2] \in 1 .. Files /\ f = <<f[1], f[2]>> /\ Size[f[2]] \in Nat
BY SizeAssumption DEF File

LEMMA Persisted ==
    ASSUME NEW l, PersistAnd(l)
    PROVE  /\ Receipt(active) \/ UNCHANGED receipt
           /\ \/ Receipt(active) /\ pc' = l /\ failed' = failed
              \/ pc' = "end" /\ failed' = TRUE
BY DEF PersistAnd, Unpersisted, Goto, Fail

(* A receipt says what memory says, and keeps its type.                    *)
LEMMA Written ==
    ASSUME ReceiptOK, MemoryOK', NEW j \in Job, Receipt(j) \/ UNCHANGED receipt
    PROVE  ReceiptOK'
BY DEF Receipt, receipt, ReceiptOK, MemoryOK

-----------------------------------------------------------------------------
LEMMA MemoryStep == Inv /\ [Next]_vars => MemoryOK' /\ ReceiptOK'
<1> SUFFICES ASSUME Inv, [Next]_vars PROVE MemoryOK' /\ ReceiptOK'
    OBVIOUS
<1>0. MemoryOK /\ ReceiptOK /\ (Busy => c \in File) /\ (pc # "idle" => active \in Job)
      /\ src \in [File -> Version]
    BY Current, Types DEF Inv, WorkerOK, PlanOK
<1> USE <1>0 DEF JobStatus, FileStatus, Moving, Resumable, memory, receipt, Busy
<1>1. ASSUME NEW j \in Job, Plan(j) PROVE MemoryOK' /\ ReceiptOK'
  <2>1. MemoryOK'
    BY <1>1 DEF Plan, SetStatus, MemoryOK
  <2>2. QED
    BY <1>1, <2>1, Written DEF Plan
<1>2. ASSUME NEW j \in Job, Start(j) PROVE MemoryOK' /\ ReceiptOK'
  <2>1. MemoryOK'
    BY <1>2 DEF Start, SetStatus, MemoryOK
  <2>2. QED
    BY <1>2, <2>1, Written DEF Start, Unpersisted
<1>3. ASSUME NEW j \in Job, NEW s \in {"PAUSED", "CANCELLED"}, Stop(j, s)
      PROVE  MemoryOK' /\ ReceiptOK'
  <2>1. MemoryOK'
    BY <1>3 DEF Stop, SetStatus, MemoryOK
  <2>2. QED
    BY <1>3, <2>1, Written DEF Stop, Unpersisted
<1>4. CASE NextFile \/ Open \/ Receive \/ Sync \/ Hash \/ Link \/ DirSync
  <2>1. UNCHANGED memory
    BY <1>4 DEF NextFile, Open, Receive, Sync, Hash, Link, DirSync
  <2>2. UNCHANGED receipt \/ (Receipt(active) /\ active \in Job)
    BY <1>4, Persisted DEF NextFile, Open, Receive, Sync, Hash, Link, DirSync, At
  <2>3. MemoryOK'
    BY <2>1 DEF MemoryOK
  <2>4. QED
    BY <2>2, <2>3, Written DEF ReceiptOK
<1>5. CASE Request
  <2>1. CASE UNCHANGED memory /\ UNCHANGED receipt
    BY <2>1 DEF MemoryOK, ReceiptOK
  <2>2. CASE ~(UNCHANGED memory /\ UNCHANGED receipt)
    <3>1. PICK t \in {src[c], NoTag} : tag' = [tag EXCEPT ![c] = t]
                     /\ fstat' = [fstat EXCEPT ![c] = "RUNNING"]
                     /\ UNCHANGED status
                     /\ PersistAnd("body")
        BY <1>5, <2>2 DEF Request
    <3>2. c \in File /\ active \in Job
        BY <1>5 DEF Request, At
    <3>3. MemoryOK'
        BY <3>1, <3>2 DEF MemoryOK
    <3>4. QED
        BY <3>1, <3>2, <3>3, Persisted, Written
  <2>3. QED
    BY <2>1, <2>2
<1>6. CASE Mark \/ Record
  <2>1. MemoryOK'
    BY <1>6 DEF Mark, Record, SetStatus, MemoryOK, At
  <2>2. active \in Job
    BY <1>6 DEF Mark, Record, At
  <2>3. QED
    BY <1>6, <2>1, <2>2, Persisted, Written DEF Mark, Record
<1>7. CASE End
  <2>0. active \in Job /\ Outcome \in JobStatus
    BY <1>7 DEF End, Outcome
  <2>1. MemoryOK'
    BY <1>7, <2>0 DEF End, Settles, SetStatus, MemoryOK
  <2>2. CASE Receipt(active) \/ UNCHANGED receipt
    BY <2>0, <2>1, <2>2, Written
  <2>3. CASE /\ dstatus' = [dstatus EXCEPT ![active] = Outcome]
             /\ dfstat' = [f \in File |-> IF f \in Of(active) THEN fstat[f] ELSE dfstat[f]]
             /\ dtag' = [f \in File |-> IF f \in Of(active) THEN tag[f] ELSE dtag[f]]
    BY <2>0, <2>1, <2>3 DEF ReceiptOK, MemoryOK
  <2>4. QED
    BY <1>7, <2>1, <2>2, <2>3 DEF End, Settles
<1>8. CASE Close \/ Calm \/ UNCHANGED vars \/ \E f \in File : Changes(f)
    BY <1>8 DEF Close, Calm, vars, Changes, MemoryOK, ReceiptOK
<1>9. CASE Exit \/ Crash \/ PowerLoss
  <2>1. Vanish
    BY <1>9 DEF Exit, Crash, PowerLoss
  <2>2. QED
    BY <2>1 DEF Vanish, MemoryOK, ReceiptOK, NoStatus, Planned, Untagged
<1>10. CASE Restart
    BY <1>10 DEF Restart, Recovered, MemoryOK, ReceiptOK
<1>11. CASE RestartFails
    BY <1>11 DEF RestartFails, Recovered, MemoryOK, ReceiptOK
<1>12. QED
    BY <1>1, <1>2, <1>3, <1>4, <1>5, <1>6, <1>7, <1>8, <1>9, <1>10, <1>11
       DEF Next, Worker, UserStops, Unstick

-----------------------------------------------------------------------------
(* Chunks.                                                                 *)

LEMMA Grows ==
    ASSUME NEW s \in Seq(Version), NEW v \in Version
    PROVE  /\ Append(s, v) \in Seq(Version) /\ Len(Append(s, v)) = Len(s) + 1
           /\ \A i \in 1 .. Len(s) : Append(s, v)[i] = s[i]
           /\ Append(s, v)[Len(s) + 1] = v
BY AppendProperties

LEMMA Cut ==
    ASSUME NEW s \in Seq(Version), NEW n \in 0 .. Len(s)
    PROVE  /\ SubSeq(s, 1, n) \in Seq(Version) /\ Len(SubSeq(s, 1, n)) = n
           /\ \A i \in 1 .. n : SubSeq(s, 1, n)[i] = s[i]
<1>1. Len(s) \in Nat /\ \A i \in 1 .. n : s[i] \in Version
    BY LenProperties
<1>2. QED
    BY <1>1, SubSeqProperties

(* Two sequences that agree on the first n chunks have the same prefix.    *)
LEMMA SamePrefix ==
    ASSUME NEW s \in Seq(Version), NEW t \in Seq(Version), NEW n \in Nat,
           n <= Len(s), n <= Len(t), \A i \in 1 .. n : s[i] = t[i]
    PROVE  SubSeq(s, 1, n) = SubSeq(t, 1, n)
<1>1. n \in 0 .. Len(s) /\ n \in 0 .. Len(t)
    BY LenProperties
<1>2. /\ SubSeq(s, 1, n) \in Seq(Version) /\ SubSeq(t, 1, n) \in Seq(Version)
      /\ Len(SubSeq(s, 1, n)) = n /\ Len(SubSeq(t, 1, n)) = n
      /\ \A i \in 1 .. n : SubSeq(s, 1, n)[i] = SubSeq(t, 1, n)[i]
    BY <1>1, Cut
<1>3. QED
    BY <1>2, SeqEqual

(* What can happen to the files on disk.                                   *)
Appends(f, v) ==
    /\ Len(part[f]) < Size[f[2]] /\ part' = [part EXCEPT ![f] = Append(part[f], v)]
    /\ synced' \in {synced, [synced EXCEPT ![f] = Len(part'[f])]}
    /\ UNCHANGED <<final, durable>>

LEMMA DiskMoves ==
    ASSUME Inv, [Next]_vars
    PROVE  \/ UNCHANGED disk
           \/ Receive /\ Appends(c, ver) /\ pc = "body"
           \/ Sync /\ UNCHANGED <<part, final, durable>> /\ synced' = [synced EXCEPT ![c] = Size[cur]]
           \/ Link /\ UNCHANGED <<part, synced, durable>> /\ final' = [final EXCEPT ![c] = TRUE]
           \/ DirSync /\ UNCHANGED <<part, synced, final>> /\ durable' = [durable EXCEPT ![c] = TRUE]
           \/ PowerLoss
<1>0. DiskOK /\ (Busy => c \in File /\ c[2] = cur)
    BY Types, Current DEF Inv
<1> USE <1>0 DEF disk, Busy
<1>1. CASE Receive
  <2>1. CASE ~Full /\ part' = [part EXCEPT ![c] = Append(@, ver)]
    <3>1. Len(part[c]) < Size[cur] /\ pc = "body" /\ UNCHANGED <<final, durable>>
        BY <1>1, <2>1, SizeAssumption DEF Receive, Full, DiskOK, At, File
    <3>2. synced' \in {synced, [synced EXCEPT ![c] = Len(part'[c])]}
        BY <1>1, <2>1 DEF Receive, Full
    <3>3. QED
        BY <1>1, <2>1, <3>1, <3>2 DEF Appends, At
  <2>2. CASE UNCHANGED <<part, synced>>
    BY <1>1, <2>2 DEF Receive
  <2>3. QED
    BY <1>1, <2>1, <2>2 DEF Receive
<1>2. CASE Sync
    BY <1>2 DEF Sync
<1>3. CASE Link
    BY <1>3 DEF Link
<1>4. CASE DirSync
    BY <1>4 DEF DirSync
<1>5. CASE NextFile \/ Open \/ Request \/ Mark \/ Hash \/ Record \/ End
    BY <1>5 DEF NextFile, Open, Request, Mark, Hash, Record, End
<1>6. CASE Close \/ Exit \/ Crash \/ Restart \/ RestartFails \/ Calm \/ UNCHANGED vars
    BY <1>6 DEF Close, Exit, Crash, Restart, RestartFails, Calm, vars
<1>7. CASE \E f \in File : Changes(f)
    BY <1>7 DEF Changes
<1>8. CASE \E j \in Job : Plan(j) \/ Start(j) \/ UserStops(j) \/ Unstick(j)
    BY <1>8 DEF Plan, Start, UserStops, Unstick, Stop
<1>9. QED
    BY <1>1, <1>2, <1>3, <1>4, <1>5, <1>6, <1>7, <1>8 DEF Next, Worker

LEMMA DiskStep == Inv /\ [Next]_vars => DiskOK' /\ FlagsOK'
<1> SUFFICES ASSUME Inv, [Next]_vars PROVE DiskOK' /\ FlagsOK'
    OBVIOUS
<1>0. DiskOK /\ FlagsOK /\ (Busy => c \in File /\ c[2] = cur)
    BY Types, Current DEF Inv
<1>1. CASE UNCHANGED disk
    BY <1>0, <1>1 DEF disk, DiskOK, FlagsOK
<1>2. CASE pc = "body" /\ Appends(c, ver)
  <2>1. c \in File /\ ver \in Version
    BY <1>0, <1>2 DEF Busy, Inv, WorkerKnows, OfResponse
  <2>2. /\ part[c] \in Seq(Version) /\ part'[c] = Append(part[c], ver)
        /\ \A f \in File \ {c} : part'[f] = part[f]
        /\ part' \in [File -> Seq(Version)] /\ Len(part'[c]) = Len(part[c]) + 1
    BY <1>0, <1>2, <2>1, Grows DEF Appends, DiskOK
  <2>3. \A f \in File : Len(part[f]) \in Nat /\ Size[f[2]] \in Nat
    BY <1>0, Files2, LenProperties DEF DiskOK
  <2>4. DiskOK'
    BY <1>0, <1>2, <2>1, <2>2, <2>3 DEF Appends, DiskOK
  <2>5. QED
    BY <1>0, <1>2, <2>4 DEF Appends, FlagsOK
<1>3. CASE Sync /\ UNCHANGED <<part, final, durable>> /\ synced' = [synced EXCEPT ![c] = Size[cur]]
  <2>1. pc = "sync" /\ c \in File
    BY <1>0, <1>3 DEF Sync, At, Busy
  <2>2. Len(part[c]) = Size[cur] /\ Size[cur] \in Nat
    BY <1>0, <2>1, Current DEF Inv, WorkerKnows, Full, Busy
  <2>3. QED
    BY <1>0, <1>3, <2>1, <2>2 DEF DiskOK, FlagsOK
<1>4. CASE Link /\ UNCHANGED <<part, synced, durable>> /\ final' = [final EXCEPT ![c] = TRUE]
    BY <1>0, <1>4 DEF DiskOK, FlagsOK, Link, At, Busy
<1>5. CASE DirSync /\ UNCHANGED <<part, synced, final>> /\ durable' = [durable EXCEPT ![c] = TRUE]
    BY <1>0, <1>5 DEF DiskOK, FlagsOK, DirSync, At, Busy
<1>6. CASE PowerLoss
  <2>1. PICK keep \in [File -> UNION {0 .. Size[i] : i \in 1 .. Files}] :
           /\ \A f \in File : keep[f] \in synced[f] .. Len(part[f])
           /\ part' = [f \in File |-> SubSeq(part[f], 1, keep[f])]
           /\ synced' = keep
    BY <1>6 DEF PowerLoss
  <2>2. \A f \in File : /\ synced[f] \in Nat /\ Len(part[f]) \in Nat /\ Size[f[2]] \in Nat
                        /\ part[f] \in Seq(Version)
    BY <1>0, Files2, LenProperties DEF DiskOK
  <2>3. \A f \in File : keep[f] \in 0 .. Len(part[f]) /\ keep[f] \in Nat
    BY <2>1, <2>2
  <2>4. \A f \in File : part'[f] \in Seq(Version) /\ Len(part'[f]) = keep[f]
    BY <2>1, <2>2, <2>3, Cut
  <2>5. DiskOK'
    BY <1>0, <2>1, <2>2, <2>3, <2>4 DEF DiskOK
  <2>6. final' \in [File -> BOOLEAN] /\ durable' \in [File -> BOOLEAN]
    BY <1>6, <1>0 DEF PowerLoss, FlagsOK
  <2>7. QED
    BY <2>5, <2>6 DEF FlagsOK
<1>7. QED
    BY <1>1, <1>2, <1>3, <1>4, <1>5, <1>6, DiskMoves

LEMMA PlanStep == Inv /\ [Next]_vars => PlanOK'
<1> SUFFICES ASSUME Inv, [Next]_vars PROVE PlanOK'
    OBVIOUS
<1>0. PlanOK
    BY Types DEF Inv
<1>1. ASSUME NEW j \in Job, Plan(j) PROVE PlanOK'
    BY <1>0, <1>1 DEF Plan, PlanOK
<1>2. ASSUME NEW f \in File, Changes(f) PROVE PlanOK'
    BY <1>0, <1>2 DEF Changes, PlanOK, plan
<1>3. CASE UNCHANGED <<plan, src>>
    BY <1>0, <1>3 DEF PlanOK, plan
<1>4. CASE Worker
    BY <1>3, <1>4 DEF Worker, NextFile, Open, Request, Receive, Sync, Mark, Hash,
       Link, DirSync,
       Record, End, At
<1>5. CASE \/ Close \/ Exit \/ Crash \/ PowerLoss \/ Restart \/ RestartFails \/ Calm
           \/ UNCHANGED vars
    BY <1>3, <1>5 DEF Close, Exit, Crash, PowerLoss, Vanish, Restart, RestartFails,
       Calm, vars,
       plan
<1>6. CASE \E j \in Job : Start(j) \/ UserStops(j) \/ Unstick(j)
    BY <1>3, <1>6 DEF Start, UserStops, Unstick, Stop
<1>7. QED
    BY <1>1, <1>2, <1>4, <1>5, <1>6 DEF Next

(* Where the worker may go.                                                *)
LEMMA WorkerStep == Inv /\ [Next]_vars => WorkerOK'
<1> SUFFICES ASSUME Inv, [Next]_vars PROVE WorkerOK'
    OBVIOUS
<1>0. WorkerOK /\ PlanOK /\ (Busy => c \in File) /\ Nobody \notin Job
    BY Types, Current, NameAssumption DEF Inv
<1> USE <1>0 DEF Goto, Fail, Fault, At, Begin, worker, Busy, PersistAnd
<1>1. CASE NextFile
    BY <1>1 DEF NextFile, WorkerOK
<1>2. CASE Request
    BY <1>2 DEF Request, WorkerOK, PlanOK
<1>3. CASE Open \/ Receive \/ Sync \/ Mark \/ Hash \/ Link \/ DirSync \/ Record
  <2>1. UNCHANGED <<active, cur, ver>> /\ pc # "idle"
    BY <1>3 DEF Open, Receive, Sync, Mark, Hash, Link, DirSync, Record
  <2>2. pc' \in {"next", "open", "request", "body", "sync", "mark", "hash", "link", "dirsync",
                "record", "end"}
    BY <1>3 DEF Open, Receive, Sync, Mark, Hash, Link, DirSync, Record
  <2>3. QED
    BY <2>1, <2>2 DEF WorkerOK
<1>4. CASE End
    BY <1>4, SizeAssumption DEF End, WorkerOK
<1>5. CASE Exit \/ Crash \/ PowerLoss
    BY <1>5, SizeAssumption DEF Exit, Crash, PowerLoss, Vanish, WorkerOK
<1>6. CASE Close \/ Restart \/ RestartFails \/ Calm \/ UNCHANGED vars \/ \E f \in File : Changes(f)
    BY <1>6 DEF Close, Restart, RestartFails, Calm, vars, Changes, WorkerOK
<1>7. ASSUME NEW j \in Job, Start(j) PROVE WorkerOK'
    BY <1>7, SizeAssumption DEF Start, WorkerOK
<1>8. CASE \E j \in Job : Plan(j) \/ UserStops(j) \/ Unstick(j)
    BY <1>8 DEF Plan, UserStops, Unstick, Stop, WorkerOK
<1>9. QED
    BY <1>1, <1>2, <1>3, <1>4, <1>5, <1>6, <1>7, <1>8 DEF Next, Worker

LEMMA BitsStep == Inv /\ [Next]_vars => BitsOK'
<1> SUFFICES ASSUME BitsOK, [Next]_vars PROVE BitsOK'
    BY Types DEF Inv
<1> USE DEF BitsOK, process, worker, Goto, Fail, Fault, At, Begin, PersistAnd
<1>1. CASE NextFile \/ Open \/ Request \/ Receive \/ Sync \/ Mark
    BY <1>1 DEF NextFile, Open, Request, Receive, Sync, Mark
<1>2. CASE Hash \/ Link \/ DirSync \/ Record \/ End
    BY <1>2 DEF Hash, Link, DirSync, Record, End
<1>3. CASE Exit \/ Crash \/ PowerLoss
    BY <1>3 DEF Exit, Crash, PowerLoss, Vanish
<1>4. CASE Restart \/ RestartFails \/ Calm \/ UNCHANGED vars \/ \E f \in File : Changes(f)
    BY <1>4 DEF Restart, RestartFails, Calm, vars, Changes
<1>5. CASE Close
    BY <1>5, Zenon DEF Close
<1>6. CASE \E j \in Job : Plan(j) \/ Start(j)
    BY <1>6 DEF Plan, Start
<1>7. CASE \E j \in Job : UserStops(j) \/ Unstick(j)
    BY <1>7 DEF UserStops, Unstick, Stop
<1>8. QED
    BY <1>1, <1>2, <1>3, <1>4, <1>5, <1>6, <1>7 DEF Next, Worker

LEMMA TypeStep == Inv /\ [Next]_vars => TypeOK'
BY MemoryStep, DiskStep, PlanStep, WorkerStep, BitsStep
   DEF TypeOK, MemoryOK, ReceiptOK, PlanOK, DiskOK, FlagsOK, WorkerOK, BitsOK

-----------------------------------------------------------------------------
(* A job whose receipt exists keeps it; without one it is not in memory.   *)
LEMMA StaysPlanned ==
    ASSUME Inv, [Next]_vars, NEW j \in Job, dstatus'[j] = "none"
    PROVE  dstatus[j] = "none" /\ status'[j] = "none"
<1>0. /\ MemoryOK /\ ReceiptOK /\ (dstatus[j] = "none" => status[j] = "none")
      /\ (pc # "idle" => active \in Job /\ status[active] # "none" /\ dstatus[active] # "none")
    BY Types DEF Inv, WorkerOK, NothingBeforePlan
<1> USE <1>0 DEF MemoryOK, ReceiptOK, memory, receipt, Receipt, SetStatus, Resumable,
    Moving
<1>1. ASSUME NEW k \in Job, Plan(k) PROVE dstatus[j] = "none" /\ status'[j] = "none"
    BY <1>1 DEF Plan
<1>2. ASSUME NEW k \in Job, Start(k) PROVE dstatus[j] = "none" /\ status'[j] = "none"
    BY <1>2 DEF Start, Unpersisted
<1>3. ASSUME NEW k \in Job, NEW s \in {"PAUSED", "CANCELLED"}, Stop(k, s)
      PROVE  dstatus[j] = "none" /\ status'[j] = "none"
    BY <1>3 DEF Stop, Unpersisted
<1>4. CASE NextFile \/ Open \/ Request \/ Receive \/ Sync \/ Hash \/ Link \/ DirSync
  <2>1. UNCHANGED status /\ pc # "idle" /\ (UNCHANGED receipt \/ Receipt(active))
    BY <1>4, Persisted DEF NextFile, Open, Request, Receive, Sync, Hash, Link,
       DirSync, At
  <2>2. QED
    BY <2>1
<1>5. CASE Mark \/ Record
  <2>1. /\ pc # "idle" /\ (UNCHANGED receipt \/ Receipt(active))
        /\ \E s \in {"VERIFYING", "RUNNING"} : SetStatus(active, s)
    BY <1>5, Persisted DEF Mark, Record, At
  <2>2. QED
    BY <2>1
<1>6. CASE End
    BY <1>6 DEF End, Settles, Outcome
<1>7. CASE Close \/ Calm \/ UNCHANGED vars \/ \E f \in File : Changes(f)
    BY <1>7 DEF Close, Calm, vars, Changes
<1>8. CASE Exit \/ Crash \/ PowerLoss
    BY <1>8 DEF Exit, Crash, PowerLoss, Vanish, NoStatus
<1>9. CASE Restart
    BY <1>9 DEF Restart, Recovered
<1>10. CASE RestartFails
  <2>1. ~up => active = Nobody
    BY DEF Inv, NothingBeforePlan
  <2>2. QED
    BY <1>10 DEF RestartFails, Recovered
<1>11. QED
    BY <1>1, <1>2, <1>3, <1>4, <1>5, <1>6, <1>7, <1>8, <1>9, <1>10
       DEF Next, Worker, UserStops, Unstick

(* The worker's job is in memory and the process is up.                    *)
LEMMA ActiveStays ==
    ASSUME Inv, [Next]_vars, active' # Nobody
    PROVE  up' /\ status'[active'] # "none"
<1>0. /\ MemoryOK /\ (active # Nobody => up /\ status[active] # "none")
      /\ WorkerOK /\ Nobody \notin Job
    BY Types, NameAssumption DEF Inv, NothingBeforePlan
<1> USE <1>0 DEF MemoryOK, memory, SetStatus, process, worker, WorkerOK
<1>1. ASSUME NEW k \in Job, Plan(k) PROVE up' /\ status'[active'] # "none"
    BY <1>1 DEF Plan
<1>2. ASSUME NEW k \in Job, Start(k) PROVE up' /\ status'[active'] # "none"
    BY <1>2 DEF Start, Begin
<1>3. ASSUME NEW k \in Job, NEW s \in {"PAUSED", "CANCELLED"}, Stop(k, s)
      PROVE  up' /\ status'[active'] # "none"
    BY <1>3 DEF Stop
<1>4. CASE NextFile \/ Open \/ Request \/ Receive \/ Sync \/ Hash \/ Link \/ DirSync
    BY <1>4 DEF NextFile, Open, Request, Receive, Sync, Hash, Link, DirSync, At
<1>5. CASE Mark \/ Record
    BY <1>5 DEF Mark, Record, At
<1>6. CASE End \/ Exit \/ Crash \/ PowerLoss
    BY <1>6 DEF End, Exit, Crash, PowerLoss, Vanish, Begin
<1>7. CASE Close \/ Calm \/ UNCHANGED vars \/ Restart \/ RestartFails \/ \E f \in File : Changes(f)
    BY <1>7 DEF Close, Calm, vars, Changes, Restart, RestartFails
<1>8. QED
    BY <1>1, <1>2, <1>3, <1>4, <1>5, <1>6, <1>7 DEF Next, Worker, UserStops, Unstick

LEMMA NothingStep == Inv /\ [Next]_vars => NothingBeforePlan'
<1> SUFFICES ASSUME Inv, [Next]_vars PROVE NothingBeforePlan'
    OBVIOUS
<1>1. SUFFICES ASSUME NEW j \in Job, dstatus'[j] = "none", NEW i \in 1 .. Files
               PROVE  part'[<<j, i>>] = <<>> /\ ~final'[<<j, i>>]
    BY StaysPlanned, ActiveStays DEF NothingBeforePlan
<1>2. /\ dstatus[j] = "none" /\ part[<<j, i>>] = <<>> /\ ~final[<<j, i>>]
      /\ active # j /\ <<j, i>> \in File /\ DiskOK /\ FlagsOK
    BY <1>1, StaysPlanned, Types, NameAssumption DEF Inv, NothingBeforePlan, File
<1>3. c # <<j, i>>
    BY <1>2 DEF c
<1>4. CASE UNCHANGED disk
    BY <1>2, <1>4 DEF disk
<1>5. CASE PowerLoss
  <2>1. PICK keep \in [File -> UNION {0 .. Size[k] : k \in 1 .. Files}] :
           /\ \A f \in File : keep[f] \in synced[f] .. Len(part[f])
           /\ part' = [f \in File |-> SubSeq(part[f], 1, keep[f])]
    BY <1>5 DEF PowerLoss
  <2>2. Len(<<>>) = 0 /\ SubSeq(<<>>, 1, 0) = <<>>
    BY SubSeqEmpty
  <2>3. keep[<<j, i>>] = 0
    BY <1>2, <2>1, <2>2 DEF DiskOK
  <2>4. final'[<<j, i>>] = FALSE
    BY <1>2, <1>5 DEF PowerLoss
  <2>5. QED
    BY <1>2, <2>1, <2>2, <2>3, <2>4
<1>6. QED
    BY <1>2, <1>3, <1>4, <1>5, DiskMoves DEF Appends, DiskOK, FlagsOK

(* Who calls a file COMPLETE.                                              *)
LEMMA CompleteMoves ==
    ASSUME Inv, [Next]_vars, NEW f \in File
    PROVE  /\ fstat'[f] = "COMPLETE" =>
                 fstat[f] = "COMPLETE" \/ dfstat[f] = "COMPLETE" \/ (f = c /\ pc = "record")
           /\ dfstat'[f] = "COMPLETE" =>
                 fstat[f] = "COMPLETE" \/ dfstat[f] = "COMPLETE" \/ (f = c /\ pc = "record")
<1>0. MemoryOK /\ ReceiptOK
    BY Types DEF Inv
<1> USE <1>0 DEF MemoryOK, ReceiptOK, memory, receipt, Receipt
<1> DEFINE P == /\ fstat'[f] = "COMPLETE" =>
                      fstat[f] = "COMPLETE" \/ dfstat[f] = "COMPLETE" \/ (f = c /\ pc = "record")
                /\ dfstat'[f] = "COMPLETE" =>
                      fstat[f] = "COMPLETE" \/ dfstat[f] = "COMPLETE" \/ (f = c /\ pc = "record")
<1>1. CASE UNCHANGED fstat /\ (UNCHANGED dfstat \/ \E k \in Job \cup {active} : Receipt(k))
    BY <1>1
<1>2. ASSUME NEW k \in Job, Plan(k) \/ Start(k) PROVE P
    BY <1>1, <1>2 DEF Plan, Start, Unpersisted
<1>3. ASSUME NEW k \in Job, NEW s \in {"PAUSED", "CANCELLED"}, Stop(k, s) PROVE P
    BY <1>1, <1>3 DEF Stop, Unpersisted
<1>4. CASE NextFile \/ Open \/ Receive \/ Sync \/ Hash \/ Link \/ DirSync
    BY <1>1, <1>4, Persisted DEF NextFile, Open, Receive, Sync, Hash, Link, DirSync, At
<1>5. CASE Request \/ Mark
  <2>1. /\ fstat' = fstat \/ \E s \in {"RUNNING", "VERIFYING"} : fstat' = [fstat EXCEPT ![c] = s]
        /\ UNCHANGED receipt \/ Receipt(active)
    BY <1>5, Persisted DEF Request, Mark, At
  <2>2. QED
    BY <2>1
<1>6. CASE Record
  <2>1. pc = "record" /\ fstat' = [fstat EXCEPT ![c] = "COMPLETE"]
        /\ (UNCHANGED receipt \/ Receipt(active))
    BY <1>6, Persisted DEF Record, At
  <2>2. QED
    BY <2>1
<1>7. CASE End
    BY <1>1, <1>7 DEF End, Settles
<1>8. CASE Close \/ Calm \/ UNCHANGED vars \/ RestartFails \/ \E g \in File : Changes(g)
    BY <1>8 DEF Close, Calm, vars, Changes, RestartFails
<1>9. CASE Exit \/ Crash \/ PowerLoss
    BY <1>9 DEF Exit, Crash, PowerLoss, Vanish, Planned
<1>10. CASE Restart
    BY <1>10 DEF Restart
<1>11. QED
    BY <1>2, <1>3, <1>4, <1>5, <1>6, <1>7, <1>8, <1>9, <1>10
       DEF Next, Worker, UserStops, Unstick

LEMMA DurableStep == Inv /\ [Next]_vars => DiskOrder' /\ CompleteIsDurable'
<1> SUFFICES ASSUME Inv, [Next]_vars, NEW f \in File
             PROVE  /\ final'[f] => synced'[f] = Size[f[2]]
                    /\ fstat'[f] = "COMPLETE" \/ dfstat'[f] = "COMPLETE" => durable'[f]
                    /\ durable'[f] => final'[f]
    BY DEF DiskOrder, CompleteIsDurable
<1>0. /\ final[f] => synced[f] = Size[f[2]]
      /\ durable[f] => final[f]
      /\ DiskOK /\ FlagsOK /\ (Busy => c \in File /\ c[2] = cur)
    BY Types, Current DEF Inv, DiskOrder
<1>1. fstat'[f] = "COMPLETE" \/ dfstat'[f] = "COMPLETE" => durable[f]
    BY CompleteMoves DEF Inv, DiskOrder, CompleteIsDurable, WorkerKnows
<1>2. CASE UNCHANGED disk
    BY <1>0, <1>1, <1>2 DEF disk
<1>3. CASE pc = "body" /\ Appends(c, ver)
  <2>1. Len(part[f]) \in Nat /\ Size[f[2]] \in Nat
    BY <1>0, Files2, LenProperties DEF DiskOK
  <2>2. final[f] => synced'[f] = synced[f]
    BY <1>0, <1>3, <2>1 DEF Appends, DiskOK, Busy
  <2>3. QED
    BY <1>0, <1>1, <1>3, <2>2 DEF Appends
<1>4. CASE Sync /\ UNCHANGED <<part, final, durable>> /\ synced' = [synced EXCEPT ![c] = Size[cur]]
    BY <1>0, <1>1, <1>4 DEF Sync, At, Busy, DiskOK
<1>5. CASE Link /\ UNCHANGED <<part, synced, durable>> /\ final' = [final EXCEPT ![c] = TRUE]
  <2>1. pc = "link" /\ c \in File /\ c[2] = cur /\ synced[c] = Size[cur]
    BY <1>0, <1>5 DEF Link, At, Busy, Inv, WorkerKnows
  <2>2. QED
    BY <1>0, <1>1, <1>5, <2>1 DEF FlagsOK
<1>6. CASE DirSync /\ UNCHANGED <<part, synced, final>> /\ durable' = [durable EXCEPT ![c] = TRUE]
  <2>1. pc = "dirsync" /\ c \in File /\ final[c]
    BY <1>0, <1>6 DEF DirSync, At, Busy, Inv, WorkerKnows
  <2>2. QED
    BY <1>0, <1>1, <1>6, <2>1 DEF FlagsOK
<1>7. CASE PowerLoss
  <2>1. PICK keep \in [File -> UNION {0 .. Size[i] : i \in 1 .. Files}] :
           /\ \A g \in File : keep[g] \in synced[g] .. Len(part[g])
           /\ synced' = keep
    BY <1>7 DEF PowerLoss
  <2>2. PICK S \in SUBSET File :
           /\ \A g \in File : durable[g] => g \in S
           /\ final' = [g \in File |-> final[g] /\ g \in S]
    BY <1>7 DEF PowerLoss
  <2>3. durable' = final'
    BY <1>7 DEF PowerLoss
  <2>4. final'[f] <=> final[f] /\ f \in S
    BY <2>2
  <2>5. final[f] => keep[f] = Size[f[2]]
    <3>1. /\ synced[f] \in Nat /\ Len(part[f]) \in Nat /\ Size[f[2]] \in Nat
          /\ Len(part[f]) <= Size[f[2]]
        BY <1>0, Files2, LenProperties DEF DiskOK
    <3>2. keep[f] \in synced[f] .. Len(part[f])
        BY <2>1
    <3>3. QED
        BY <1>0, <3>1, <3>2
  <2>6. QED
    BY <1>0, <1>1, <2>1, <2>2, <2>3, <2>4, <2>5
<1>8. QED
    BY <1>2, <1>3, <1>4, <1>5, <1>6, <1>7, DiskMoves

(* Whether a job is direct, which hash is pinned, what the server has.     *)
LEMMA PlanMoves ==
    ASSUME Inv, [Next]_vars, NEW f \in File
    PROVE  \/ direct'[f[1]] = direct[f[1]] /\ sha'[f] = sha[f] /\ src'[f] = src[f]
           \/ direct[f[1]] /\ direct'[f[1]] /\ sha'[f] = sha[f] /\ UNCHANGED disk
           \/ /\ part[f] = <<>> /\ ~final[f] /\ UNCHANGED disk
              /\ ~direct'[f[1]] => sha'[f] \in {src'[f], NoHash}
<1>0. PlanOK /\ f[1] \in Job /\ f[2] \in 1 .. Files /\ f = <<f[1], f[2]>>
    BY Types, Files2 DEF Inv
<1>1. ASSUME NEW j \in Job, Plan(j)
      PROVE  \/ direct'[f[1]] = direct[f[1]] /\ sha'[f] = sha[f] /\ src'[f] = src[f]
             \/ /\ part[f] = <<>> /\ ~final[f] /\ UNCHANGED disk
                /\ ~direct'[f[1]] => sha'[f] \in {src'[f], NoHash}
  <2>1. CASE f[1] = j
    <3>1. part[f] = <<>> /\ ~final[f]
        BY <1>0, <1>1, <2>1 DEF Plan, Inv, NothingBeforePlan
    <3>2. ~direct'[j] => f \in Of(j)'
        BY <2>1 DEF Of
    <3>3. QED
        BY <1>1, <2>1, <3>1, <3>2 DEF Plan
  <2>2. CASE f[1] # j
    <3>1. f \notin Of(j)'
        BY <2>2 DEF Of
    <3>2. QED
        BY <1>0, <1>1, <2>2, <3>1 DEF Plan, PlanOK
  <2>3. QED
    BY <2>1, <2>2
<1>2. ASSUME NEW g \in File, Changes(g)
      PROVE  \/ direct'[f[1]] = direct[f[1]] /\ sha'[f] = sha[f] /\ src'[f] = src[f]
             \/ direct[f[1]] /\ direct'[f[1]] /\ sha'[f] = sha[f] /\ UNCHANGED disk
  <2>1. direct' = direct /\ sha' = sha /\ UNCHANGED disk
    BY <1>2 DEF Changes, plan
  <2>2. PICK v \in Version : src' = [src EXCEPT ![g] = v]
    BY <1>2 DEF Changes
  <2>3. direct[g[1]]
    BY <1>2 DEF Changes
  <2>4. CASE f = g
    BY <2>1, <2>3, <2>4
  <2>5. CASE f # g
    BY <1>0, <2>1, <2>2, <2>5 DEF PlanOK
  <2>6. QED
    BY <2>4, <2>5
<1>3. CASE UNCHANGED <<plan, src>>
    BY <1>3 DEF plan
<1>4. CASE Worker
    BY <1>3, <1>4 DEF Worker, NextFile, Open, Request, Receive, Sync, Mark, Hash,
       Link, DirSync,
       Record, End, At
<1>5. CASE \/ Close \/ Exit \/ Crash \/ PowerLoss \/ Restart \/ RestartFails \/ Calm
           \/ UNCHANGED vars
    BY <1>3, <1>5 DEF Close, Exit, Crash, PowerLoss, Vanish, Restart, RestartFails,
       Calm, vars,
       plan
<1>6. CASE \E j \in Job : Start(j) \/ UserStops(j) \/ Unstick(j)
    BY <1>3, <1>6 DEF Start, UserStops, Unstick, Stop
<1>7. QED
    BY <1>1, <1>2, <1>4, <1>5, <1>6 DEF Next

(* Validators: only a plan and a response set one; the rest copies.        *)
Learns ==
    /\ pc = "request" /\ UNCHANGED <<disk, plan, src>>
    /\ \E t \in {src[c], NoTag} :
          /\ tag[c] \in {NoTag, t} /\ tag'[c] = t /\ dtag'[c] \in {dtag[c], t}

LEMMA TagMoves ==
    ASSUME Inv, [Next]_vars, NEW f \in File
    PROVE  \/ tag'[f] \in {tag[f], dtag[f], NoTag} /\ dtag'[f] \in {tag[f], dtag[f]}
           \/ f = c /\ Learns
           \/ part[f] = <<>> /\ UNCHANGED disk
<1>0. MemoryOK /\ ReceiptOK /\ f[1] \in Job /\ f[2] \in 1 .. Files /\ f = <<f[1], f[2]>>
    BY Types, Files2 DEF Inv
<1> USE <1>0 DEF MemoryOK, ReceiptOK, memory, receipt, Receipt
<1> DEFINE P == \/ tag'[f] \in {tag[f], dtag[f], NoTag} /\ dtag'[f] \in {tag[f], dtag[f]}
                \/ f = c /\ Learns
                \/ part[f] = <<>> /\ UNCHANGED disk
<1>1. CASE UNCHANGED tag /\ (UNCHANGED dtag \/ \E k \in Job \cup {active} : Receipt(k))
    BY <1>1
<1>2. ASSUME NEW k \in Job, Plan(k) PROVE P
  <2>1. CASE f[1] = k
    BY <1>2, <2>1 DEF Plan, Inv, NothingBeforePlan
  <2>2. CASE f[1] # k
    <3>1. f \notin Of(k)'
        BY <2>2 DEF Of
    <3>2. tag'[f] = tag[f] /\ dtag'[f] \in {tag'[f], dtag[f]}
        BY <1>2, <3>1 DEF Plan
    <3>3. QED
        BY <3>2
  <2>3. QED
    BY <2>1, <2>2
<1>3. ASSUME NEW k \in Job, Start(k) PROVE P
    BY <1>1, <1>3 DEF Start, Unpersisted
<1>4. ASSUME NEW k \in Job, NEW s \in {"PAUSED", "CANCELLED"}, Stop(k, s) PROVE P
    BY <1>1, <1>4 DEF Stop, Unpersisted
<1>5. CASE NextFile \/ Open \/ Receive \/ Sync \/ Mark \/ Hash \/ Link \/ DirSync \/ Record
    BY <1>1, <1>5, Persisted DEF NextFile, Open, Receive, Sync, Mark, Hash, Link,
       DirSync, Record,
       At
<1>6. CASE Request
  <2>1. CASE UNCHANGED memory /\ UNCHANGED receipt
    BY <2>1
  <2>2. CASE ~(UNCHANGED memory /\ UNCHANGED receipt)
    <3>1. PICK t \in {src[c], NoTag} : tag[c] \in {NoTag, t} /\ tag' = [tag EXCEPT ![c] = t]
                     /\ PersistAnd("body")
        BY <1>6, <2>2 DEF Request
    <3>2. Receipt(active) \/ UNCHANGED receipt
        BY <3>1, Persisted
    <3>3. dtag'[f] \in {tag'[f], dtag[f]}
        BY <3>2
    <3>4. CASE f = c
        BY <1>6, <3>1, <3>3, <3>4 DEF Learns, Request, At
    <3>5. CASE f # c
        BY <3>1, <3>3, <3>5
    <3>6. QED
        BY <3>4, <3>5
  <2>3. QED
    BY <2>1, <2>2
<1>7. CASE End
    BY <1>1, <1>7 DEF End, Settles
<1>8. CASE Close \/ Calm \/ UNCHANGED vars \/ RestartFails \/ \E g \in File : Changes(g)
    BY <1>8 DEF Close, Calm, vars, Changes, RestartFails
<1>9. CASE Exit \/ Crash \/ PowerLoss
    BY <1>9 DEF Exit, Crash, PowerLoss, Vanish, Untagged
<1>10. CASE Restart
    BY <1>10 DEF Restart
<1>11. QED
    BY <1>2, <1>3, <1>4, <1>5, <1>6, <1>7, <1>8, <1>9, <1>10
       DEF Next, Worker, UserStops, Unstick

(* What a loss of power leaves of a .part is a prefix.                     *)
LEMMA Prefix ==
    ASSUME Inv, PowerLoss, NEW f \in File
    PROVE  /\ Len(part'[f]) \in synced[f] .. Len(part[f]) /\ part'[f] \in Seq(Version)
           /\ \A i \in 1 .. Len(part'[f]) : part'[f][i] = part[f][i]
           /\ final'[f] => final[f]
<1>1. PICK keep \in [File -> UNION {0 .. Size[i] : i \in 1 .. Files}] :
           /\ \A g \in File : keep[g] \in synced[g] .. Len(part[g])
           /\ part' = [g \in File |-> SubSeq(part[g], 1, keep[g])]
    BY DEF PowerLoss
<1>2. /\ synced[f] \in Nat /\ Len(part[f]) \in Nat /\ part[f] \in Seq(Version)
      /\ keep[f] \in synced[f] .. Len(part[f])
    BY <1>1, Types, LenProperties DEF Inv, DiskOK
<1>3. keep[f] \in 0 .. Len(part[f]) /\ part'[f] = SubSeq(part[f], 1, keep[f])
    BY <1>1, <1>2
<1>4. final'[f] => final[f]
    BY DEF PowerLoss
<1>5. QED
    BY <1>2, <1>3, <1>4, Cut

(* No chunk of a published file changes.                                   *)
LEMMA FinalStays ==
    ASSUME Inv, [Next]_vars, NEW f \in File, final'[f]
    PROVE  \/ part'[f] = part[f] /\ final[f]
           \/ part'[f] = part[f] /\ pc = "link" /\ f = c
<1>0. DiskOK /\ FlagsOK /\ (Busy => c \in File /\ c[2] = cur)
    BY Types, Current DEF Inv
<1>1. CASE UNCHANGED disk
    BY <1>1 DEF disk
<1>2. CASE pc = "body" /\ Appends(c, ver)
  <2>1. final[f] => Len(part[f]) >= Size[f[2]]
    BY <1>0 DEF Inv, DiskOrder, DiskOK
  <2>2. f # c
    <3>1. Len(part[f]) \in Nat /\ Size[f[2]] \in Nat
        BY <1>0, Files2, LenProperties DEF DiskOK
    <3>2. QED
        BY <1>2, <2>1, <3>1 DEF Appends
  <2>3. QED
    BY <1>0, <1>2, <2>2 DEF Appends, DiskOK
<1>3. CASE \/ Sync /\ UNCHANGED <<part, final, durable>>
           \/ DirSync /\ UNCHANGED <<part, synced, final>>
    BY <1>3
<1>4. CASE Link /\ UNCHANGED <<part, synced, durable>> /\ final' = [final EXCEPT ![c] = TRUE]
    BY <1>0, <1>4 DEF FlagsOK, Link, At
<1>5. CASE PowerLoss
  <2>1. final[f] /\ synced[f] = Size[f[2]] /\ Len(part[f]) <= Size[f[2]]
    BY <1>0, <1>5, Prefix DEF Inv, DiskOrder, DiskOK
  <2>2. /\ Len(part'[f]) \in synced[f] .. Len(part[f]) /\ part'[f] \in Seq(Version)
        /\ \A i \in 1 .. Len(part'[f]) : part'[f][i] = part[f][i]
    BY <1>5, Prefix
  <2>3. part[f] \in Seq(Version) /\ Len(part[f]) \in Nat /\ Size[f[2]] \in Nat
    BY <1>0, Files2, LenProperties DEF DiskOK
  <2>4. Len(part'[f]) = Len(part[f])
    BY <2>1, <2>2, <2>3
  <2>5. part'[f] = part[f]
    BY <2>2, <2>3, <2>4, SeqEqual
  <2>6. QED
    BY <2>1, <2>5
<1>6. QED
    BY <1>1, <1>2, <1>3, <1>4, <1>5, DiskMoves

LEMMA GenuineStep == Inv /\ [Next]_vars => PublishedIsGenuine'
<1> SUFFICES ASSUME Inv, [Next]_vars, NEW f \in File, final'[f]
             PROVE  \E v \in Version : Genuine(f, v)' /\ sha'[f] \in {v, NoHash}
    BY DEF PublishedIsGenuine
<1>1. \E v \in Version : Genuine(f, v) /\ sha[f] \in {v, NoHash}
    BY FinalStays DEF Inv, PublishedIsGenuine, WorkerKnows
<1>2. part'[f] = part[f]
    BY FinalStays
<1>3. sha'[f] = sha[f]
    BY PlanMoves, Zenon DEF disk
<1>4. QED
    BY <1>1, <1>2, <1>3 DEF Genuine

LEMMA UnsplicedStep == Inv /\ [Next]_vars => Unspliced'
<1> SUFFICES ASSUME Inv, [Next]_vars, NEW f \in File
    PROVE  /\ ~direct'[f[1]] => From(f, src[f])' /\ sha'[f] \in {src'[f], NoHash}
           /\ sha'[f] = NoHash /\ part'[f] # <<>> =>
              \E v \in Version :
                 From(f, v)' /\ tag'[f] \in {v, NoTag} /\ dtag'[f] \in {v, NoTag}
    BY DEF Unspliced, From
<1>0. /\ ~direct[f[1]] => From(f, src[f]) /\ sha[f] \in {src[f], NoHash}
      /\ sha[f] = NoHash /\ part[f] # <<>> =>
              \E v \in Version : From(f, v) /\ tag[f] \in {v, NoTag} /\ dtag[f] \in {v, NoTag}
      /\ DiskOK /\ (Busy => c \in File /\ c[1] = active)
    BY Types, Current DEF Inv, Unspliced
<1>e. Len(<<>>) = 0
    OBVIOUS
<1>1. CASE part'[f] = <<>>
    <2>1. \A v : From(f, v)'
        BY <1>1, <1>e DEF From
    <2>2. ~direct'[f[1]] => sha'[f] \in {src'[f], NoHash}
        BY <1>0, PlanMoves
    <2>3. QED
        BY <1>1, <2>1, <2>2
<1>2. CASE pc = "body" /\ Appends(c, ver) /\ Receive /\ f = c
  <2>1. /\ UNCHANGED <<plan, src, memory>> /\ dtag'[c] \in {dtag[c], tag[c]}
    <3>1. UNCHANGED <<plan, src, memory>> /\ (UNCHANGED receipt \/ Receipt(active))
        BY <1>2, Persisted DEF Receive, At
    <3>2. QED
        BY <1>0, <1>2, <3>1 DEF Receipt, receipt, memory, Busy
  <2>2. OfResponse /\ c \in File /\ c[1] = active
    BY <1>0, <1>2 DEF Inv, WorkerKnows, Busy
  <2>3. /\ part[c] \in Seq(Version) /\ Len(part[c]) \in Nat /\ ver \in Version
        /\ part'[c] = Append(part[c], ver)
    BY <1>0, <1>2, <2>2, LenProperties DEF Appends, OfResponse, DiskOK
  <2>4. ASSUME From(c, ver) PROVE \A i \in 1 .. Len(part'[f]) : part'[f][i] = ver
    <3>1. /\ Len(part'[f]) = Len(part[c]) + 1 /\ part'[f][Len(part[c]) + 1] = ver
          /\ \A i \in 1 .. Len(part[c]) : part'[f][i] = part[c][i]
        BY <1>2, <2>3, Grows
    <3>2. \A i \in 1 .. Len(part[c]) + 1 : i \in 1 .. Len(part[c]) \/ i = Len(part[c]) + 1
        BY <2>3
    <3>3. \A i \in 1 .. Len(part[c]) : part[c][i] = ver
        BY <2>4 DEF From
    <3>4. QED
        BY <3>1, <3>2, <3>3
  <2>5. PICK v \in Version : v = ver
    BY <2>3
  <2>6. ~direct'[f[1]] => From(f, src[f])' /\ sha'[f] \in {src'[f], NoHash}
    <3>1. ASSUME ~direct[f[1]] PROVE From(c, ver) /\ ver = src[f]
        BY <1>0, <1>2, <2>2, <3>1 DEF OfResponse
    <3>2. QED
        BY <1>0, <2>1, <2>4, <3>1 DEF plan, From
  <2>7. sha'[f] = NoHash =>
           From(f, v)' /\ tag'[f] \in {v, NoTag} /\ dtag'[f] \in {v, NoTag}
    BY <1>2, <2>1, <2>2, <2>4, <2>5 DEF OfResponse, plan, memory, From
  <2>8. QED
    BY <2>3, <2>5, <2>6, <2>7
<1>3. CASE /\ part'[f] # <<>> /\ part[f] # <<>>
           /\ Len(part'[f]) <= Len(part[f]) /\ Len(part'[f]) \in Nat /\ Len(part[f]) \in Nat
           /\ \A i \in 1 .. Len(part'[f]) : part'[f][i] = part[f][i]
  <2>1. \A v : From(f, v) => \A i \in 1 .. Len(part'[f]) : part'[f][i] = v
    BY <1>3 DEF From
  <2>2. /\ sha'[f] = sha[f]
        /\ ~direct'[f[1]] => ~direct[f[1]] /\ src'[f] = src[f]
    BY <1>3, PlanMoves
  <2>3. sha[f] = NoHash /\ f = c /\ Learns => tag[f] # NoTag
    BY <1>3 DEF Inv, WorkerKnows, Learns, Told
  <2>4. \A v \in Version : /\ sha[f] = NoHash
                           /\ tag[f] \in {v, NoTag} /\ dtag[f] \in {v, NoTag}
                           => tag'[f] \in {v, NoTag} /\ dtag'[f] \in {v, NoTag}
    BY <1>3, <2>3, TagMoves DEF Learns
  <2>5. ~direct'[f[1]] => From(f, src[f])' /\ sha'[f] \in {src'[f], NoHash}
    BY <1>0, <2>1, <2>2 DEF From
  <2>6. ASSUME sha'[f] = NoHash
        PROVE  \E v \in Version :
                  From(f, v)' /\ tag'[f] \in {v, NoTag} /\ dtag'[f] \in {v, NoTag}
    <3>1. PICK v \in Version : From(f, v) /\ tag[f] \in {v, NoTag} /\ dtag[f] \in {v, NoTag}
        BY <1>0, <1>3, <2>2, <2>6
    <3>2. From(f, v)'
        BY <2>1, <3>1 DEF From
    <3>3. QED
        BY <2>2, <2>4, <2>6, <3>1, <3>2
  <2>7. QED
    BY <2>5, <2>6
<1>4. \/ part'[f] = part[f]
      \/ pc = "body" /\ Appends(c, ver) /\ Receive /\ f = c
      \/ PowerLoss
    BY <1>0, DiskMoves DEF disk, Appends, DiskOK
<1>5. Len(part[f]) \in Nat /\ synced[f] \in Nat
    BY <1>0, LenProperties DEF DiskOK
<1>6. CASE part'[f] = part[f]
    BY <1>1, <1>3, <1>5, <1>6
<1>7. CASE PowerLoss
  <2>1. /\ Len(part'[f]) \in synced[f] .. Len(part[f])
        /\ \A i \in 1 .. Len(part'[f]) : part'[f][i] = part[f][i]
        /\ part'[f] \in Seq(Version)
    BY <1>7, Prefix
  <2>2. part[f] = <<>> => part'[f] = <<>>
    BY <1>5, <1>e, <2>1, EmptySeq
  <2>3. QED
    BY <1>1, <1>3, <1>5, <2>1, <2>2
<1>8. QED
    BY <1>2, <1>4, <1>6, <1>7

-----------------------------------------------------------------------------
(* What the worker has seen stays true while others move ...               *)
LEMMA Undisturbed ==
    ASSUME Inv, UNCHANGED <<active, pc, cur, ver, disk>>,
           Busy => /\ tag'[c] = tag[c] /\ sha'[c] = sha[c] /\ direct'[active] = direct[active]
                   /\ dtag'[c] \in {dtag[c], tag[c]}
                   /\ ~direct[active] => src'[c] = src[c]
    PROVE  WorkerKnows'
<1>0. WorkerKnows /\ c' = c /\ UNCHANGED <<part, synced, final, durable>>
    BY DEF Inv, c, disk
<1>1. Busy => cur' # 0 /\ c' \in Of(active)'
    BY <1>0 DEF WorkerKnows, Of, Busy, c
<1>2. pc' = "request" => Told'
    BY <1>0 DEF WorkerKnows, Told, Busy
<1>3. pc' = "body" => OfResponse'
    BY <1>0 DEF WorkerKnows, OfResponse, Busy, From
<1>4. pc' = "sync" => Full'
    BY <1>0 DEF WorkerKnows, Full
<1>5. pc' = "link" => (\E v \in Version : Genuine(c, v) /\ sha[c] \in {v, NoHash})'
    BY <1>0 DEF WorkerKnows, Genuine, Busy
<1>6. QED
    BY <1>0, <1>1, <1>2, <1>3, <1>4, <1>5 DEF WorkerKnows, Busy

(* ... and each of its own steps looks at the rest.                        *)
LEMMA Seen ==
    ASSUME Inv, Worker
    PROVE  WorkerKnows'
<1>0. /\ WorkerKnows /\ MemoryOK /\ ReceiptOK /\ PlanOK /\ DiskOK /\ FlagsOK
      /\ (Busy => c \in File /\ active \in Job /\ c[1] = active /\ c[2] = cur /\ Size[cur] \in Nat)
    BY Types, Current DEF Inv
<1>a. ASSUME pc' \in {"idle", "next", "end"} PROVE WorkerKnows'
    BY <1>a DEF WorkerKnows
<1>b. ASSUME Busy, UNCHANGED <<active, cur, plan>> PROVE c' = c /\ cur' # 0 /\ c' \in Of(active)'
    BY <1>0, <1>b DEF WorkerKnows, Busy, c, Of, plan
<1>1. CASE NextFile
  <2>1. CASE pc' # "open"
    BY <1>a, <1>1, <2>1 DEF NextFile, Goto, Fail
  <2>2. CASE pc' = "open"
    <3>1. /\ cur' \in {i \in 1 .. Files : Mine(i)} /\ UNCHANGED <<active, plan>>
        BY <1>1, <2>2 DEF NextFile, Goto, Fail, At
    <3>2. cur' # 0 /\ c' \in Of(active)'
        BY <3>1, SizeAssumption DEF Mine, Of, c, plan
    <3>3. QED
        BY <2>2, <3>2 DEF WorkerKnows
  <2>3. QED
    BY <2>1, <2>2
<1>2. CASE Open
  <2>1. UNCHANGED <<active, cur, plan, memory, disk>> /\ Busy
    BY <1>2 DEF Open, At, Busy
  <2>2. \/ pc' = "end"
        \/ pc' = "sync" /\ Full
        \/ pc' = "request" /\ Told
    BY <1>2 DEF Open, Fault, Fail, Goto, Told
  <2>3. (Full => Full') /\ (Told => Told')
    BY <1>b, <2>1 DEF Full, Told, plan, memory, disk
  <2>4. QED
    BY <1>a, <1>b, <2>1, <2>2, <2>3 DEF WorkerKnows
<1>3. CASE Request
  <2>1. UNCHANGED <<active, cur, plan, disk, src>> /\ Busy /\ Told
    BY <1>0, <1>3 DEF Request, At, Busy, WorkerKnows
  <2>2. CASE pc' # "body"
    BY <1>a, <1>3, <2>2, Persisted DEF Request, Fault, Fail, At
  <2>3. CASE pc' = "body"
    <3>1. PICK t \in {src[c], NoTag} :
               /\ tag[c] \in {NoTag, t} /\ tag' = [tag EXCEPT ![c] = t] /\ ver' = src[c]
               /\ PersistAnd("body")
        BY <1>3, <2>3 DEF Request, Fault, Fail
    <3>2. Receipt(active) /\ c \in Of(active)
        BY <1>0, <2>1, <2>3, <3>1, Persisted DEF WorkerKnows, Busy
    <3>3. tag'[c] = t /\ dtag'[c] = t
        BY <1>0, <2>1, <3>1, <3>2 DEF Receipt, MemoryOK
    <3>4. src[c] \in Version /\ NoTag \notin Version
        BY <1>0, <2>1, NameAssumption DEF PlanOK
    <3>5. sha[c] = NoHash => From(c, src[c])
        <4>1. CASE part[c] = <<>>
            BY <4>1 DEF From
        <4>2. CASE part[c] # <<>>
            BY <1>0, <2>1, <3>1, <3>4, <4>2 DEF Inv, Unspliced, Told
        <4>3. QED
            BY <4>1, <4>2
    <3>6. OfResponse'
        BY <1>b, <2>1, <3>1, <3>3, <3>4, <3>5 DEF OfResponse, From, plan, disk
    <3>7. QED
        BY <1>b, <2>1, <2>3, <3>6 DEF WorkerKnows
  <2>4. QED
    BY <2>2, <2>3
<1>4. CASE Receive
  <2>1. UNCHANGED <<active, cur, plan, memory, src, ver>> /\ Busy /\ OfResponse
    BY <1>0, <1>4 DEF Receive, At, Busy, WorkerKnows
  <2>2. \/ pc' = "end"
        \/ pc' = "sync" /\ Full /\ UNCHANGED part
        \/ /\ pc' = "body" /\ (UNCHANGED receipt \/ Receipt(active))
           /\ part' = [part EXCEPT ![c] = Append(part[c], ver)]
    BY <1>4, Persisted DEF Receive, Fault, Fail, Goto
  <2>3. CASE pc' = "sync" /\ Full /\ UNCHANGED part
    BY <1>b, <2>1, <2>3 DEF WorkerKnows, Full
  <2>4. CASE /\ pc' = "body" /\ (UNCHANGED receipt \/ Receipt(active))
             /\ part' = [part EXCEPT ![c] = Append(part[c], ver)]
    <3>1. dtag'[c] = dtag[c]
        BY <1>0, <2>1, <2>4 DEF OfResponse, Receipt, receipt, memory
    <3>2. part[c] \in Seq(Version) /\ ver \in Version /\ Len(part[c]) \in Nat
        BY <1>0, <2>1, LenProperties DEF OfResponse, DiskOK
    <3>3. /\ Len(part'[c]) = Len(part[c]) + 1 /\ part'[c][Len(part[c]) + 1] = ver
          /\ \A i \in 1 .. Len(part[c]) : part'[c][i] = part[c][i]
        BY <1>0, <2>1, <2>4, <3>2, Grows DEF DiskOK
    <3>4. From(c, ver) => \A i \in 1 .. Len(part'[c]) : part'[c][i] = ver
        BY <3>2, <3>3 DEF From
    <3>5. OfResponse'
        BY <1>b, <2>1, <3>1, <3>4 DEF OfResponse, From, plan, memory
    <3>6. QED
        BY <1>b, <2>1, <2>4, <3>5 DEF WorkerKnows
  <2>5. QED
    BY <1>a, <2>2, <2>3, <2>4
<1>5. CASE Sync
  <2>1. UNCHANGED <<active, cur, plan>> /\ Busy
    BY <1>5 DEF Sync, At, Busy
  <2>2. pc' = "end" \/ (pc' = "mark" /\ synced' = [synced EXCEPT ![c] = Size[cur]])
    BY <1>5 DEF Sync, Goto, Fail
  <2>3. QED
    BY <1>0, <1>a, <1>b, <2>1, <2>2 DEF WorkerKnows, DiskOK
<1>6. CASE Mark
  <2>1. UNCHANGED <<active, cur, plan, disk>> /\ Busy /\ synced[c] = Size[cur]
    BY <1>0, <1>6 DEF Mark, At, Busy, WorkerKnows
  <2>2. pc' \in {"end", "hash"}
    BY <1>6, Persisted DEF Mark
  <2>3. QED
    BY <1>a, <1>b, <2>1, <2>2 DEF WorkerKnows, disk
<1>7. CASE Hash
  <2>1. UNCHANGED <<active, cur, plan, disk>> /\ Busy /\ synced[c] = Size[cur]
    BY <1>0, <1>7 DEF Hash, At, Busy, WorkerKnows
  <2>2. \/ pc' = "end"
        \/ pc' = "link" /\ (sha[c] # NoHash => Genuine(c, sha[c]))
    BY <1>7 DEF Hash, Fault, Fail, Goto
  <2>3. ASSUME sha[c] # NoHash => Genuine(c, sha[c])
        PROVE  \E v \in Version : Genuine(c, v) /\ sha[c] \in {v, NoHash}
    <3>1. CASE sha[c] # NoHash
        BY <1>0, <2>1, <2>3, <3>1 DEF PlanOK
    <3>2. CASE sha[c] = NoHash
      <4>1. PICK v \in Version : From(c, v)
        <5>1. CASE part[c] = <<>>
            BY <1>0, <2>1, <5>1 DEF From, PlanOK
        <5>2. CASE part[c] # <<>>
            BY <1>0, <2>1, <3>2, <5>2 DEF Inv, Unspliced
        <5>3. QED
            BY <5>1, <5>2
      <4>2. part[c] \in Seq(Version) /\ Len(part[c]) = Size[cur]
        <5>1. part[c] \in Seq(Version) /\ Len(part[c]) <= Size[cur] /\ synced[c] <= Len(part[c])
            BY <1>0, <2>1 DEF DiskOK
        <5>2. Len(part[c]) \in Nat /\ Size[cur] \in Nat
            BY <1>0, <2>1, <5>1, LenProperties
        <5>3. QED
            BY <2>1, <5>1, <5>2
      <4>3. part[c] = [i \in 1 .. Size[cur] |-> part[c][i]]
        BY <4>2, LenProperties
      <4>4. part[c] = [i \in 1 .. Size[cur] |-> v]
        BY <4>1, <4>2, <4>3 DEF From
      <4>5. QED
        BY <1>0, <2>1, <3>2, <4>4 DEF Genuine
    <3>3. QED
        BY <3>1, <3>2
  <2>4. (\E v \in Version : Genuine(c, v) /\ sha[c] \in {v, NoHash}) =>
        (\E v \in Version : Genuine(c, v) /\ sha[c] \in {v, NoHash})'
    BY <1>b, <2>1 DEF Genuine, plan, disk
  <2>5. QED
    BY <1>a, <1>b, <2>1, <2>2, <2>3, <2>4 DEF WorkerKnows, disk
<1>8. CASE Link
  <2>1. UNCHANGED <<active, cur, plan>> /\ Busy
    BY <1>8 DEF Link, At, Busy
  <2>2. pc' = "end" \/ (pc' = "dirsync" /\ final' = [final EXCEPT ![c] = TRUE])
    BY <1>8 DEF Link, Fault, Fail, Goto
  <2>3. QED
    BY <1>0, <1>a, <1>b, <2>1, <2>2 DEF WorkerKnows, FlagsOK
<1>9. CASE DirSync
  <2>1. UNCHANGED <<active, cur, plan, final>> /\ Busy /\ final[c]
    BY <1>0, <1>9 DEF DirSync, At, Busy, WorkerKnows
  <2>2. pc' = "end" \/ (pc' = "record" /\ durable' = [durable EXCEPT ![c] = TRUE])
    BY <1>9 DEF DirSync, Fault, Fail, Goto
  <2>3. QED
    BY <1>0, <1>a, <1>b, <2>1, <2>2 DEF WorkerKnows, FlagsOK
<1>10. CASE Record
    BY <1>a, <1>10, Persisted DEF Record
<1>11. CASE End
    BY <1>a, <1>11 DEF End, Begin
<1>12. QED
    BY <1>1, <1>2, <1>3, <1>4, <1>5, <1>6, <1>7, <1>8, <1>9, <1>10, <1>11 DEF Worker

LEMMA WorkerKnowsStep == Inv /\ [Next]_vars => WorkerKnows'
<1> SUFFICES ASSUME Inv, [Next]_vars PROVE WorkerKnows'
    OBVIOUS
<1>0. /\ MemoryOK /\ ReceiptOK /\ PlanOK /\ WorkerOK
      /\ (Busy => /\ c \in File /\ active \in Job /\ c[1] = active /\ c \in Of(active)
                  /\ status[active] # "none")
      /\ (~up => pc = "idle") /\ Nobody \notin Job
    BY Types, Current, NameAssumption DEF Inv, NothingBeforePlan, Busy, WorkerOK
<1>a. ASSUME pc' \in {"idle", "next"} PROVE WorkerKnows'
    BY <1>a DEF WorkerKnows
<1>1. ASSUME NEW k \in Job, Plan(k) PROVE WorkerKnows'
  <2>1. UNCHANGED <<active, pc, cur, ver, disk>> /\ (Busy => active # k)
    BY <1>0, <1>1 DEF Plan, worker
  <2>2. ASSUME Busy
        PROVE  /\ tag'[c] = tag[c] /\ sha'[c] = sha[c] /\ direct'[active] = direct[active]
               /\ dtag'[c] = dtag[c] /\ src'[c] = src[c]
    <3>1. c \in File /\ c \notin Of(k)' /\ c \notin Of(k) /\ active # k
        BY <1>0, <2>1, <2>2 DEF Of
    <3>2. tag'[c] = tag[c] /\ sha'[c] = sha[c] /\ src'[c] = src[c]
        BY <1>1, <3>1 DEF Plan
    <3>3. direct'[active] = direct[active]
        BY <1>0, <1>1, <2>2, <3>1 DEF Plan, PlanOK
    <3>4. dtag'[c] = dtag[c]
        BY <1>1, <3>1 DEF Plan, Receipt
    <3>5. QED
        BY <3>2, <3>3, <3>4
  <2>3. QED
    BY <2>1, <2>2, Undisturbed
<1>2. ASSUME NEW k \in Job, Start(k) PROVE WorkerKnows'
    BY <1>0, <1>a, <1>2 DEF Start, Begin, WorkerOK, worker
<1>3. ASSUME NEW k \in Job, NEW s \in {"PAUSED", "CANCELLED"}, Stop(k, s) PROVE WorkerKnows'
  <2>1. UNCHANGED <<active, pc, cur, ver, disk, tag, plan, src>>
    BY <1>3 DEF Stop
  <2>2. Busy => dtag'[c] \in {dtag[c], tag[c]}
    BY <1>0, <1>3 DEF Stop, Unpersisted, Receipt, receipt
  <2>3. QED
    BY <2>1, <2>2, Undisturbed DEF plan
<1>4. CASE Close \/ Calm \/ UNCHANGED vars
  <2>1. UNCHANGED <<active, pc, cur, ver, disk, tag, dtag, plan, src>>
    BY <1>4 DEF Close, Calm, vars, memory, receipt, worker, disk, plan
  <2>2. QED
    BY <2>1, Undisturbed DEF plan
<1>5. ASSUME NEW g \in File, Changes(g) PROVE WorkerKnows'
  <2>1. UNCHANGED <<active, pc, cur, ver, disk, tag, dtag, plan>>
    BY <1>5 DEF Changes, memory, receipt, worker
  <2>2. Busy /\ ~direct[active] => src'[c] = src[c]
    BY <1>0, <1>5 DEF Changes, PlanOK
  <2>3. QED
    BY <2>1, <2>2, Undisturbed DEF plan
<1>6. CASE Exit \/ Crash \/ PowerLoss
    BY <1>a, <1>6 DEF Exit, Crash, PowerLoss, Vanish, Begin
<1>7. CASE Restart \/ RestartFails
    BY <1>0, <1>a, <1>7 DEF Restart, RestartFails, worker
<1>8. QED
    BY <1>1, <1>2, <1>3, <1>4, <1>5, <1>6, <1>7, Seen DEF Next, UserStops, Unstick

-----------------------------------------------------------------------------
LEMMA InvStep == Inv /\ [Next]_vars => Inv'
BY TypeStep, NothingStep, DurableStep, UnsplicedStep, WorkerKnowsStep, GenuineStep DEF
   Inv

LEMMA InitInv == Init => Inv
<1> SUFFICES ASSUME Init PROVE Inv
    OBVIOUS
<1>1. First \in Version
    BY VersionAssumption DEF First
<1>2. /\ \A f \in File : f[1] \in Job /\ f[2] \in 1 .. Files /\ Size[f[2]] \in Nat
      /\ <<>> \in Seq(Version) /\ Len(<<>>) = 0
    BY Files2
<1>3. MemoryOK /\ ReceiptOK /\ PlanOK /\ FlagsOK /\ WorkerOK /\ BitsOK
  <2>1. MemoryOK /\ ReceiptOK
    BY DEF Init, MemoryOK, ReceiptOK, NoStatus, Planned, Untagged, JobStatus, FileStatus
  <2>2. PlanOK
    BY <1>1 DEF Init, PlanOK
  <2>3. FlagsOK
    BY DEF Init, FlagsOK
  <2>4. WorkerOK
    BY SizeAssumption, NameAssumption DEF Init, WorkerOK
  <2>5. BitsOK
    BY Zenon DEF Init, BitsOK
  <2>6. QED
    BY <2>1, <2>2, <2>3, <2>4, <2>5
<1>4. DiskOK
    BY <1>2 DEF Init, DiskOK
<1>5. NothingBeforePlan
  <2>1. \A j \in Job, i \in 1 .. Files : <<j, i>> \in File
    BY DEF File
  <2>2. QED
    BY <2>1 DEF Init, NothingBeforePlan, NoStatus
<1>6. DiskOrder /\ Unspliced /\ WorkerKnows /\ PublishedIsGenuine /\ CompleteIsDurable
    BY <1>2 DEF Init, DiskOrder, Unspliced, From, WorkerKnows, PublishedIsGenuine,
       CompleteIsDurable, Planned
<1>7. QED
    BY <1>3, <1>4, <1>5, <1>6, Types DEF Inv

(* The invariant holds for any number of jobs, files and versions.         *)
THEOREM Invariance == Spec => []Inv
BY InitInv, InvStep, PTL DEF Spec

(* Every variable keeps its type: what is synced of a .part is no longer   *)
(* than the .part, and that no longer than the file.                       *)
THEOREM TypeCorrect == Spec => []TypeOK
<1>1. Inv => TypeOK
    BY DEF Inv
<1>2. QED
    BY <1>1, Invariance, PTL

(* Whatever was broken off, resumed and changed at the source: what link   *)
(* publishes under the final name is one version, whole, and the pinned one*)
(* if there is a hash.                                                     *)
THEOREM Genuineness == Spec => []PublishedIsGenuine
<1>1. Inv => PublishedIsGenuine
    BY DEF Inv
<1>2. QED
    BY <1>1, Invariance, PTL

(* What job.json calls COMPLETE is there, after a loss of power too.       *)
THEOREM Durability == Spec => []CompleteIsDurable
<1>1. Inv => CompleteIsDurable
    BY DEF Inv
<1>2. QED
    BY <1>1, Invariance, PTL

Preserved ==
    \A f \in File : /\ Len(part'[f]) >= IF PowerLoss THEN synced[f] ELSE Len(part[f])
                    /\ SubSeq(part[f], 1, synced[f]) = SubSeq(part'[f], 1, synced[f])

LEMMA PreservedStep == Inv /\ [Next]_vars => Preserved
<1> SUFFICES ASSUME Inv, [Next]_vars, NEW f \in File
             PROVE  /\ Len(part'[f]) >= IF PowerLoss THEN synced[f] ELSE Len(part[f])
                    /\ SubSeq(part[f], 1, synced[f]) = SubSeq(part'[f], 1, synced[f])
    BY DEF Preserved
<1>1. /\ part[f] \in Seq(Version) /\ part'[f] \in Seq(Version)
      /\ Len(part[f]) \in Nat /\ Len(part'[f]) \in Nat /\ synced[f] \in Nat
      /\ synced[f] <= Len(part[f])
    BY Types, DiskStep, LenProperties DEF Inv, DiskOK
<1>2. SUFFICES /\ Len(part'[f]) >= IF PowerLoss THEN synced[f] ELSE Len(part[f])
               /\ \A i \in 1 .. synced[f] : part[f][i] = part'[f][i]
    BY <1>1, SamePrefix
<1>3. CASE part'[f] = part[f]
    BY <1>1, <1>3
<1>4. CASE PowerLoss
    BY <1>1, <1>4, Prefix
<1>5. CASE pc = "body" /\ Appends(c, ver) /\ f = c
  <2>1. ver \in Version
    BY <1>5 DEF Inv, WorkerKnows, OfResponse
  <2>2. part'[f] = Append(part[f], ver)
    BY <1>5, Types DEF Appends, Inv, DiskOK
  <2>3. QED
    BY <1>1, <2>1, <2>2, Grows
<1>6. QED
    BY <1>3, <1>4, <1>5, DiskMoves, Types DEF disk, Appends, Inv, DiskOK

(* No step of the program takes back a chunk, and a loss of power none that*)
(* was synced ("partial files are preserved").                             *)
THEOREM Preservation == Spec => PartialsArePreserved
<1>1. Inv /\ [Next]_vars => Preserved
    BY PreservedStep
<1>2. Inv /\ [Next]_vars => [Preserved]_vars
    BY <1>1
<1>3. Spec => [][Preserved]_vars
    BY <1>2, Invariance, PTL DEF Spec
<1>4. QED
    BY <1>3 DEF PartialsArePreserved, Preserved
=============================================================================
