------------------------- MODULE ClusterController -------------------------
(***************************************************************************)
(* The whole-pair controller (internal/app/controller.go): Start, Stop and *)
(* Restart of the two rank units, one local and one behind ssh.  What is   *)
(* running is known from three places that no transaction ties together:   *)
(*   - systemd on two hosts, whose answers may fail and whose writes are   *)
(*     ambiguous (an error does not say whether the command took effect);  *)
(*   - pair-owner.json, the controller's own durable record;               *)
(*   - owner.json, the receipt shared with the other model (DS41), which   *)
(*     uses the same cluster and may start when the receipt says OFF.      *)
(* One step is one command or one durable write, and the controller may    *)
(* crash before any of them.  compute.lock makes operations exclude each   *)
(* other, so there is at most one operation and a crash frees the lock.    *)
(***************************************************************************)
EXTENDS Naturals

CONSTANT MaxEpoch   \* bound: starts that get as far as a reservation

ASSUME MaxEpochAssumption == MaxEpoch \in Nat

Rank == {0, 1}

(* A unit is known by its nonce, fresh for every start, hence by an epoch, *)
(* and by its InvocationID.  Epoch 0 stands for any nonce that is not      *)
(* ours, invocation 0 for one that the controller has not learnt yet.      *)
Off == [epoch |-> 0, inv |-> 0]
Foreign == [epoch |-> 0, inv |-> 1]
Unit(e, i) == [epoch |-> e, inv |-> i]
NoUnits == [k \in Rank |-> Off]

VARIABLES
    unit,     \* [Rank -> Unit]: what systemd runs under the rank's name
    late,     \* [Rank -> epochs]: launches that nobody waits for any more and
              \* that may yet take effect
    overlooked, \* history: epochs with such a launch in flight when the pair
              \* was proven down: what comes up then is on no record
    owner,    \* pair-owner.json
    shared,   \* owner.json, the receipt shared with DS41
    poison,   \* pair-poison.json exists
    ds41,     \* the other model runs
    op,       \* the operation under way: "none", "stop", "restart", "start"
    pc,       \* where it is
    o,        \* its in-memory copy of the owner record
    mine,     \* stop: the receipt was ours; valid: and matched the record
    valid,
    todo,     \* ranks the current phase has still to visit
    failed,   \* stopUnits met an error
    faulty    \* commands and writes may fail; FALSE once faults have ceased

files == <<owner, shared, poison>>
launches == <<late, overlooked>>
world == <<unit, launches, ds41>>
local == <<o, mine, valid, todo, failed>>
vars == <<unit, late, overlooked, owner, shared, poison, ds41, op, pc, o, mine,
          valid, todo, failed, faulty>>

OwnerStates == {"absent", "starting", "ready", "stopped", "cleanup_uncertain"}
Record(s, e, us) == [state |-> s, epoch |-> e, units |-> us]
Receipt(w, s, e, us) == [owner |-> w, state |-> s, epoch |-> e, units |-> us]

SharedFromGLM(s, r) == Receipt("GLM", s, r.epoch, r.units)
SharedOff == Receipt("NONE", "OFF", 0, NoUnits)
SharedStartAllowed(r) == r.owner = "NONE" /\ r.state = "OFF"
SharedMatchesGLM(r, w) ==
    /\ r.owner = "GLM" /\ r.epoch = w.epoch
    /\ \A k \in Rank : w.units[k] # Off => r.units[k] = w.units[k]

Init ==
    /\ unit = NoUnits /\ late = [k \in Rank |-> {}] /\ overlooked = {}
    /\ owner = Record("absent", 0, NoUnits)
    /\ shared = SharedOff
    /\ poison = FALSE /\ ds41 = FALSE
    /\ op = "none" /\ pc = "idle"
    /\ o = Record("absent", 0, NoUnits)
    /\ mine = FALSE /\ valid = FALSE
    /\ todo = {} /\ failed = FALSE
    /\ faulty = TRUE

-----------------------------------------------------------------------------
(* controllerBytes: temporary file, fsync, rename, fsync of the directory. *)
(* An error may come before or after the rename.                           *)
Saves(file, v) == file' = v
SaveFails(file, v) == faulty /\ file' \in {file, v}

Go(l) == pc' = l /\ UNCHANGED op
End == /\ op' = "none" /\ pc' = "idle"
       /\ o' = Record("absent", 0, NoUnits)
       /\ mine' = FALSE /\ valid' = FALSE /\ todo' = {} /\ failed' = FALSE

Active(k) == unit[k] # Off
Verified(k, rec) ==
    Active(k) => /\ unit[k].epoch = rec.epoch
                 /\ rec.epoch # 0
                 /\ rec.inv \in {0, unit[k].inv}

-----------------------------------------------------------------------------
(* An operation takes the locks (compute.lock, pair.lock, legacy pair.lock)*)
BeginStop ==
    /\ op = "none"
    /\ \E w \in {"stop", "restart"} : op' = w
    /\ o' = owner
    /\ pc' = "claim"
    /\ UNCHANGED <<files, world, mine, valid, todo, failed, faulty>>

(* stop: without a readable record there is nothing to stop.               *)
NoRecord ==
    /\ pc = "claim"
    /\ o.state = "absent" \/ faulty
    /\ End
    /\ UNCHANGED <<files, world, faulty>>

(* stop: the receipt is read; when it is ours and matches, STOPPING is     *)
(* written and the outcome of that write ignored.                          *)
Claim ==
    /\ pc = "claim" /\ o.state # "absent"
    /\ \/ /\ mine' = (shared.owner = "GLM")
          /\ valid' = SharedMatchesGLM(shared, o)
          /\ IF SharedMatchesGLM(shared, o)
             THEN \/ Saves(shared, SharedFromGLM("STOPPING", o))
                  \/ SaveFails(shared, SharedFromGLM("STOPPING", o))
             ELSE UNCHANGED shared
       \/ faulty /\ UNCHANGED <<mine, valid, shared>>      \* unreadable
    /\ Go("inspect")
    /\ UNCHANGED <<owner, poison, world, o, todo, failed, faulty>>

-----------------------------------------------------------------------------
(* stopUnits, shared by stop and by the cleanup of a failed start.         *)

Owned == {k \in Rank : o.units[k] # Off}

(* Nothing is stopped unless the whole set could be inspected.             *)
InspectAll == \A k \in Owned : Verified(k, o.units[k])

Inspect ==
    /\ pc = "inspect"
    /\ \/ InspectAll /\ todo' = Owned /\ failed' = FALSE /\ Go("halt")
       \/ (faulty \/ ~InspectAll) /\ todo' = {} /\ failed' = TRUE /\ Go("fault")
    /\ UNCHANGED <<files, world, o, mine, valid, faulty>>

(* One goroutine per rank: inspect again, and stop what is active and ours.*)
Halt(k) ==
    /\ pc = "halt" /\ k \in todo
    /\ todo' = todo \ {k}
    /\ \/ ~Active(k) /\ UNCHANGED <<unit, failed>>
       \/ /\ Verified(k, o.units[k])
          /\ unit' = [unit EXCEPT ![k] = Off]
          /\ failed' \in {failed, failed \/ faulty}
       \/ /\ faulty \/ ~Verified(k, o.units[k])
          /\ failed' = TRUE /\ UNCHANGED unit
    /\ Go("halt")
    /\ UNCHANGED <<files, launches, ds41, o, mine, valid, faulty>>

(* Mutation: stop commands that returned are taken as proof.               *)
Stopped_Assumed == TRUE

Stopped == ~failed /\ \A k \in Owned : ~Active(k)

(* The proof: every unit answers, and answers that it is inactive.         *)
Prove ==
    /\ pc = "halt" /\ todo = {}
    /\ \/ /\ Stopped /\ Go("proven")
          /\ overlooked' = overlooked \cup late[0] \cup late[1]
       \/ (~Stopped \/ faulty) /\ Go("fault") /\ UNCHANGED overlooked
    /\ UNCHANGED <<files, unit, late, ds41, local, faulty>>

-----------------------------------------------------------------------------
(* The rest of stop.                                                       *)

Stopping == op \in {"stop", "restart"}

(* stopUnits failed: both records say so, as far as they can be written.   *)
StopFault ==
    /\ pc = "fault" /\ Stopping
    /\ LET w == [o EXCEPT !.state = "cleanup_uncertain"]
       IN  /\ o' = w
           /\ Saves(owner, w) \/ SaveFails(owner, w)
    /\ Go("disclaim")
    /\ UNCHANGED <<shared, poison, world, mine, valid, todo, failed, faulty>>

(* Mutation: the receipt of an unreconciled pair keeps its old identities. *)
Disclaim_OldIdentity ==
    /\ pc = "disclaim"
    /\ shared' = IF mine THEN [shared EXCEPT !.state = "UNRECONCILED"]
                 ELSE shared
    /\ End
    /\ UNCHANGED <<owner, poison, world, faulty>>

Disclaim ==
    /\ pc = "disclaim"
    /\ IF mine
       THEN \/ Saves(shared, SharedFromGLM("UNRECONCILED", o))
            \/ SaveFails(shared, SharedFromGLM("UNRECONCILED", o))
       ELSE UNCHANGED shared
    /\ End
    /\ UNCHANGED <<owner, poison, world, faulty>>

StopRecord ==
    /\ pc = "proven" /\ Stopping
    /\ LET w == [o EXCEPT !.state = "stopped"]
       IN  \/ /\ Saves(owner, w) /\ o' = w
              /\ Go(IF ~mine THEN "archive" ELSE IF valid THEN "release"
                    ELSE "disclaim")
              /\ UNCHANGED <<mine, valid, todo, failed>>
           \/ SaveFails(owner, w) /\ End
    /\ UNCHANGED <<shared, poison, world, faulty>>

Release ==
    /\ pc = "release"
    /\ \/ Saves(shared, SharedOff) /\ Go("archive") /\ UNCHANGED local
       \/ SaveFails(shared, SharedOff) /\ End
    /\ UNCHANGED <<owner, poison, world, faulty>>

ArchivePoison ==
    /\ pc = "archive"
    /\ \/ /\ poison' = FALSE
          /\ IF op = "restart"
             THEN pc' = "admit" /\ op' = "start" /\ UNCHANGED local
             ELSE End
       \/ faulty /\ End /\ UNCHANGED poison
    /\ UNCHANGED <<owner, shared, world, faulty>>

-----------------------------------------------------------------------------
(* start.                                                                  *)

BeginStart ==
    /\ op = "none"
    /\ op' = "start" /\ pc' = "admit"
    /\ UNCHANGED <<files, world, local, faulty>>

(* Mutation: the shared receipt is not consulted.                          *)
MayStart_Unshared ==
    owner.state \in {"absent", "stopped"} /\ ~poison /\ \A k \in Rank : ~Active(k)

(* The receipt is OFF, the last pair was stopped, nothing is poisoned and  *)
(* no unit of the pair is active; artefacts, ports and memory are in order *)
(* on both hosts, or the start is refused.                                 *)
MayStart ==
    /\ SharedStartAllowed(shared)
    /\ owner.state \in {"absent", "stopped"}
    /\ ~poison
    /\ \A k \in Rank : ~Active(k)

Admit ==
    /\ pc = "admit" /\ MayStart /\ owner.epoch < MaxEpoch
    /\ o' = Record("starting", owner.epoch + 1, NoUnits)
    /\ Go("reserve")
    /\ UNCHANGED <<files, world, mine, valid, todo, failed, faulty>>

Refuse ==
    /\ pc = "admit" /\ End
    /\ UNCHANGED <<files, world, faulty>>

Reserve ==
    /\ pc = "reserve"
    /\ \/ Saves(owner, o) /\ Go("announce") /\ UNCHANGED local
       \/ SaveFails(owner, o) /\ End
    /\ UNCHANGED <<shared, poison, world, faulty>>

Announce ==
    /\ pc = "announce"
    /\ \/ /\ Saves(shared, SharedFromGLM("STARTING", o)) /\ Go("enter")
          /\ todo' = Rank /\ UNCHANGED <<o, mine, valid, failed>>
       \/ SaveFails(shared, SharedFromGLM("STARTING", o)) /\ End
    /\ UNCHANGED <<owner, poison, world, faulty>>

(* Rank 0 first.                                                           *)
Next0 == IF 0 \in todo THEN 0 ELSE 1

CleanUp == Go("inspect") /\ UNCHANGED <<mine, valid, todo, failed>>

(* Mutation: the rank is recorded after it was launched.                   *)
Enter_InMemory ==
    /\ pc = "enter"
    /\ o' = [o EXCEPT !.units[Next0] = Unit(o.epoch, 0)]
    /\ Go("launch")
    /\ UNCHANGED <<files, world, mine, valid, todo, failed, faulty>>

Enter ==
    /\ pc = "enter"
    /\ LET w == [o EXCEPT !.units[Next0] = Unit(o.epoch, 0)]
       IN  /\ o' = w
           /\ \/ Saves(owner, w) /\ Go("launch")
                 /\ UNCHANGED <<mine, valid, todo, failed>>
              \/ SaveFails(owner, w) /\ CleanUp
    /\ UNCHANGED <<shared, poison, world, faulty>>

(* launch: systemd-run.  An error tells nothing about the unit: it may be  *)
(* there, or come, or never come.                                          *)
InFlight(k) == late' = [late EXCEPT ![k] = @ \cup {o.epoch}]

Launch ==
    /\ pc = "launch"
    /\ LET k == Next0
           u == Unit(o.epoch, 1)
       IN  \/ /\ ~Active(k) /\ unit' = [unit EXCEPT ![k] = u] /\ UNCHANGED late
              /\ Go("confirm") /\ UNCHANGED <<mine, valid, todo, failed>>
           \/ /\ faulty \/ Active(k)
              /\ \/ UNCHANGED <<unit, late>>
                 \/ ~Active(k) /\ unit' = [unit EXCEPT ![k] = u] /\ UNCHANGED late
                 \/ faulty /\ InFlight(k) /\ UNCHANGED unit
              /\ CleanUp
    /\ UNCHANGED <<files, overlooked, ds41, o, faulty>>

Confirm ==
    /\ pc = "confirm"
    /\ LET k == Next0
       IN  \/ /\ Active(k) /\ Verified(k, o.units[k])
              /\ o' = [o EXCEPT !.units[k] = unit[k]]
              /\ Go("record") /\ UNCHANGED <<mine, valid, todo, failed>>
           \/ /\ faulty \/ ~Active(k) \/ ~Verified(k, o.units[k])
              /\ CleanUp /\ o' = o
    /\ UNCHANGED <<files, world, faulty>>

RecordRank ==
    /\ pc = "record"
    /\ \/ Saves(owner, o) /\ Go("publish")
          /\ UNCHANGED <<mine, valid, todo, failed>>
       \/ SaveFails(owner, o) /\ CleanUp
    /\ UNCHANGED <<shared, poison, world, o, faulty>>

Publish ==
    /\ pc = "publish"
    /\ \/ /\ Saves(shared, SharedFromGLM("STARTING", o))
          /\ todo' = todo \ {Next0}
          /\ Go(IF todo = {Next0} THEN "health" ELSE "enter")
          /\ UNCHANGED <<mine, valid, failed>>
       \/ SaveFails(shared, SharedFromGLM("STARTING", o)) /\ CleanUp
    /\ UNCHANGED <<owner, poison, world, o, faulty>>

(* Both units active and ours, both healthy; or one gone, or too late.     *)
WaitHealth ==
    /\ pc = "health"
    /\ \/ /\ \A k \in Rank : Active(k) /\ Verified(k, o.units[k])
          /\ o' = [o EXCEPT !.state = "ready"]
          /\ Go("ready") /\ UNCHANGED <<mine, valid, todo, failed>>
       \/ CleanUp /\ o' = o
    /\ UNCHANGED <<files, world, faulty>>

RecordReady ==
    /\ pc = "ready"
    /\ \/ Saves(owner, o) /\ Go("running")
          /\ UNCHANGED <<mine, valid, todo, failed>>
       \/ SaveFails(owner, o) /\ CleanUp
    /\ UNCHANGED <<shared, poison, world, o, faulty>>

PublishRunning ==
    /\ pc = "running"
    /\ \/ Saves(shared, SharedFromGLM("RUNNING", o)) /\ End
       \/ SaveFails(shared, SharedFromGLM("RUNNING", o)) /\ CleanUp /\ o' = o
    /\ UNCHANGED <<owner, poison, world, faulty>>

(* The deferred cleanup of a start that fails after its reservation: the   *)
(* receipt first, then the record; no write error is looked at.            *)
CleanedUp ==
    /\ pc \in {"proven", "fault"} /\ op = "start"
    /\ LET w == [o EXCEPT !.state = IF pc = "proven" THEN "stopped"
                                    ELSE "cleanup_uncertain"]
           r == IF pc = "proven" THEN SharedOff
                ELSE SharedFromGLM("UNRECONCILED", w)
       IN  /\ o' = w
           /\ Saves(shared, r) \/ SaveFails(shared, r)
    /\ Go("bury")
    /\ UNCHANGED <<owner, poison, world, mine, valid, todo, failed, faulty>>

Bury ==
    /\ pc = "bury"
    /\ Saves(owner, o) \/ SaveFails(owner, o)
    /\ End
    /\ UNCHANGED <<shared, poison, world, faulty>>

Controller ==
    \/ NoRecord \/ Claim \/ Inspect \/ (\E k \in Rank : Halt(k)) \/ Prove
    \/ StopFault \/ Disclaim \/ StopRecord \/ Release \/ ArchivePoison
    \/ Admit \/ Refuse \/ Reserve \/ Announce \/ Enter \/ Launch \/ Confirm
    \/ RecordRank \/ Publish \/ WaitHealth \/ RecordReady \/ PublishRunning
    \/ CleanedUp \/ Bury

Crash ==
    /\ op # "none" /\ faulty
    /\ End
    /\ UNCHANGED late \/ (pc = "launch" /\ InFlight(Next0))
    /\ UNCHANGED <<files, unit, overlooked, ds41, faulty>>

-----------------------------------------------------------------------------
(* The environment: ranks that exit, a restart by hand, other units under  *)
(* a rank's name, the coordinator's poison, and the other model, which     *)
(* asks nothing but the shared receipt (external).                         *)

RankExit(k) ==
    /\ Active(k)
    /\ unit' = [unit EXCEPT ![k] = Off]
    /\ UNCHANGED <<launches, ds41, files, op, pc, local, faulty>>

ByHand(k) ==
    /\ faulty
    /\ \/ ~Active(k) /\ unit' = [unit EXCEPT ![k] = Foreign]
       \/ unit[k].epoch # 0 /\ unit' = [unit EXCEPT ![k].inv = 2]
    /\ UNCHANGED <<launches, ds41, files, op, pc, local, faulty>>

LateLaunch(k) ==
    /\ \E e \in late[k] :
          /\ late' = [late EXCEPT ![k] = @ \ {e}]
          /\ unit' = IF Active(k) THEN unit ELSE [unit EXCEPT ![k] = Unit(e, 1)]
    /\ UNCHANGED <<overlooked, ds41, files, op, pc, local, faulty>>

Poison ==
    /\ faulty /\ poison' = TRUE
    /\ UNCHANGED <<owner, shared, world, op, pc, local, faulty>>

DS41Reserve ==
    /\ op = "none" /\ SharedStartAllowed(shared)
    /\ shared' = Receipt("DS41", "RUNNING", 0, NoUnits)
    /\ UNCHANGED <<owner, poison, world, op, pc, local, faulty>>

DS41Run ==
    /\ shared.owner = "DS41"
    /\ ds41' = ~ds41
    /\ UNCHANGED <<files, unit, launches, op, pc, local, faulty>>

DS41Release ==
    /\ op = "none" /\ shared.owner = "DS41" /\ ~ds41
    /\ shared' = SharedOff
    /\ UNCHANGED <<owner, poison, world, op, pc, local, faulty>>

Calm ==
    /\ faulty /\ faulty' = FALSE
    /\ UNCHANGED <<files, world, op, pc, local>>

Environment ==
    \/ \E k \in Rank : RankExit(k) \/ ByHand(k) \/ LateLaunch(k)
    \/ Poison \/ DS41Reserve \/ DS41Run \/ DS41Release \/ Calm

Next == BeginStop \/ BeginStart \/ Controller \/ Crash \/ Environment

Spec == Init /\ [][Next]_vars

(* A rank that the controller answers for: one it launched, unless the     *)
(* launch was still in flight when the pair was proven down.               *)
Ours(k) == unit[k].epoch \notin {0} \cup overlooked

(* An operation under way makes progress; an operator who finds the pair   *)
(* poisoned, or neither stopped cleanly nor serving, asks for a stop again;*)
(* units that are not the controller's any more are removed by whoever     *)
(* started them.                                                           *)
Serving == owner.state = "ready" /\ shared.owner = "GLM" /\ \A k \in Rank : Ours(k)
Reconciled == \/ owner.state = "absent" /\ ~poison
              \/ owner.state = "stopped" /\ shared.owner # "GLM" /\ ~poison
              \/ Serving

Fairness ==
    /\ WF_vars(Controller)
    /\ SF_vars(BeginStop /\ op' = "stop" /\ (~Reconciled \/ poison))
    /\ \A k \in Rank : WF_vars(RankExit(k) /\ (unit[k].epoch = 0 \/ unit[k].inv = 2))

FairSpec == Spec /\ Fairness

-----------------------------------------------------------------------------
Units == [epoch : 0..MaxEpoch, inv : 0..2]
Records == [state : OwnerStates, epoch : 0..MaxEpoch, units : [Rank -> Units]]
Receipts == [owner : {"NONE", "GLM", "DS41"},
             state : {"OFF", "STARTING", "RUNNING", "STOPPING", "UNRECONCILED"},
             epoch : 0..MaxEpoch, units : [Rank -> Units]]

StopPcs == {"claim", "disclaim", "release", "archive"}
UnitPcs == {"inspect", "halt", "proven", "fault"}
LaunchPcs == {"enter", "launch", "confirm", "record", "publish", "health",
              "ready", "running"}
StartPcs == {"admit", "reserve", "announce", "bury"} \cup LaunchPcs

TypeOK ==
    /\ unit \in [Rank -> Units]
    /\ late \in [Rank -> SUBSET (1..MaxEpoch)] /\ overlooked \in SUBSET (1..MaxEpoch)
    /\ owner \in Records /\ o \in Records
    /\ shared \in Receipts /\ (shared.owner = "NONE" <=> shared.state = "OFF")
    /\ op \in {"none", "stop", "restart", "start"}
    /\ pc \in {"idle"} \cup StopPcs \cup UnitPcs \cup StartPcs
    /\ op = "none" <=> pc = "idle"
    /\ pc \in StopPcs => op # "start"
    /\ pc \in StartPcs => op = "start"
    /\ todo \in SUBSET Rank
    /\ poison \in BOOLEAN /\ ds41 \in BOOLEAN /\ mine \in BOOLEAN
    /\ valid \in BOOLEAN /\ failed \in BOOLEAN /\ faulty \in BOOLEAN

(* In what follows a rank of ours is one the controller answers for (Ours):*)
(* no record can tell of a unit that comes up from a launch which was still*)
(* in flight when systemd was asked for the last time.                     *)

(* Safety: whatever was cut short, a rank unit of ours that runs is        *)
(* recorded in pair-owner.json, in a state that lets stop find it and      *)
(* keeps start from launching beside it.  ("A durable owner reservation    *)
(* precedes every systemd write": start, launch, stopUnits.)               *)
RunningRanksAreRecorded ==
    \A k \in Rank : Ours(k) =>
        /\ owner.units[k].epoch = unit[k].epoch
        /\ owner.state \notin {"absent", "stopped"}

(* Safety: the shared receipt is GLM's as long as a rank of ours runs:     *)
(* an unknown state of the pair is never shown as OFF to the other model.  *)
NeverFalselyOff == (\E k \in Rank : Ours(k)) => shared.owner = "GLM"

(* Safety: the other model never runs beside a rank of ours.               *)
OneModelAtATime == ds41 => \A k \in Rank : ~Ours(k)

(* Safety: the poison is only archived behind the proof that the ranks of  *)
(* ours are down.                                                          *)
PoisonOutlivesThePair ==
    [][poison /\ ~poison' => \A k \in Rank : ~Ours(k)]_vars

(* The strengthening that makes these inductive: they hold as well of the  *)
(* launches that are still in flight.                                      *)

(* The starts that the controller has to answer for at a rank: that of the *)
(* unit that runs, and those whose launch may yet take effect.             *)
Answerable(k) == ({unit[k].epoch} \cup late[k]) \ ({0} \cup overlooked)
PairDown == \A k \in Rank : Answerable(k) = {}

AnswerableAreRecorded ==
    \A k \in Rank : \A e \in Answerable(k) :
        owner.units[k].epoch = e /\ owner.state \notin {"absent", "stopped"}

(* What the operation knows covers what runs.                              *)
KnownToOperation ==
    /\ pc \notin {"idle", "admit"} =>
          \A k \in Rank : \A e \in Answerable(k) : o.units[k].epoch = e
    /\ op = "start" /\ pc # "admit" =>
          /\ o.epoch > 0
          /\ \A k \in Rank : o.units[k].epoch \in {0, o.epoch}
    /\ pc = "launch" => /\ owner = o /\ o.state = "starting"
                        /\ o.units[Next0].epoch = o.epoch
    /\ pc \in LaunchPcs => o.state \in {"starting", "ready"}
    /\ pc \in {"reserve", "announce", "enter", "confirm", "record", "publish"} =>
          o.state = "starting"

(* Where the pair is known to be down.                                     *)
ProvenDown ==
    /\ pc \in {"proven", "release", "archive", "reserve", "announce"} => PairDown
    /\ pc \in {"bury", "disclaim"} /\ o.state # "cleanup_uncertain" => PairDown

(* Whose the receipt is while an operation relies on it.                   *)
ReceiptHeld ==
    /\ pc \in LaunchPcs => shared.owner = "GLM"
    /\ pc \in UnitPcs /\ op = "start" => shared.owner = "GLM"
    /\ pc \in UnitPcs \cup {"disclaim", "release"} /\ mine => shared.owner = "GLM"
    /\ pc = "release" => mine
    /\ pc \in {"reserve", "announce"} => shared.owner = "NONE"
    /\ pc \in {"idle", "claim"} => ~mine

(* Whose the receipt is while something runs or may yet come up.           *)
ReceiptClaims == ~PairDown => shared.owner = "GLM"
DS41HoldsReceipt == ds41 => shared.owner = "DS41"

IndInv ==
    /\ TypeOK /\ AnswerableAreRecorded /\ KnownToOperation /\ ProvenDown
    /\ ReceiptHeld /\ ReceiptClaims /\ DS41HoldsReceipt

(* Liveness: once faults have ceased, repeated stops reconcile the records *)
(* after any crash, failed command or write, but for two cases: a marker   *)
(* without a record, which no stop archives (stop returns before) and      *)
(* which refuses every start; and a unit of an overlooked launch, which    *)
(* has the name of a rank and is on no record.                             *)
MarkerWithoutRecord == poison /\ owner.state = "absent"
EventuallyReconciled ==
    ~faulty ~> \/ Reconciled \/ MarkerWithoutRecord
               \/ \E k \in Rank : unit[k].epoch \in overlooked
=============================================================================
