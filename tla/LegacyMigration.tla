--------------------------- MODULE LegacyMigration ---------------------------
(***************************************************************************)
(* The pair that was installed before this one (controller.go from 743 on),*)
(* beside the controller of ClusterController: its two ranks and its front *)
(* end are recorded once (SnapshotLegacy), stopped as a whole by that      *)
(* snapshot (StopLegacy, RecoverLegacy) and may be brought back by it      *)
(* (RestoreLegacy).  Both pairs need the same memory and the same network, *)
(* and the operations of both take the same three locks.                   *)
(***************************************************************************)
EXTENDS ClusterController, FiniteSets

CONSTANT Path   \* snapshots that may be taken: 1..n, as many at most

ASSUME PathAssumption == Path \subseteq Nat

OldRank == {"rank0", "rank1"}
Old == OldRank \cup {"front"}

VARIABLES
    old,        \* [Old -> Nat]: the invocation that runs, or 0
    oldOwner,   \* pair-owner.json of the old pair
    snap,       \* the snapshots taken: path -> units
    marker,     \* frontend-poison.json: "no", "busy" or "maintenance"
    answering,  \* its ranks work on a request
    job,        \* "none", "stop", "recover" or "restore"
    at,         \* where it is
    path,       \* its snapshot
    us,         \* its list of units
    rest        \* ranks it has still to stop

oldFiles == <<oldOwner, snap, marker>>
oldWorld == <<old, answering>>
jobVars == <<job, at, path, us, rest>>
oldVars == <<oldFiles, oldWorld, jobVars>>
allVars == <<vars, oldVars>>

(* Units are listed with their invocation, or 0 before it is known.        *)
OldRecord(s, u, p) == [state |-> s, units |-> u, by |-> p]
NoneListed == [n \in {} |-> 0]
With(f, n, v) == [m \in DOMAIN f \cup {n} |-> IF m = n THEN v ELSE f[m]]

(* There may be no old pair.                                               *)
OldInit ==
    /\ old \in {[n \in Old |-> 0], [n \in Old |-> 1]}
    /\ oldOwner = IF old["front"] = 0 THEN OldRecord("absent", NoneListed, 0)
                  ELSE OldRecord("promoted", old, 0)
    /\ snap = NoneListed /\ marker = "no" /\ answering = FALSE
    /\ job = "none" /\ at = "idle" /\ path = 0 /\ us = NoneListed /\ rest = {}

OldActive(n) == old[n] # 0
OldDown == \A n \in Old : ~OldActive(n)
OldVerified(n) == OldActive(n) => us[n] \in {0, old[n]}
InspectOld == \A n \in DOMAIN us : OldVerified(n)

(* A generation needs both ranks.                                          *)
Down(n) ==
    /\ old' = [old EXCEPT ![n] = 0]
    /\ answering' = (answering /\ n \notin OldRank)

(* Every command and write of these operations may fail.                   *)
SaveOldFails(w) == oldOwner' \in {oldOwner, w}

At(l) == at' = l /\ UNCHANGED <<job, path>>
EndJob == job' = "none" /\ at' = "idle" /\ path' = 0 /\ us' = NoneListed /\ rest' = {}

-----------------------------------------------------------------------------
(* SnapshotLegacy reads, inspects and writes one new file.                 *)

Snapshot ==
    /\ job = "none" /\ op = "none"
    /\ DOMAIN oldOwner.units = Old
    /\ \A n \in Old : OldActive(n) => oldOwner.units[n] \in {0, old[n]}
    /\ \E p \in Path \ DOMAIN snap :
          /\ p = Cardinality(DOMAIN snap) + 1
          /\ snap' = With(snap, p, oldOwner.units)
    /\ UNCHANGED <<vars, oldOwner, marker, oldWorld, jobVars>>

-----------------------------------------------------------------------------
(* StopLegacy and RecoverLegacy *)

BeginOldStop(w, p) ==
    /\ job = "none" /\ op = "none"
    /\ p \in DOMAIN snap /\ oldOwner.units = snap[p]
    /\ job' = w /\ path' = p /\ us' = snap[p] /\ at' = "look" /\ UNCHANGED rest
    /\ UNCHANGED <<vars, oldFiles, oldWorld>>

(* A marker that is there refuses the stop; recovery journals it first.    *)
Look ==
    /\ at = "look"
    /\ \/ InspectOld /\ marker = "no" /\ At("reserve") /\ UNCHANGED <<us, rest>>
       \/ /\ InspectOld /\ marker # "no" /\ job = "recover" /\ At("inspect")
          /\ UNCHANGED <<us, rest>>
       \/ EndJob
    /\ UNCHANGED <<vars, oldFiles, oldWorld>>

(* Mutation: the marker is created without O_EXCL.                         *)
ReserveMarker_Overwrites ==
    /\ at = "reserve"
    /\ marker' = "maintenance" /\ At("inspect") /\ UNCHANGED <<us, rest>>
    /\ UNCHANGED <<vars, oldOwner, snap, oldWorld>>

(* O_EXCL: the front end of the old pair may have been faster.  A write    *)
(* that fails leaves the file.                                             *)
ReserveMarker ==
    /\ at = "reserve"
    /\ \/ /\ marker = "no" /\ marker' = "maintenance" /\ At("inspect")
          /\ UNCHANGED <<us, rest>>
       \/ /\ EndJob
          /\ marker' \in {marker, IF marker = "no" THEN "maintenance" ELSE marker}
    /\ UNCHANGED <<vars, oldOwner, snap, oldWorld>>

(* stopUnits: the whole list is inspected, the front end stopped, the list *)
(* inspected again, and then the ranks are stopped side by side.           *)
OldFault ==
    IF job = "restore" THEN At("fault") /\ rest' = {} /\ UNCHANGED us ELSE EndJob

InspectOldUnits ==
    /\ at \in {"inspect", "again"}
    /\ \/ /\ InspectOld /\ UNCHANGED us
          /\ IF at = "inspect" THEN At("front") /\ UNCHANGED rest
             ELSE At("halt") /\ rest' = OldRank \cap DOMAIN us
       \/ OldFault
    /\ UNCHANGED <<vars, oldFiles, oldWorld>>

StopFront ==
    /\ at = "front"
    /\ \/ /\ "front" \in DOMAIN us => OldVerified("front")
          /\ IF "front" \in DOMAIN us THEN Down("front") ELSE UNCHANGED oldWorld
          /\ \/ At("again") /\ UNCHANGED <<us, rest>>
             \/ OldFault
       \/ OldFault /\ UNCHANGED oldWorld
    /\ UNCHANGED <<vars, oldFiles>>

(* Each rank has its goroutine; an error of one does not keep the other    *)
(* from being stopped, but there is no proof any more.                     *)
StopOldRank(n) ==
    /\ at \in {"halt", "halt failed"} /\ n \in rest /\ rest' = rest \ {n}
    /\ \/ OldVerified(n) /\ Down(n) /\ At(at)
       \/ /\ At("halt failed")
          /\ (OldVerified(n) /\ Down(n)) \/ UNCHANGED oldWorld
    /\ UNCHANGED <<vars, oldFiles, us>>

ProveOld ==
    /\ at \in {"halt", "halt failed"} /\ rest = {}
    /\ \/ /\ at = "halt" /\ \A n \in DOMAIN us : ~OldActive(n)
          /\ At(IF job = "restore" THEN "proven" ELSE "archive")
          /\ UNCHANGED <<us, rest>>
       \/ OldFault
    /\ UNCHANGED <<vars, oldFiles, oldWorld>>

(* The marker is only given up behind the proof, the record written last.  *)
ArchiveMarker ==
    /\ at = "archive"
    /\ \/ marker' = "no" /\ At("record") /\ UNCHANGED <<us, rest>>
       \/ marker' \in {marker, "no"} /\ EndJob
    /\ UNCHANGED <<vars, oldOwner, snap, oldWorld>>

RecordOldStopped ==
    /\ at = "record"
    /\ LET w == OldRecord("stopped", oldOwner.units, path)
       IN  Saves(oldOwner, w) \/ SaveOldFails(w)
    /\ EndJob
    /\ UNCHANGED <<vars, snap, marker, oldWorld>>

-----------------------------------------------------------------------------
(* RestoreLegacy *)

StoppedBy(p) ==
    oldOwner.state = "stopped" /\ oldOwner.by = p /\ oldOwner.units = snap[p]

NewPairStopped ==
    owner.state \in {"absent", "stopped"} /\ \A k \in Rank : ~Active(k)

BeginRestore(p) ==
    /\ job = "none" /\ op = "none"
    /\ p \in DOMAIN snap /\ StoppedBy(p) /\ NewPairStopped /\ OldDown
    /\ job' = "restore" /\ at' = "reread" /\ path' = p /\ UNCHANGED <<us, rest>>
    /\ UNCHANGED <<vars, oldFiles, oldWorld>>

(* Everything that takes time was read before: files and their digests on  *)
(* both hosts.  Then the record is read again and the reservation written. *)
ReserveOld ==
    /\ at = "reread"
    /\ LET w == OldRecord("starting", NoneListed, path)
       IN  \/ /\ StoppedBy(path) /\ Saves(oldOwner, w) /\ At("enter")
              /\ UNCHANGED <<us, rest>>
           \/ SaveOldFails(w) /\ EndJob
    /\ UNCHANGED <<vars, snap, marker, oldWorld>>

(* Rank 1, rank 0, then the front end.                                     *)
NextOld == IF "rank1" \notin DOMAIN us THEN "rank1"
           ELSE IF "rank0" \notin DOMAIN us THEN "rank0" ELSE "front"

Undo == At("inspect") /\ UNCHANGED rest

(* Mutation: the unit is recorded after it was launched.                   *)
EnterOld_InMemory ==
    /\ at = "enter" /\ us' = With(us, NextOld, 0) /\ At("launch")
    /\ UNCHANGED <<vars, oldFiles, oldWorld, rest>>

(* The front end waits until both ranks are up and healthy.                *)
EnterOld ==
    /\ at = "enter"
    /\ \/ /\ NextOld = "front" => \A n \in OldRank : OldActive(n) /\ OldVerified(n)
          /\ LET u == With(us, NextOld, 0)
                 w == OldRecord("starting", u, path)
             IN  /\ us' = u
                 /\ \/ Saves(oldOwner, w) /\ At("launch") /\ UNCHANGED rest
                    \/ SaveOldFails(w) /\ Undo
       \/ NextOld = "front" /\ Undo /\ UNCHANGED <<us, oldOwner>>
    /\ UNCHANGED <<vars, snap, marker, oldWorld>>

(* The unit that was entered last.                                         *)
Entered == IF "front" \in DOMAIN us THEN "front"
           ELSE IF "rank0" \in DOMAIN us THEN "rank0" ELSE "rank1"

LaunchOld ==
    /\ at = "launch"
    /\ \/ /\ ~OldActive(Entered) /\ old' = [old EXCEPT ![Entered] = path + 2]
          /\ At("confirm") /\ UNCHANGED rest
       \/ /\ ~OldActive(Entered) /\ Undo
          /\ old' = [old EXCEPT ![Entered] = path + 2]
       \/ Undo /\ UNCHANGED old
    /\ UNCHANGED <<vars, oldFiles, answering, us>>

(* Its invocation is read and saved.                                       *)
ConfirmOld ==
    /\ at = "confirm"
    /\ \/ /\ OldActive(Entered) /\ OldVerified(Entered)
          /\ LET u == [us EXCEPT ![Entered] = old[Entered]]
                 w == OldRecord("starting", u, path)
             IN  /\ us' = u
                 /\ \/ /\ Saves(oldOwner, w) /\ UNCHANGED rest
                       /\ At(IF Entered = "front" THEN "serve" ELSE "enter")
                    \/ SaveOldFails(w) /\ Undo
       \/ Undo /\ UNCHANGED <<us, oldOwner>>
    /\ UNCHANGED <<vars, snap, marker, oldWorld>>

(* The retention files are rewritten and the front end becomes healthy; or *)
(* not.  An error of the last write undoes nothing.                        *)
Promote ==
    /\ at = "serve"
    /\ LET w == OldRecord("promoted", us, path)
       IN  \/ OldActive("front") /\ (Saves(oldOwner, w) \/ SaveOldFails(w)) /\ EndJob
           \/ Undo /\ UNCHANGED <<us, oldOwner>>
    /\ UNCHANGED <<vars, snap, marker, oldWorld>>

(* The cleanup of a restore that failed: what was launched is stopped and  *)
(* recorded, whether that can be written or not.                           *)
Undone ==
    /\ at \in {"proven", "fault"}
    /\ LET w == OldRecord(IF at = "proven" THEN "stopped" ELSE "cleanup_uncertain",
                          us, path)
       IN  Saves(oldOwner, w) \/ SaveOldFails(w)
    /\ EndJob
    /\ UNCHANGED <<vars, snap, marker, oldWorld>>

Migration ==
    \/ Look \/ ReserveMarker \/ InspectOldUnits \/ StopFront
    \/ (\E n \in OldRank : StopOldRank(n)) \/ ProveOld \/ ArchiveMarker
    \/ RecordOldStopped \/ ReserveOld \/ EnterOld \/ LaunchOld \/ ConfirmOld
    \/ Promote \/ Undone

BeginJob ==
    \/ Snapshot
    \/ \E p \in Path : BeginRestore(p) \/ \E w \in {"stop", "recover"} : BeginOldStop(w, p)

CrashOld ==
    /\ job # "none" /\ EndJob
    /\ UNCHANGED <<vars, oldFiles, oldWorld>>

-----------------------------------------------------------------------------
(* The old pair (external): its front end reserves the same marker for     *)
(* each request and removes it with the answer; what is cut short leaves   *)
(* it behind as poison.                                                    *)

Ask ==
    /\ OldActive("front") /\ marker = "no" /\ marker' = "busy"
    /\ answering' = (\A n \in OldRank : OldActive(n))
    /\ UNCHANGED <<vars, oldOwner, snap, old, jobVars>>

Answered ==
    /\ answering /\ answering' = FALSE
    /\ marker' \in {marker} \cup IF OldActive("front") THEN {"no"} ELSE {}
    /\ UNCHANGED <<vars, oldOwner, snap, old, jobVars>>

OldExit(n) ==
    /\ OldActive(n) /\ Down(n)
    /\ UNCHANGED <<vars, oldFiles, jobVars>>

(* A rank that is started again by hand has another InvocationID, unlike   *)
(* that of the first installation and those that a restore launches.       *)
Again == 2
OldByHand(n) ==
    /\ OldActive(n) /\ old' = [old EXCEPT ![n] = Again] /\ answering' = FALSE
    /\ UNCHANGED <<vars, oldFiles, jobVars>>

OldPair ==
    \/ Ask \/ Answered \/ OldByHand("rank1") \/ \E n \in Old : OldExit(n)

-----------------------------------------------------------------------------
(* Both.  start asks for the units of the old pair too (controller.go:515).*)

(* Mutation: they are not asked.                                           *)
OldAsked_NewOnly == TRUE

OldAsked == pc = "admit" /\ pc' = "reserve" => OldDown

Alone ==
    /\ op = "none" /\ op' # "none" => job = "none"
    /\ OldAsked /\ UNCHANGED oldVars

WholeInit == Init /\ OldInit

WholeNext ==
    \/ Next /\ Alone
    \/ BeginJob \/ Migration \/ CrashOld \/ OldPair

(* The controller is as fair as it is alone; who holds the locks for the   *)
(* old pair gives them back.                                               *)
WholeSpec ==
    WholeInit /\ [][WholeNext]_allVars /\ Fairness /\ WF_jobVars(Migration)

-----------------------------------------------------------------------------
(* Safety: the two pairs never run at the same time, whatever was cut short*)
(* and whatever either record says: start and RestoreLegacy ask systemd for*)
(* all five units, and the locks keep one from starting behind the check of*)
(* the other.  (A rank of the new pair is one of Ours: a launch that was   *)
(* still in flight when that pair was proven down is on nobody's list.)    *)
OnePair == (\E k \in Rank : Ours(k)) => OldDown

(* Safety: StopLegacy never stops the old pair under a generation: once it *)
(* has created the marker, "a request racing this management operation can *)
(* never dispatch" (controller.go:1025).  Only RecoverLegacy may cut one.  *)
StopDrains == job = "stop" /\ at \notin {"look", "reserve"} => ~answering

(* Safety: a unit that RestoreLegacy launched and that still runs is listed*)
(* in the record of the old pair, with its invocation as far as that was   *)
(* learnt, and the record does not call the pair stopped: neither a crash  *)
(* nor an error that is ignored hides a rank.                              *)
RestoredAreRecorded ==
    \A n \in Old : old[n] \notin {0, 1, Again} =>
        /\ oldOwner.state # "stopped"
        /\ n \in DOMAIN oldOwner.units /\ oldOwner.units[n] \in {0, old[n]}
-----------------------------------------------------------------------------
(* The types of the variables.                                             *)

List(u) == DOMAIN u \subseteq Old /\ u \in [DOMAIN u -> Nat]

StoppingAt == {"inspect", "front", "again", "halt", "halt failed"}
RestoringAt == {"reread", "enter", "launch", "confirm", "serve", "proven", "fault"}

OldTypeOK ==
    /\ old \in [Old -> Nat]
    /\ oldOwner = OldRecord(oldOwner.state, oldOwner.units, oldOwner.by)
    /\ oldOwner.state \in {"absent", "promoted", "starting", "stopped", "cleanup_uncertain"}
    /\ List(oldOwner.units) /\ oldOwner.by \in Nat
    /\ DOMAIN snap \subseteq Path /\ \A p \in DOMAIN snap : snap[p] \in [Old -> Nat]
    /\ marker \in {"no", "busy", "maintenance"} /\ answering \in BOOLEAN
    /\ \/ job = "none" /\ at = "idle"
       \/ job \in {"stop", "recover"}
             /\ at \in {"look", "reserve", "archive", "record"} \cup StoppingAt
       \/ job = "restore" /\ at \in RestoringAt \cup StoppingAt
    /\ path \in Nat /\ List(us) /\ rest \in SUBSET OldRank

(* The strengthening that makes the safety properties inductive.           *)

(* The locks, and what start and RestoreLegacy have seen behind them.      *)
OneHolder == op = "none" \/ job = "none"
StartedAlone == op = "start" /\ pc # "admit" => OldDown
RestoredAlone == job = "restore" => PairDown
Apart == PairDown \/ OldDown

(* A generation of the old pair has its marker, and both ranks.            *)
AnswersAreMarked == answering => marker # "no" /\ \A n \in OldRank : OldActive(n)

(* Behind its own marker a stop meets no generation.                       *)
StopsBehindMarker ==
    job = "stop" /\ at \notin {"look", "reserve"} =>
        ~answering /\ (at # "record" => marker = "maintenance")

(* A stop works on the whole pair.                                         *)
ListIsWhole == job \in {"stop", "recover"} => DOMAIN us = Old

OldProvenDown == at \in {"archive", "record", "reread", "proven"} => OldDown

(* The list of a restore covers what it launched, and is in the record     *)
(* when it launches.                                                       *)
Covered(n) == n \in DOMAIN us /\ (old[n] = Again \/ us[n] \in {0, old[n]})
RestoreCovers ==
    job = "restore" /\ at # "reread" => \A n \in Old : OldActive(n) => Covered(n)

InOrder == /\ "front" \in DOMAIN us => "rank0" \in DOMAIN us
           /\ "rank0" \in DOMAIN us => "rank1" \in DOMAIN us
RestoreLists ==
    /\ at \in {"idle", "reread"} => DOMAIN us = {}
    /\ at \in {"enter", "launch", "confirm"} => InOrder
    /\ at = "enter" => "front" \notin DOMAIN us
    /\ at \in {"launch", "confirm"} => Entered \in DOMAIN us /\ us[Entered] = 0
    /\ at = "launch" => oldOwner.state = "starting" /\ oldOwner.units = us

OldInv ==
    /\ OldTypeOK /\ OneHolder /\ StartedAlone /\ RestoredAlone /\ AnswersAreMarked
    /\ StopsBehindMarker /\ ListIsWhole /\ OldProvenDown /\ RestoreCovers
    /\ RestoreLists /\ Apart /\ StopDrains /\ RestoredAreRecorded

(* The controller's own invariant holds beside the old pair, too.          *)
WholeInv == IndInv /\ OldInv
=============================================================================
