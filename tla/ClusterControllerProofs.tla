----------------------- MODULE ClusterControllerProofs -----------------------
(***************************************************************************)
(* Proofs about the whole-pair controller, for any number of starts.       *)
(* IndInv (in ClusterController) is inductive: one lemma per conjunct shows*)
(* that every step preserves it.  It speaks of the starts a rank has to be *)
(* answered for (Answerable), those whose launch is still in flight        *)
(* included; what comes up from an overlooked launch is outside of it.     *)
(* What the properties need beyond their own words is what the operation   *)
(* under way knows: its copy of the record covers those starts             *)
(* (KnownToOperation), where it has proof that the pair is down            *)
(* (ProvenDown), and when the receipt is its own (ReceiptHeld).            *)
(* Then, about the controller beside the old pair (LegacyMigration): a step*)
(* is one of the controller or one about the old pair, so these lemmas     *)
(* carry its half of WholeInv; what is left is the old pair's half and the *)
(* turns that the locks force (Turns).                                     *)
(***************************************************************************)
EXTENDS LegacyMigration, TLAPS

(* What the controller builds, and what is in its parts.                    *)
LEMMA Built ==
    /\ Off \in Units /\ Foreign \in Units /\ NoUnits \in [Rank -> Units]
    /\ Off.epoch = 0 /\ Foreign.epoch = 0 /\ Off # Foreign
    /\ \A k \in Rank : NoUnits[k] = Off
    /\ \A e \in 0..MaxEpoch, i \in 0..2 :
          Unit(e, i) \in Units /\ Unit(e, i).epoch = e /\ Unit(e, i).inv = i
BY MaxEpochAssumption DEF Off, Foreign, Unit, Units, NoUnits, Rank

LEMMA NewRecord ==
    ASSUME NEW s \in OwnerStates, NEW e \in 0..MaxEpoch
    PROVE  /\ Record(s, e, NoUnits) \in Records
           /\ Record(s, e, NoUnits).state = s
           /\ Record(s, e, NoUnits).epoch = e
           /\ Record(s, e, NoUnits).units = NoUnits
BY Built DEF Record, Records

LEMMA NewState ==
    ASSUME NEW r \in Records, NEW s \in OwnerStates
    PROVE  /\ [r EXCEPT !.state = s] \in Records
           /\ [r EXCEPT !.state = s].state = s
           /\ [r EXCEPT !.state = s].epoch = r.epoch
           /\ [r EXCEPT !.state = s].units = r.units
BY DEF Records

LEMMA NewUnit ==
    ASSUME NEW r \in Records, NEW k \in Rank, NEW u \in Units
    PROVE  /\ [r EXCEPT !.units[k] = u] \in Records
           /\ [r EXCEPT !.units[k] = u].state = r.state
           /\ [r EXCEPT !.units[k] = u].epoch = r.epoch
           /\ [r EXCEPT !.units[k] = u].units = [r.units EXCEPT ![k] = u]
           /\ [r.units EXCEPT ![k] = u][k] = u
           /\ \A j \in Rank \ {k} : [r.units EXCEPT ![k] = u][j] = r.units[j]
BY DEF Records

ReceiptStates == {"OFF", "STARTING", "RUNNING", "STOPPING", "UNRECONCILED"}

LEMMA NewReceipt ==
    ASSUME NEW r \in Records, NEW s \in ReceiptStates
    PROVE  /\ SharedFromGLM(s, r) \in Receipts
           /\ SharedFromGLM(s, r).owner = "GLM"
           /\ SharedFromGLM(s, r).state = s
BY DEF SharedFromGLM, Receipt, Receipts, Records, ReceiptStates

LEMMA OffReceipt ==
    SharedOff \in Receipts /\ SharedOff.owner = "NONE" /\ SharedOff.state = "OFF"
BY Built, MaxEpochAssumption DEF SharedOff, Receipt, Receipts

LEMMA OwnerFields ==
    ASSUME NEW r \in Records
    PROVE  /\ r.state \in OwnerStates /\ r.epoch \in 0..MaxEpoch
           /\ r.units \in [Rank -> Units]
BY DEF Records

LEMMA NextIsRank == Next0 \in Rank
BY DEF Next0, Rank

(* A launch is in flight for the start that is under way.                  *)
LEMMA FlightType ==
    ASSUME IndInv, pc = "launch", InFlight(Next0)
    PROVE  late' \in [Rank -> SUBSET (1..MaxEpoch)]
<1>1. op = "start" /\ o.epoch > 0 /\ o.epoch \in 0..MaxEpoch
    BY OwnerFields DEF IndInv, TypeOK, KnownToOperation, StartPcs, LaunchPcs
<1>2. o.epoch \in 1..MaxEpoch
    BY <1>1, MaxEpochAssumption
<1>3. QED
    BY <1>2, NextIsRank DEF IndInv, TypeOK, InFlight

-----------------------------------------------------------------------------
(* The types, and that the position fits the operation (all actions).      *)
LEMMA TypeStep == IndInv /\ [Next]_vars => TypeOK'
<1> SUFFICES ASSUME IndInv, [Next]_vars PROVE TypeOK'
    OBVIOUS
<1>0. TypeOK /\ o \in Records /\ owner \in Records /\ shared \in Receipts
    BY DEF IndInv, TypeOK
<1>e. Record("absent", 0, NoUnits) \in Records
    BY NewRecord, MaxEpochAssumption DEF OwnerStates
<1>t. /\ \A s \in OwnerStates : [o EXCEPT !.state = s] \in Records
      /\ \A k \in Rank, u \in Units : [o EXCEPT !.units[k] = u] \in Records
      /\ \A s \in ReceiptStates : /\ SharedFromGLM(s, o) \in Receipts
                                   /\ SharedFromGLM(s, o).owner = "GLM"
                                   /\ SharedFromGLM(s, o).state = s
    BY <1>0, NewState, NewUnit, NewReceipt
<1>f. pc = "launch" /\ InFlight(Next0) => late' \in [Rank -> SUBSET (1..MaxEpoch)]
    BY FlightType
<1> USE <1>0, <1>e, <1>t DEF TypeOK, files, world, launches, local, Go, End, Saves,
    SaveFails, CleanUp, StopPcs, UnitPcs, LaunchPcs, StartPcs
<1>1. CASE BeginStop \/ BeginStart \/ Crash
  <2>1. CASE BeginStop
    BY <2>1 DEF BeginStop
  <2>2. CASE BeginStart
    BY <2>2 DEF BeginStart
  <2>3. CASE Crash
    <3>1. UNCHANGED late \/ (pc = "launch" /\ InFlight(Next0))
        BY <2>3 DEF Crash
    <3>2. late' \in [Rank -> SUBSET (1..MaxEpoch)]
        BY <3>1, <1>f
    <3>3. QED
        BY <2>3, <3>2 DEF Crash
  <2>4. QED
    BY <1>1, <2>1, <2>2, <2>3
<1>2. CASE NoRecord \/ Inspect \/ Prove \/ Refuse
  <2>1. CASE NoRecord \/ Refuse
    BY <2>1 DEF NoRecord, Refuse
  <2>2. CASE Inspect
    BY <2>2 DEF Inspect, Owned
  <2>3. CASE Prove
    <3>1. overlooked' \in SUBSET (1..MaxEpoch)
        BY <2>3 DEF Prove, Rank
    <3>2. QED
        BY <2>3, <3>1 DEF Prove
  <2>4. QED
    BY <1>2, <2>1, <2>2, <2>3
<1>3. CASE Claim \/ Disclaim \/ Release
  <2>1. CASE Claim
    <3>1. /\ shared' \in Receipts
          /\ shared'.owner = "NONE" <=> shared'.state = "OFF"
        BY <2>1 DEF Claim, ReceiptStates
    <3>2. mine' \in BOOLEAN /\ valid' \in BOOLEAN
        BY <2>1, Zenon DEF Claim, SharedMatchesGLM
    <3>3. QED
        BY <2>1, <3>1, <3>2 DEF Claim
  <2>2. CASE Disclaim
    BY <2>2 DEF Disclaim, ReceiptStates
  <2>3. CASE Release
    BY <2>3, OffReceipt DEF Release
  <2>4. QED
    BY <1>3, <2>1, <2>2, <2>3
<1>4. ASSUME NEW k \in Rank, Halt(k) PROVE TypeOK'
  <2>1. failed' \in BOOLEAN
    BY <1>4, Zenon DEF Halt
  <2>2. unit' \in [Rank -> Units]
    BY <1>4, Built DEF Halt
  <2>3. todo' \in SUBSET Rank
    BY <1>4 DEF Halt
  <2>4. QED
    BY <1>4, <2>1, <2>2, <2>3 DEF Halt
<1>5. CASE StopFault \/ StopRecord \/ ArchivePoison
  <2>1. CASE StopFault
    BY <2>1 DEF StopFault, OwnerStates, Stopping
  <2>2. CASE StopRecord
    <3>1. owner' \in Records /\ o' \in Records
        BY <2>2 DEF StopRecord, OwnerStates
    <3>2. /\ mine' \in BOOLEAN /\ valid' \in BOOLEAN
          /\ todo' \in SUBSET Rank /\ failed' \in BOOLEAN
        BY <2>2 DEF StopRecord
    <3>3. /\ pc' \in {"idle", "archive", "release", "disclaim"}
          /\ op' = IF pc' = "idle" THEN "none" ELSE op
        BY <2>2 DEF StopRecord
    <3>4. QED
        BY <2>2, <3>1, <3>2, <3>3 DEF StopRecord, Stopping
  <2>3. CASE ArchivePoison
    BY <2>3 DEF ArchivePoison
  <2>4. QED
    BY <1>5, <2>1, <2>2, <2>3
<1>6. CASE Admit
  <2>1. o' \in Records
    <3>1. owner.epoch + 1 \in 0..MaxEpoch
        BY <1>6, OwnerFields, MaxEpochAssumption DEF Admit
    <3>2. QED
        BY <1>6, <3>1, NewRecord DEF Admit, OwnerStates
  <2>2. QED
    BY <1>6, <2>1 DEF Admit
<1>7. CASE Reserve \/ Announce
    BY <1>7 DEF Reserve, Announce, ReceiptStates
<1>8. CASE Enter
  <2>1. Unit(o.epoch, 0) \in Units
    BY Built, OwnerFields
  <2>2. QED
    BY <1>8, <2>1, NextIsRank DEF Enter
<1>9. CASE Launch
  <2>1. Unit(o.epoch, 1) \in Units
    BY Built, OwnerFields
  <2>2. unit' \in [Rank -> Units]
    BY <1>9, <2>1, NextIsRank DEF Launch
  <2>3. late' \in [Rank -> SUBSET (1..MaxEpoch)]
    BY <1>9, <1>f DEF Launch
  <2>4. QED
    BY <1>9, <2>2, <2>3 DEF Launch
<1>10. CASE Confirm \/ RecordRank \/ Publish
    BY <1>10, NextIsRank DEF Confirm, RecordRank, Publish, ReceiptStates
<1>11. CASE WaitHealth \/ RecordReady \/ PublishRunning
  <2>1. CASE WaitHealth
    BY <2>1 DEF WaitHealth, OwnerStates
  <2>2. CASE RecordReady
    BY <2>2 DEF RecordReady
  <2>3. CASE PublishRunning
    BY <2>3 DEF PublishRunning, ReceiptStates
  <2>4. QED
    BY <1>11, <2>1, <2>2, <2>3
<1>12. CASE CleanedUp
  <2>1. o' \in Records
    BY <1>12 DEF CleanedUp, OwnerStates
  <2>2. shared' \in Receipts /\ (shared'.owner = "NONE" <=> shared'.state = "OFF")
    BY <1>12, <2>1, NewReceipt, OffReceipt DEF CleanedUp, ReceiptStates
  <2>3. QED
    BY <1>12, <2>1, <2>2 DEF CleanedUp
<1>13. CASE Bury
    BY <1>13 DEF Bury
<1>14. ASSUME NEW k \in Rank, RankExit(k) \/ ByHand(k) \/ LateLaunch(k)
       PROVE TypeOK'
  <2>1. unit' \in [Rank -> Units]
    <3>1. \A u \in Units : [u EXCEPT !.inv = 2] \in Units
        BY DEF Units
    <3>2. \A e \in 1..MaxEpoch : Unit(e, 1) \in Units
        BY Built, MaxEpochAssumption
    <3>3. CASE RankExit(k) \/ ByHand(k)
        BY <3>3, <3>1, Built DEF RankExit, ByHand
    <3>4. CASE LateLaunch(k)
        BY <3>4, <3>2 DEF LateLaunch
    <3>5. QED
        BY <1>14, <3>3, <3>4
  <2>2. late' \in [Rank -> SUBSET (1..MaxEpoch)]
    BY <1>14 DEF RankExit, ByHand, LateLaunch
  <2>3. QED
    BY <1>14, <2>1, <2>2 DEF RankExit, ByHand, LateLaunch
<1>15. CASE Poison \/ DS41Run \/ Calm
  <2>1. ds41' \in BOOLEAN
    BY <1>15, Zenon DEF Poison, DS41Run, Calm
  <2>2. QED
    <3>1. CASE Poison
        BY <3>1 DEF Poison
    <3>2. CASE DS41Run
        BY <3>2, <2>1 DEF DS41Run
    <3>3. CASE Calm
      <4>1. faulty' \in BOOLEAN
        BY <3>3 DEF Calm
      <4>2. UNCHANGED <<unit, late, overlooked, owner, shared, poison, ds41, op, pc, o, mine,
                        valid, todo, failed>>
        BY <3>3 DEF Calm
      <4>3. QED
        BY <4>1, <4>2
    <3>4. QED
        BY <1>15, <3>1, <3>2, <3>3
<1>16. CASE DS41Reserve \/ DS41Release
  <2>1. /\ Receipt("DS41", "RUNNING", 0, NoUnits) \in Receipts
        /\ Receipt("DS41", "RUNNING", 0, NoUnits).owner = "DS41"
        /\ Receipt("DS41", "RUNNING", 0, NoUnits).state = "RUNNING"
    BY Built, MaxEpochAssumption DEF Receipt, Receipts
  <2>2. QED
    BY <1>16, <2>1, OffReceipt DEF DS41Reserve, DS41Release
<1>17. CASE UNCHANGED vars
    BY <1>17 DEF vars
<1>18. QED
    BY <1>1, <1>2, <1>3, <1>4, <1>5, <1>6, <1>7, <1>8, <1>9, <1>10, <1>11, <1>12,
       <1>13, <1>14, <1>15, <1>16, <1>17 DEF Next, Controller, Environment

-----------------------------------------------------------------------------
(* What a rank has to be answered for after a step it had to before it, or *)
(* it is the launch of this step (stopUnits only takes away).              *)
LEMMA UnitStep ==
    ASSUME IndInv, [Next]_vars, NEW k \in Rank, NEW e \in Answerable(k)'
    PROVE  \/ e \in Answerable(k)
           \/ pc = "launch" /\ k = Next0 /\ e = o.epoch
<1>0. unit \in [Rank -> Units] /\ late \in [Rank -> SUBSET (1..MaxEpoch)]
    BY DEF IndInv, TypeOK
<1>i. InFlight(Next0) => late'[k] \subseteq late[k] \cup (IF k = Next0 THEN {o.epoch} ELSE {})
    BY <1>0 DEF InFlight
<1> USE <1>0 DEF Answerable, world, launches
<1>1. ASSUME NEW j \in Rank, LateLaunch(j) PROVE e \in Answerable(k)
  <2>1. PICK d \in late[j] :
           /\ late' = [late EXCEPT ![j] = @ \ {d}]
           /\ unit' = IF Active(j) THEN unit ELSE [unit EXCEPT ![j] = Unit(d, 1)]
    BY <1>1 DEF LateLaunch
  <2>2. Unit(d, 1).epoch = d /\ overlooked' = overlooked
    BY <1>1 DEF Unit, LateLaunch
  <2>3. late'[k] \subseteq late[k] /\ unit'[k].epoch \in {unit[k].epoch} \cup late[k]
    BY <2>1, <2>2
  <2>4. QED
    BY <2>2, <2>3
<1>2. CASE Launch
  <2>1. Unit(o.epoch, 1).epoch = o.epoch
    BY DEF Unit
  <2>2. pc = "launch" /\ overlooked' = overlooked
    BY <1>2 DEF Launch
  <2>3. unit' = unit \/ unit' = [unit EXCEPT ![Next0] = Unit(o.epoch, 1)]
    BY <1>2 DEF Launch
  <2>4. late' = late \/ InFlight(Next0)
    BY <1>2 DEF Launch
  <2>5. unit'[k].epoch = unit[k].epoch \/ (k = Next0 /\ unit'[k].epoch = o.epoch)
    BY <2>1, <2>3
  <2>6. QED
    BY <1>i, <2>2, <2>4, <2>5
<1>3. ASSUME NEW j \in Rank, Halt(j) \/ RankExit(j) \/ ByHand(j)
      PROVE e \in Answerable(k)
  <2>1. [unit[j] EXCEPT !.inv = 2].epoch = unit[j].epoch
    BY DEF Units
  <2>2. UNCHANGED <<late, overlooked>>
    BY <1>3 DEF Halt, RankExit, ByHand
  <2>3. \/ unit' = unit
        \/ \E u \in {Off, Foreign} : unit' = [unit EXCEPT ![j] = u]
        \/ unit' = [unit EXCEPT ![j].inv = 2]
    BY <1>3, Zenon DEF Halt, RankExit, ByHand
  <2>4. Off.epoch = 0 /\ Foreign.epoch = 0
    BY DEF Off, Foreign
  <2>5. unit'[k].epoch \in {0, unit[k].epoch}
    BY <2>1, <2>3, <2>4
  <2>6. QED
    BY <2>2, <2>5
<1>4. CASE Crash
  <2>1. unit' = unit /\ overlooked' = overlooked
    BY <1>4 DEF Crash
  <2>2. late' = late \/ (pc = "launch" /\ InFlight(Next0))
    BY <1>4 DEF Crash
  <2>3. QED
    BY <1>i, <2>1, <2>2
<1>5. CASE Prove
  <2>1. unit' = unit /\ late' = late /\ overlooked \subseteq overlooked'
    BY <1>5 DEF Prove
  <2>2. QED
    BY <2>1
<1>6. CASE UNCHANGED <<unit, late, overlooked>>
    BY <1>6
<1>7. QED
    BY <1>1, <1>2, <1>3, <1>4, <1>5, <1>6 DEF Next, Controller, Environment,
       BeginStop, BeginStart, NoRecord, Claim, Inspect, StopFault, Disclaim, StopRecord,
       Release, ArchivePoison, Admit, Refuse, Reserve, Announce, Enter, Confirm,
       RecordRank, Publish, WaitHealth, RecordReady, PublishRunning, CleanedUp,
       Bury, Poison, DS41Reserve, DS41Run, DS41Release, Calm, vars

(* In particular a pair that is down stays down, unless a rank is launched.*)
LEMMA StaysDown ==
    ASSUME IndInv, [Next]_vars, PairDown, pc # "launch"
    PROVE  PairDown'
<1> SUFFICES ASSUME NEW k \in Rank, NEW e \in Answerable(k)' PROVE FALSE
    BY DEF PairDown
<1>1. QED
    BY UnitStep DEF PairDown

(* What the operation knows covers what runs: whatever it puts into its    *)
(* copy of the record is about the unit it found or is about to launch.    *)
LEMMA KnownStep == IndInv /\ [Next]_vars => KnownToOperation'
<1> SUFFICES ASSUME IndInv, [Next]_vars PROVE KnownToOperation'
    OBVIOUS
<1>0. TypeOK /\ o \in Records /\ owner \in Records /\ o.epoch \in 0..MaxEpoch
    BY OwnerFields DEF IndInv, TypeOK
<1>p. /\ op = "none" <=> pc = "idle"
      /\ pc \in StopPcs => op # "start"
      /\ pc \in StartPcs => op = "start"
    BY DEF IndInv, TypeOK
<1>u. \A k \in Rank : \A e \in Answerable(k)' :
          e \in Answerable(k) \/ (pc = "launch" /\ k = Next0 /\ e = o.epoch)
    BY UnitStep
<1>k. KnownToOperation /\ ProvenDown /\ AnswerableAreRecorded
    BY DEF IndInv
<1>n. \A k \in Rank : NoUnits[k].epoch = 0
    BY Built
<1>s. \A st \in OwnerStates :
          /\ [o EXCEPT !.state = st].state = st
          /\ [o EXCEPT !.state = st].epoch = o.epoch
          /\ [o EXCEPT !.state = st].units = o.units
    BY <1>0, NewState
<1> USE <1>p, <1>u, <1>k DEF KnownToOperation, files, world, launches, local, Go, End,
    Saves, SaveFails, CleanUp, StopPcs, StartPcs, LaunchPcs
<1>1. CASE BeginStop
    BY <1>1 DEF BeginStop, AnswerableAreRecorded
<1>2. CASE BeginStart \/ Crash \/ NoRecord \/ Refuse \/ Disclaim \/ Bury
    BY <1>2 DEF BeginStart, Crash, NoRecord, Refuse, Disclaim, Bury
<1>3. CASE Claim \/ Inspect \/ Prove \/ Release \/ ArchivePoison
  <2>1. CASE Claim \/ Inspect \/ Prove
    BY <2>1 DEF Claim, Inspect, Prove
  <2>2. CASE Release
    BY <2>2 DEF Release
  <2>3. CASE ArchivePoison
    BY <2>3 DEF ArchivePoison
  <2>4. QED
    BY <1>3, <2>1, <2>2, <2>3
<1>4. ASSUME NEW k \in Rank, Halt(k) PROVE KnownToOperation'
    BY <1>4 DEF Halt
<1>5. CASE StopFault \/ StopRecord \/ CleanedUp
  <2>1. \/ pc' = "idle" /\ op' = "none"
        \/ /\ o'.epoch = o.epoch /\ o'.units = o.units
           /\ op' = op
           /\ pc' \in {"disclaim", "archive", "release", "bury"}
    <3>1. CASE StopFault
        BY <3>1, <1>s DEF StopFault, OwnerStates
    <3>2. CASE StopRecord
        BY <3>2, <1>s DEF StopRecord, OwnerStates
    <3>3. CASE CleanedUp
      <4>1. \E st \in OwnerStates : o' = [o EXCEPT !.state = st]
        BY <3>3 DEF CleanedUp, OwnerStates
      <4>2. QED
        BY <3>3, <4>1, <1>s DEF CleanedUp
    <3>4. QED
        BY <1>5, <3>1, <3>2, <3>3
  <2>2. pc \in {"fault", "proven"} /\ UNCHANGED unit
    BY <1>5 DEF StopFault, StopRecord, CleanedUp
  <2>3. QED
    BY <2>1, <2>2
<1>6. CASE Admit
  <2>1. /\ o'.state = "starting" /\ o'.epoch = owner.epoch + 1
        /\ o'.units = NoUnits
    BY <1>6 DEF Admit, Record
  <2>2. o'.epoch > 0
    BY <1>0, <2>1, OwnerFields, MaxEpochAssumption
  <2>3. PairDown'
    <3>1. PairDown /\ pc # "launch"
        BY <1>6 DEF Admit, MayStart, PairDown, AnswerableAreRecorded
    <3>2. QED
        BY <3>1, StaysDown
  <2>4. QED
    BY <1>6, <1>n, <2>1, <2>2, <2>3 DEF Admit, PairDown
<1>7. CASE Reserve \/ Announce
    BY <1>7 DEF Reserve, Announce
<1>8. CASE Enter
  <2>1. /\ o'.state = o.state /\ o'.epoch = o.epoch
        /\ o'.units[Next0].epoch = o.epoch
        /\ \A k \in Rank \ {Next0} : o'.units[k] = o.units[k]
    <3>1. Unit(o.epoch, 0) \in Units /\ Unit(o.epoch, 0).epoch = o.epoch
        BY <1>0, Built
    <3>2. QED
        BY <1>0, <1>8, <3>1, NewUnit, NextIsRank DEF Enter
  <2>2. pc = "enter" /\ op = "start" /\ UNCHANGED <<op, unit>>
    BY <1>8 DEF Enter
  <2>3. \A k \in Rank : \A e \in Answerable(k)' : o'.units[k].epoch = e
    <3>1. \A k \in Rank : \A e \in Answerable(k)' : o.units[k].epoch = e
        BY <2>2
    <3>2. \A k \in Rank : \A e \in Answerable(k)' : e # 0
        BY DEF Answerable
    <3>3. o.units[Next0].epoch \in {0, o.epoch}
        BY <2>2, NextIsRank
    <3>4. QED
        BY <2>1, <3>1, <3>2, <3>3
  <2>4. todo' = todo /\ ((pc' = "launch" /\ owner' = o') \/ pc' = "inspect")
    BY <1>8 DEF Enter
  <2>5. Next0' = Next0
    BY <2>4 DEF Next0
  <2>6. QED
    BY <2>1, <2>2, <2>3, <2>4, <2>5
<1>9. CASE Launch
    BY <1>9, NextIsRank DEF Launch
<1>10. CASE Confirm
  <2>1. CASE o' = o
    BY <1>10, <2>1 DEF Confirm
  <2>2. CASE o' # o
    <3>1. /\ o' = [o EXCEPT !.units[Next0] = unit[Next0]]
          /\ unit[Next0].epoch = o.units[Next0].epoch
          /\ unit' = unit /\ pc' = "record" /\ op' = op /\ pc = "confirm"
        BY <1>10, <2>2 DEF Confirm, Verified
    <3>2. unit[Next0] \in Units
        BY <1>0, NextIsRank DEF TypeOK
    <3>3. /\ o'.state = o.state /\ o'.epoch = o.epoch
          /\ o'.units[Next0] = unit[Next0]
          /\ \A k \in Rank \ {Next0} : o'.units[k] = o.units[k]
        BY <1>0, <3>1, <3>2, NewUnit, NextIsRank
    <3>4. QED
        BY <3>1, <3>3
  <2>3. QED
    BY <2>1, <2>2
<1>11. CASE RecordRank \/ Publish \/ RecordReady
    BY <1>11 DEF RecordRank, Publish, RecordReady
<1>12. CASE WaitHealth \/ PublishRunning
  <2>1. CASE o' = o
    BY <1>12, <2>1 DEF WaitHealth, PublishRunning
  <2>2. CASE o' # o /\ WaitHealth
    <3>1. /\ o'.epoch = o.epoch /\ o'.units = o.units /\ o'.state = "ready"
          /\ pc' = "ready" /\ op' = op /\ pc = "health"
        BY <2>2, <1>s DEF WaitHealth, OwnerStates
    <3>2. QED
        BY <3>1
  <2>3. CASE o' # o /\ PublishRunning
    BY <2>3 DEF PublishRunning
  <2>4. QED
    BY <1>12, <2>1, <2>2, <2>3
<1>13. CASE Environment
  <2>1. UNCHANGED <<owner, op, pc, local>>
    BY <1>13 DEF Environment, RankExit, ByHand, LateLaunch, Poison, DS41Reserve,
       DS41Run, DS41Release, Calm
  <2>2. Next0' = Next0
    BY <2>1 DEF Next0
  <2>3. QED
    BY <2>1, <2>2
<1>14. CASE UNCHANGED vars
    BY <1>14 DEF vars, Next0
<1>15. QED
    BY <1>1, <1>2, <1>3, <1>4, <1>5, <1>6, <1>7, <1>8, <1>9, <1>10, <1>11, <1>12,
       <1>13, <1>14 DEF Next, Controller

-----------------------------------------------------------------------------
(* Where the pair is known to be down: stopUnits proved it for every unit  *)
(* of the record, and the record covers what runs; start looks itself.     *)
LEMMA DownStep == IndInv /\ [Next]_vars => ProvenDown'
<1> SUFFICES ASSUME IndInv, [Next]_vars PROVE ProvenDown'
    OBVIOUS
<1>u. PairDown /\ pc # "launch" => PairDown'
    BY StaysDown
<1>k. ProvenDown
    BY DEF IndInv
<1>e. o \in Records
    BY DEF IndInv, TypeOK
<1> USE <1>u, <1>k DEF ProvenDown, files, world, launches, local, Go, End, CleanUp
<1>1. CASE Prove
  <2>1. ASSUME pc' = "proven", NEW k \in Rank, NEW e \in Answerable(k)' PROVE FALSE
    <3>1. /\ pc = "halt" /\ (k \in Owned => ~Active(k))
          /\ overlooked' = overlooked \cup late[0] \cup late[1]
          /\ unit' = unit /\ late' = late
        BY <1>1, <2>1 DEF Prove, Stopped
    <3>2. e = unit[k].epoch /\ e # 0 /\ e \in Answerable(k)
        BY <3>1 DEF Answerable, Rank
    <3>3. o.units[k] # Off
        BY <3>1, <3>2, Built DEF IndInv, KnownToOperation
    <3>4. QED
        BY <3>1, <3>2, <3>3, Built DEF Owned, Active
  <2>2. pc' = "proven" => PairDown'
    BY <2>1 DEF PairDown
  <2>3. QED
    BY <1>1, <2>2 DEF Prove
<1>2. CASE StopFault \/ StopRecord \/ CleanedUp
  <2>1. \A st \in OwnerStates : [o EXCEPT !.state = st].state = st
    BY <1>e, NewState
  <2>2. pc = "fault" => o'.state = "cleanup_uncertain"
    <3>1. CASE StopFault
        BY <3>1, <2>1 DEF StopFault, OwnerStates
    <3>2. CASE StopRecord
        BY <3>2 DEF StopRecord
    <3>3. CASE CleanedUp
        BY <3>3, <2>1 DEF CleanedUp, OwnerStates
    <3>4. QED
        BY <1>2, <3>1, <3>2, <3>3
  <2>3. /\ pc \in {"fault", "proven"}
        /\ pc' \in {"idle", "disclaim", "archive", "release", "bury"}
        /\ pc = "fault" => pc' \in {"disclaim", "bury"}
    BY <1>2 DEF StopFault, StopRecord, CleanedUp
  <2>4. QED
    BY <2>2, <2>3
<1>3. CASE Admit
  <2>1. PairDown
    BY <1>3 DEF Admit, MayStart, PairDown, IndInv, AnswerableAreRecorded
  <2>2. QED
    BY <1>3, <2>1 DEF Admit
<1>4. CASE Release \/ Reserve \/ Announce
    BY <1>4 DEF Release, Reserve, Announce
<1>5. CASE UNCHANGED <<pc, o>>
    BY <1>5 DEF Launch
<1>6. CASE pc' \notin {"proven", "release", "archive", "reserve", "announce", "bury", "disclaim"}
    BY <1>6
<1>7. QED
    BY <1>1, <1>2, <1>3, <1>4, <1>5, <1>6 DEF Next, Controller, Environment,
       BeginStop, BeginStart, Crash, NoRecord, Claim, Inspect, Halt, Disclaim,
       ArchivePoison, Refuse, Enter, Launch, Confirm, RecordRank, Publish,
       WaitHealth, RecordReady, PublishRunning, Bury, RankExit, ByHand,
       LateLaunch, Poison, DS41Reserve, DS41Run, DS41Release, Calm, vars

(* Whose the receipt is: during an operation only that operation writes it *)
(* (compute.lock), and the other model holds it while it runs.             *)
LEMMA ReceiptStep == IndInv /\ [Next]_vars => ReceiptHeld' /\ DS41HoldsReceipt'
<1> SUFFICES ASSUME IndInv, [Next]_vars PROVE ReceiptHeld' /\ DS41HoldsReceipt'
    OBVIOUS
<1>0. /\ o \in Records /\ ReceiptHeld /\ DS41HoldsReceipt
      /\ op = "none" <=> pc = "idle"
      /\ pc \in StopPcs => op # "start"
      /\ pc \in StartPcs => op = "start"
    BY DEF IndInv, TypeOK
<1>g. \A s, r : SharedFromGLM(s, r).owner = "GLM"
    BY DEF SharedFromGLM, Receipt
<1>o. SharedOff.owner = "NONE"
    BY OffReceipt
<1> USE <1>0, <1>g, <1>o DEF ReceiptHeld, DS41HoldsReceipt, files, world, launches,
    local, Go, End, Saves, SaveFails, CleanUp, StopPcs, UnitPcs, LaunchPcs, StartPcs
<1>1. CASE BeginStop \/ BeginStart \/ Crash \/ NoRecord \/ Refuse
    BY <1>1 DEF BeginStop, BeginStart, Crash, NoRecord, Refuse
<1>2. CASE Claim
  <2>1. mine' => shared.owner = "GLM"
    BY <1>2, Zenon DEF Claim
  <2>2. shared'.owner = shared.owner
    <3>1. \/ shared' = shared
          \/ /\ SharedMatchesGLM(shared, o)
             /\ shared' = SharedFromGLM("STOPPING", o)
        BY <1>2, Zenon DEF Claim
    <3>2. QED
        BY <3>1 DEF SharedMatchesGLM
  <2>3. pc = "claim" /\ pc' = "inspect" /\ op' = op /\ ds41' = ds41
    BY <1>2 DEF Claim
  <2>4. QED
    BY <2>1, <2>2, <2>3
<1>3. CASE Inspect \/ Prove \/ StopFault
    BY <1>3 DEF Inspect, Prove, StopFault, Stopping
<1>4. ASSUME NEW k \in Rank, Halt(k)
      PROVE  ReceiptHeld' /\ DS41HoldsReceipt'
    BY <1>4 DEF Halt
<1>5. CASE StopRecord \/ Disclaim \/ Release \/ ArchivePoison
    BY <1>5 DEF StopRecord, Disclaim, Release, ArchivePoison, Stopping
<1>6. CASE Admit \/ Reserve \/ Announce
    BY <1>6 DEF Admit, MayStart, SharedStartAllowed, Reserve, Announce
<1>7. CASE Enter \/ Launch \/ Confirm \/ RecordRank \/ WaitHealth \/ RecordReady
    BY <1>7 DEF Enter, Launch, Confirm, RecordRank, WaitHealth, RecordReady
<1>8. CASE Publish \/ PublishRunning
    BY <1>8 DEF Publish, PublishRunning
<1>9. CASE CleanedUp \/ Bury
    BY <1>9 DEF CleanedUp, Bury
<1>10. CASE DS41Reserve \/ DS41Run \/ DS41Release
    BY <1>10 DEF DS41Reserve, DS41Run, DS41Release, Receipt
<1>11. CASE UNCHANGED <<shared, ds41, op, pc, mine>>
    BY <1>11
<1>12. QED
    BY <1>1, <1>2, <1>3, <1>4, <1>5, <1>6, <1>7, <1>8, <1>9, <1>10, <1>11
       DEF Next, Controller, Environment, RankExit, ByHand, LateLaunch, Poison,
       Calm, vars

(* Running ranks are recorded: every write of the record covers them, and  *)
(* a rank is launched only behind such a write.                            *)
LEMMA RecordedStep == IndInv /\ [Next]_vars => AnswerableAreRecorded'
<1> SUFFICES ASSUME IndInv, [Next]_vars PROVE AnswerableAreRecorded'
    OBVIOUS
<1>0. o \in Records /\ AnswerableAreRecorded
    BY DEF IndInv, TypeOK
<1>u. \A k \in Rank : \A e \in Answerable(k)' :
          e \in Answerable(k) \/ (pc = "launch" /\ k = Next0 /\ e = o.epoch)
    BY UnitStep
<1>1. CASE UNCHANGED owner
  <2>1. pc = "launch" => /\ owner.units[Next0].epoch = o.epoch
                         /\ owner.state = "starting"
    BY DEF IndInv, KnownToOperation
  <2>2. QED
    BY <1>0, <1>u, <1>1, <2>1 DEF AnswerableAreRecorded
<1>2. CASE /\ owner' = o' /\ pc \notin {"launch", "idle", "admit"}
           /\ o'.state \notin {"absent", "stopped"}
           /\ KnownToOperation' /\ pc' \notin {"idle", "admit"}
    BY <1>2 DEF AnswerableAreRecorded, KnownToOperation
<1>3. CASE pc # "launch" /\ PairDown
    BY <1>u, <1>3 DEF PairDown, AnswerableAreRecorded
<1>4. CASE Bury
  <2>1. CASE owner' = o /\ o.state = "cleanup_uncertain"
    <3>1. \A k \in Rank : \A e \in Answerable(k) : o.units[k].epoch = e
        BY <1>4 DEF Bury, IndInv, KnownToOperation
    <3>2. pc # "launch"
        BY <1>4 DEF Bury
    <3>3. QED
        BY <1>u, <2>1, <3>1, <3>2 DEF AnswerableAreRecorded
  <2>2. CASE o.state # "cleanup_uncertain"
    BY <1>3, <1>4, <2>2 DEF Bury, IndInv, ProvenDown
  <2>3. QED
    BY <1>1, <1>4, <2>1, <2>2 DEF Bury, Saves, SaveFails
<1>5. CASE StopFault
  <2>1. o'.state = "cleanup_uncertain"
    BY <1>0, <1>5, NewState DEF StopFault, OwnerStates
  <2>2. QED
    BY <1>1, <1>2, <1>5, <2>1, KnownStep DEF StopFault, Saves, SaveFails, Go
<1>6. CASE StopRecord \/ Reserve
    BY <1>3, <1>6 DEF IndInv, ProvenDown, StopRecord, Reserve
<1>7. CASE Enter
  <2>1. o'.state = o.state
    <3>1. Unit(o.epoch, 0) \in Units
        BY <1>0, Built, OwnerFields
    <3>2. QED
        BY <1>0, <1>7, <3>1, NewUnit, NextIsRank DEF Enter
  <2>2. o.state = "starting"
    BY <1>7 DEF Enter, IndInv, KnownToOperation
  <2>3. QED
    BY <1>1, <1>2, <1>7, <2>1, <2>2, KnownStep
       DEF Enter, Saves, SaveFails, Go, CleanUp
<1>8. CASE RecordRank \/ RecordReady
  <2>1. o' = o /\ o.state \in {"starting", "ready"}
    BY <1>8 DEF RecordRank, RecordReady, IndInv, KnownToOperation, LaunchPcs
  <2>2. QED
    BY <1>1, <1>2, <1>8, <2>1, KnownStep
       DEF RecordRank, RecordReady, Saves, SaveFails, Go, CleanUp
<1>9. QED
    BY <1>1, <1>4, <1>5, <1>6, <1>7, <1>8 DEF Next, Controller, Environment,
       BeginStop, BeginStart, Crash, NoRecord, Claim, Inspect, Prove, Halt,
       Disclaim, Release, ArchivePoison, Admit, Refuse, Announce, Launch,
       Confirm, Publish, WaitHealth, PublishRunning, CleanedUp, RankExit,
       ByHand, LateLaunch, Poison, DS41Reserve, DS41Run, DS41Release, Calm,
       vars, files

(* The receipt is GLM's unless the pair is down: it is given back only     *)
(* behind the proof of that.                                               *)
LEMMA NotOffStep == IndInv /\ [Next]_vars => ReceiptClaims'
<1> SUFFICES ASSUME IndInv, [Next]_vars PROVE ReceiptClaims'
    OBVIOUS
<1>u. PairDown /\ pc # "launch" => PairDown'
    BY StaysDown
<1>0. ReceiptClaims /\ ProvenDown /\ ReceiptHeld
    BY DEF IndInv
<1>g. \A s, r : SharedFromGLM(s, r).owner = "GLM"
    BY DEF SharedFromGLM, Receipt
<1>1. CASE UNCHANGED shared
    BY <1>0, <1>1, <1>u DEF ReceiptClaims, ReceiptHeld, LaunchPcs
<1>2. CASE shared'.owner = "GLM"
    BY <1>2 DEF ReceiptClaims
<1>3. CASE pc # "launch" /\ PairDown
    BY <1>3, <1>u DEF ReceiptClaims
<1>4. CASE Claim \/ Disclaim \/ Announce \/ Publish \/ PublishRunning
    BY <1>1, <1>2, <1>4, <1>g DEF Claim, Disclaim, Announce, Publish,
       PublishRunning, Saves, SaveFails
<1>5. CASE Release
    BY <1>0, <1>3, <1>5 DEF Release, ProvenDown
<1>6. CASE CleanedUp
    BY <1>0, <1>1, <1>2, <1>3, <1>6, <1>g DEF CleanedUp, ProvenDown, Saves, SaveFails
<1>7. CASE DS41Reserve \/ DS41Release
  <2>1. shared.owner # "GLM" /\ op = "none"
    BY <1>7 DEF DS41Reserve, DS41Release, SharedStartAllowed
  <2>2. pc # "launch"
    BY <2>1 DEF IndInv, TypeOK
  <2>3. QED
    BY <1>0, <1>3, <2>1, <2>2 DEF ReceiptClaims
<1>8. QED
    BY <1>1, <1>4, <1>5, <1>6, <1>7 DEF Next, Controller, Environment,
       BeginStop, BeginStart, Crash, NoRecord, Inspect, Prove, Halt, StopFault,
       StopRecord, ArchivePoison, Admit, Refuse, Reserve, Enter, Launch,
       Confirm, RecordRank, WaitHealth, RecordReady, Bury, RankExit,
       ByHand, LateLaunch, Poison, DS41Run, Calm, vars, files

-----------------------------------------------------------------------------
(* IndInv holds initially: nothing runs, nothing is recorded.              *)
LEMMA InitInv == Init => IndInv
<1> SUFFICES ASSUME Init PROVE IndInv
    OBVIOUS
<1>1. /\ Record("absent", 0, NoUnits) \in Records
      /\ Record("absent", 0, NoUnits).state = "absent"
    BY NewRecord, MaxEpochAssumption DEF OwnerStates
<1>2. TypeOK
    BY <1>1, Built, OffReceipt DEF Init, TypeOK, StopPcs, StartPcs, LaunchPcs
<1>3. PairDown
    BY Built DEF Init, PairDown, Answerable
<1>4. KnownToOperation /\ ProvenDown
    BY <1>3 DEF Init, KnownToOperation, ProvenDown, LaunchPcs
<1>5. ReceiptHeld /\ DS41HoldsReceipt
    BY DEF Init, ReceiptHeld, DS41HoldsReceipt, LaunchPcs, UnitPcs
<1>6. QED
    BY <1>2, <1>3, <1>4, <1>5 DEF IndInv, ReceiptClaims, PairDown, AnswerableAreRecorded

(* A rank of ours that runs is one to answer for.                          *)
LEMMA OursAnswerable ==
    ASSUME NEW k \in Rank, Ours(k)
    PROVE  unit[k].epoch \in Answerable(k) /\ ~PairDown
BY DEF Ours, Answerable, PairDown

LEMMA SafetyOfInv ==
    IndInv => /\ RunningRanksAreRecorded /\ NeverFalselyOff /\ OneModelAtATime
<1> SUFFICES ASSUME IndInv
             PROVE  RunningRanksAreRecorded /\ NeverFalselyOff /\ OneModelAtATime
    OBVIOUS
<1>1. AnswerableAreRecorded /\ ReceiptClaims /\ DS41HoldsReceipt
    BY DEF IndInv
<1>2. RunningRanksAreRecorded
    BY <1>1, OursAnswerable DEF AnswerableAreRecorded, RunningRanksAreRecorded
<1>3. NeverFalselyOff
    BY <1>1, OursAnswerable DEF ReceiptClaims, NeverFalselyOff
<1>4. QED
    BY <1>1, <1>2, <1>3 DEF NeverFalselyOff, DS41HoldsReceipt, OneModelAtATime

LEMMA IndInvNext == IndInv /\ [Next]_vars => IndInv'
BY TypeStep, KnownStep, DownStep, ReceiptStep, RecordedStep, NotOffStep DEF IndInv

(* For any number of starts IndInv is inductive and holds in every         *)
(* reachable state, launches that outlive their report included.           *)
THEOREM Invariance == Spec => []IndInv
<1>1. QED
    BY IndInvNext, InitInv, PTL DEF Spec

(* Types, and a position that always fits the operation under way.         *)
THEOREM TypeCorrect == Spec => []TypeOK
<1>1. IndInv => TypeOK
    BY DEF IndInv
<1>2. QED
    BY <1>1, Invariance, PTL

(* Whatever was cut short, start, stop or crash: a rank of ours that runs  *)
(* is in pair-owner.json, in a state that lets stop find it.  Only a launch*)
(* that was in flight when the pair was proven down is not among ours.     *)
THEOREM Recorded == Spec => []RunningRanksAreRecorded
<1>1. QED
    BY SafetyOfInv, Invariance, PTL

(* The receipt never says OFF, or DS41, while a rank of ours runs.         *)
THEOREM NotFalselyOff == Spec => []NeverFalselyOff
<1>1. QED
    BY SafetyOfInv, Invariance, PTL

(* The other model does not run beside a rank of ours: DS41 runs under its *)
(* own receipt, and a rank of ours under ours.                             *)
THEOREM OneModel == Spec => []OneModelAtATime
<1>1. QED
    BY SafetyOfInv, Invariance, PTL

(* The poison marker is archived only when no rank of ours runs.           *)
THEOREM PoisonStays == Spec => PoisonOutlivesThePair
<1>1. IndInv /\ [Next]_vars =>
          [poison /\ ~poison' => \A k \in Rank : ~Ours(k)]_vars
  <2> SUFFICES ASSUME IndInv, [Next]_vars, poison, ~poison'
               PROVE  \A k \in Rank : ~Ours(k)
      OBVIOUS
  <2>1. CASE ArchivePoison
    <3>1. PairDown
        BY <2>1 DEF ArchivePoison, IndInv, ProvenDown
    <3>2. QED
        BY <3>1, OursAnswerable
  <2>2. QED
    BY <2>1 DEF Next, Controller, Environment, BeginStop, BeginStart, Crash,
       NoRecord, Claim, Inspect, Prove, Halt, StopFault, Disclaim, StopRecord,
       Release, Admit, Refuse, Reserve, Announce, Enter, Launch, Confirm,
       RecordRank, Publish, WaitHealth, RecordReady, PublishRunning, CleanedUp,
       Bury, RankExit, ByHand, LateLaunch, Poison, DS41Reserve, DS41Run,
       DS41Release, Calm, vars, files
<1>2. QED
    BY <1>1, Invariance, PTL DEF Spec, PoisonOutlivesThePair

-----------------------------------------------------------------------------
(* The old pair beside the controller *)

OldMoves == BeginJob \/ Migration \/ CrashOld \/ OldPair

(* Every step is one of the controller, which leaves the old pair alone, or*)
(* one about the old pair, which leaves the controller alone.              *)
LEMMA Either ==
    ASSUME [WholeNext]_allVars
    PROVE  \/ OldMoves /\ UNCHANGED vars
           \/ [Next]_vars /\ Alone
           \/ UNCHANGED vars /\ UNCHANGED oldVars
<1>1. CASE BeginJob
    BY <1>1 DEF OldMoves, BeginJob, Snapshot, BeginRestore, BeginOldStop
<1>2. CASE Migration
    BY <1>2 DEF OldMoves, Migration, Look, ReserveMarker, InspectOldUnits, StopFront,
       StopOldRank, ProveOld, ArchiveMarker, RecordOldStopped, ReserveOld, EnterOld,
       LaunchOld, ConfirmOld, Promote, Undone
<1>3. CASE CrashOld \/ OldPair
    BY <1>3 DEF OldMoves, CrashOld, OldPair, Ask, Answered, OldExit, OldByHand
<1>4. QED
    BY <1>1, <1>2, <1>3 DEF WholeNext, allVars

(* So the controller keeps its invariant beside the old pair.              *)
LEMMA IndInvStep == IndInv /\ [WholeNext]_allVars => IndInv'
<1>1. IndInv /\ UNCHANGED vars => IndInv'
    BY IndInvNext
<1>2. QED
    BY <1>1, IndInvNext, Either

-----------------------------------------------------------------------------
LEMMA Listing ==
    ASSUME NEW u, List(u), NEW n \in Old, NEW v \in Nat
    PROVE  /\ List(With(u, n, v)) /\ DOMAIN With(u, n, v) = DOMAIN u \cup {n}
           /\ With(u, n, v)[n] = v
           /\ \A m \in DOMAIN u \ {n} : With(u, n, v)[m] = u[m]
BY DEF List, With

LEMMA OldNames ==
    /\ "rank0" \in Old /\ "rank1" \in Old /\ "front" \in Old /\ OldRank \subseteq Old
    /\ NextOld \in Old /\ Entered \in Old
    /\ List(NoneListed) /\ DOMAIN NoneListed = {}
BY DEF Old, OldRank, NextOld, Entered, List, NoneListed

LEMMA ListingNext ==
    ASSUME List(us)
    PROVE  List(With(us, NextOld, 0)) /\ DOMAIN With(us, NextOld, 0) = DOMAIN us \cup {NextOld}
BY OldNames, Listing

LEMMA Noted ==
    ASSUME NEW u, List(u), NEW n \in DOMAIN u, NEW v \in Nat
    PROVE  /\ List([u EXCEPT ![n] = v]) /\ DOMAIN [u EXCEPT ![n] = v] = DOMAIN u
           /\ [u EXCEPT ![n] = v][n] = v
           /\ \A m \in DOMAIN u \ {n} : [u EXCEPT ![n] = v][m] = u[m]
BY DEF List

LEMMA OldFields ==
    ASSUME NEW s, NEW u, NEW p
    PROVE  /\ OldRecord(s, u, p).state = s /\ OldRecord(s, u, p).units = u
           /\ OldRecord(s, u, p).by = p
BY DEF OldRecord

OldStates == {"absent", "promoted", "starting", "stopped", "cleanup_uncertain"}

RecordOK == /\ oldOwner = OldRecord(oldOwner.state, oldOwner.units, oldOwner.by)
            /\ oldOwner.state \in OldStates
            /\ List(oldOwner.units) /\ oldOwner.by \in Nat

LEMMA NewOldRecord ==
    ASSUME RecordOK, NEW s \in OldStates, NEW u, List(u), NEW p \in Nat,
           oldOwner' \in {oldOwner, OldRecord(s, u, p)}
    PROVE  RecordOK'
BY OldFields DEF RecordOK

PositionOK ==
    \/ job = "none" /\ at = "idle"
    \/ job \in {"stop", "recover"}
          /\ at \in {"look", "reserve", "archive", "record"} \cup StoppingAt
    \/ job = "restore" /\ at \in RestoringAt \cup StoppingAt

LEMMA PositionStep == WholeInv /\ OldMoves => PositionOK'
<1> SUFFICES ASSUME PositionOK, OldMoves PROVE PositionOK'
    BY DEF WholeInv, OldInv, OldTypeOK, PositionOK
<1> USE DEF PositionOK, StoppingAt, RestoringAt, At, EndJob, OldFault, Undo, jobVars
<1>1. CASE BeginJob
    BY <1>1 DEF BeginJob, Snapshot, BeginRestore, BeginOldStop
<1>2. CASE Look \/ ReserveMarker \/ ArchiveMarker \/ RecordOldStopped
    BY <1>2 DEF Look, ReserveMarker, ArchiveMarker, RecordOldStopped
<1>3. CASE InspectOldUnits \/ StopFront
    BY <1>3 DEF InspectOldUnits, StopFront
<1>4. ASSUME NEW n \in OldRank, StopOldRank(n) PROVE PositionOK'
    BY <1>4 DEF StopOldRank
<1>5. CASE ProveOld \/ ReserveOld \/ EnterOld \/ LaunchOld
    BY <1>5 DEF ProveOld, ReserveOld, EnterOld, LaunchOld
<1>6. CASE ConfirmOld \/ Promote \/ Undone
    BY <1>6 DEF ConfirmOld, Promote, Undone
<1>7. CASE CrashOld \/ OldPair
    BY <1>7 DEF CrashOld, OldPair, Ask, Answered, OldExit, OldByHand
<1>8. QED
    BY <1>1, <1>2, <1>3, <1>4, <1>5, <1>6, <1>7 DEF OldMoves, Migration

(* The old units, marker and answers keep their types.                     *)
WorldOK == /\ old \in [Old -> Nat]
           /\ marker \in {"no", "busy", "maintenance"} /\ answering \in BOOLEAN
           /\ path \in Nat /\ rest \in SUBSET OldRank

LEMMA DownOK ==
    ASSUME WorldOK, NEW n \in Old, Down(n)
    PROVE  old' \in [Old -> Nat] /\ answering' \in BOOLEAN
<1>1. answering' \in BOOLEAN
    BY Zenon DEF Down, WorldOK
<1>2. QED
    BY <1>1 DEF Down, WorldOK

LEMMA WorldStep == WholeInv /\ OldMoves => WorldOK'
<1> SUFFICES ASSUME WorldOK, OldMoves PROVE WorldOK'
    BY DEF WholeInv, OldInv, OldTypeOK, WorldOK
<1> USE PathAssumption, OldNames DEF At, EndJob, OldFault, Undo, jobVars, oldWorld,
    oldFiles
<1>1. CASE BeginJob
    BY <1>1 DEF BeginJob, Snapshot, BeginRestore, BeginOldStop, WorldOK
<1>2. CASE Look \/ ReserveMarker \/ ArchiveMarker \/ RecordOldStopped
    BY <1>2 DEF Look, ReserveMarker, ArchiveMarker, RecordOldStopped, WorldOK
<1>3. CASE InspectOldUnits
  <2>1. UNCHANGED <<old, answering, marker>>
    BY <1>3 DEF InspectOldUnits
  <2>2. path' \in {path, 0}
    BY <1>3 DEF InspectOldUnits
  <2>3. rest' \in {rest, {}, OldRank \cap DOMAIN us}
    BY <1>3 DEF InspectOldUnits
  <2>4. QED
    BY <2>1, <2>2, <2>3 DEF WorldOK
<1>4. CASE StopFront
    BY <1>4, DownOK DEF StopFront, WorldOK
<1>5. ASSUME NEW n \in OldRank, StopOldRank(n) PROVE WorldOK'
    BY <1>5, DownOK DEF StopOldRank, WorldOK
<1>6. CASE ProveOld \/ ReserveOld \/ EnterOld
  <2>1. UNCHANGED <<old, answering, marker>>
    BY <1>6 DEF ProveOld, ReserveOld, EnterOld
  <2>2. path' \in {path, 0}
    BY <1>6 DEF ProveOld, ReserveOld, EnterOld
  <2>3. rest' \in {rest, {}}
    BY <1>6 DEF ProveOld, ReserveOld, EnterOld
  <2>4. QED
    BY <2>1, <2>2, <2>3 DEF WorldOK
<1>7. CASE LaunchOld
    BY <1>7 DEF LaunchOld, WorldOK
<1>8. CASE ConfirmOld \/ Promote \/ Undone \/ CrashOld
    BY <1>8 DEF ConfirmOld, Promote, Undone, CrashOld, WorldOK
<1>9. CASE Ask
  <2>1. answering' \in BOOLEAN
    BY <1>9, Zenon DEF Ask
  <2>2. QED
    BY <1>9, <2>1 DEF Ask, WorldOK
<1>10. CASE Answered
    BY <1>10 DEF Answered, WorldOK
<1>11. ASSUME NEW n \in Old, OldExit(n) PROVE WorldOK'
    BY <1>11, DownOK DEF OldExit, WorldOK
<1>12. ASSUME NEW n \in Old, OldByHand(n) PROVE WorldOK'
    BY <1>12 DEF OldByHand, Again, WorldOK
<1>13. QED
    BY <1>1, <1>2, <1>3, <1>4, <1>5, <1>6, <1>7, <1>8, <1>9, <1>10, <1>11, <1>12
       DEF OldMoves, Migration, OldPair

(* So do the record, the snapshots and the list of the operation.          *)
FilesOK ==
    /\ RecordOK /\ List(us)
    /\ DOMAIN snap \subseteq Path /\ \A p \in DOMAIN snap : snap[p] \in [Old -> Nat]

LEMMA SnapshotOK == FilesOK /\ Snapshot => FilesOK'
<1> SUFFICES ASSUME FilesOK, Snapshot PROVE FilesOK'
    OBVIOUS
<1>1. oldOwner.units \in [Old -> Nat]
    BY DEF Snapshot, FilesOK, RecordOK, List
<1>2. PICK p \in Path \ DOMAIN snap : snap' = With(snap, p, oldOwner.units)
    BY DEF Snapshot
<1>3. /\ DOMAIN snap' = DOMAIN snap \cup {p}
      /\ \A q \in DOMAIN snap' :
            snap'[q] = IF q = p THEN oldOwner.units ELSE snap[q]
    BY <1>2 DEF With
<1>4. UNCHANGED <<oldOwner, us>>
    BY DEF Snapshot, jobVars
<1>5. QED
    BY <1>1, <1>3, <1>4 DEF FilesOK, RecordOK

LEMMA FilesStep == WholeInv /\ OldMoves => FilesOK'
<1> SUFFICES ASSUME WholeInv, OldMoves PROVE FilesOK'
    OBVIOUS
<1>0. FilesOK /\ WorldOK
    BY DEF WholeInv, OldInv, OldTypeOK, FilesOK, RecordOK, WorldOK, OldStates
<1> USE <1>0, OldNames DEF At, EndJob, OldFault, Undo, jobVars, oldFiles, Saves,
    SaveOldFails
<1>1. CASE Snapshot
    BY <1>1, SnapshotOK
<1>2. CASE \/ \E p \in Path : BeginRestore(p) \/ \E w \in {"stop", "recover"} : BeginOldStop(w, p)
           \/ Look \/ ReserveMarker \/ InspectOldUnits \/ ArchiveMarker
           \/ \E n \in OldRank : StopOldRank(n)
  <2>1. UNCHANGED <<oldOwner, snap>>
    BY <1>2 DEF BeginRestore, BeginOldStop, Look, ReserveMarker, InspectOldUnits,
       ArchiveMarker, StopOldRank
  <2>2. us' = us \/ us' = NoneListed \/ \E p \in DOMAIN snap : us' = snap[p]
    BY <1>2 DEF BeginRestore, BeginOldStop, Look, ReserveMarker, InspectOldUnits,
       ArchiveMarker, StopOldRank
  <2>3. \A p \in DOMAIN snap : List(snap[p])
    BY DEF FilesOK, List
  <2>4. QED
    BY <2>1, <2>2, <2>3 DEF FilesOK, RecordOK
<1>3. CASE StopFront \/ ProveOld \/ LaunchOld \/ CrashOld \/ OldPair
    BY <1>3 DEF StopFront, ProveOld, LaunchOld, CrashOld, OldPair, Ask, Answered,
       OldExit,
       OldByHand, FilesOK, RecordOK
<1>4. CASE RecordOldStopped \/ ReserveOld
  <2>1. UNCHANGED snap /\ (us' = us \/ us' = NoneListed)
    BY <1>4 DEF RecordOldStopped, ReserveOld
  <2>2. RecordOK'
    <3>1. List(oldOwner.units)
        BY DEF FilesOK, RecordOK
    <3>2. QED
        BY <1>4, <3>1, NewOldRecord DEF RecordOldStopped, ReserveOld, FilesOK,
           OldStates, WorldOK
  <2>3. QED
    BY <2>1, <2>2 DEF FilesOK
<1>5. CASE EnterOld
  <2>0. us' = With(us, NextOld, 0) \/ us' = us
    BY <1>5 DEF EnterOld
  <2>1. UNCHANGED snap /\ List(us')
    <3>1. List(us)
        BY DEF FilesOK
    <3>2. UNCHANGED snap
        BY <1>5 DEF EnterOld
    <3>3. QED
        BY <2>0, <3>1, <3>2, ListingNext
  <2>2. RecordOK'
    BY <1>5, <2>1, NewOldRecord DEF EnterOld, FilesOK, OldStates, WorldOK
  <2>3. QED
    BY <2>1, <2>2 DEF FilesOK
<1>6. CASE ConfirmOld
  <2>1. Entered \in DOMAIN us
    BY <1>6 DEF ConfirmOld, WholeInv, OldInv, RestoreLists
  <2>2. UNCHANGED snap /\ List(us')
    BY <1>6, <2>1, Noted DEF ConfirmOld, FilesOK, WorldOK
  <2>3. RecordOK'
    BY <1>6, <2>2, NewOldRecord DEF ConfirmOld, FilesOK, OldStates, WorldOK
  <2>4. QED
    BY <2>2, <2>3 DEF FilesOK
<1>7. CASE Promote \/ Undone
  <2>1. UNCHANGED snap /\ (us' = us \/ us' = NoneListed)
    BY <1>7 DEF Promote, Undone
  <2>2. RecordOK'
    <3>1. List(us)
        BY DEF FilesOK
    <3>2. QED
        BY <1>7, <3>1, NewOldRecord DEF Promote, Undone, FilesOK, OldStates, WorldOK
  <2>3. QED
    BY <2>1, <2>2 DEF FilesOK
<1>8. QED
    BY <1>1, <1>2, <1>3, <1>4, <1>5, <1>6, <1>7 DEF OldMoves, BeginJob, Migration

LEMMA OldTypeStep == WholeInv /\ OldMoves => OldTypeOK'
BY PositionStep, WorldStep, FilesStep DEF PositionOK, WorldOK, FilesOK, RecordOK,
   OldTypeOK,
   OldStates

-----------------------------------------------------------------------------
(* A generation of the old pair has its marker and both ranks: what ends   *)
(* either ends the generation, and only Ask begins one.                    *)
LEMMA AnswersStep == WholeInv /\ OldMoves => AnswersAreMarked'
<1> SUFFICES ASSUME WholeInv, OldMoves PROVE AnswersAreMarked'
    OBVIOUS
<1>0. AnswersAreMarked /\ OldProvenDown /\ old \in [Old -> Nat]
    BY DEF WholeInv, OldInv, OldTypeOK
<1> USE <1>0, OldNames DEF AnswersAreMarked, OldActive, oldWorld, oldFiles, Down,
    OldRank
<1>1. CASE \/ BeginJob \/ Look \/ InspectOldUnits \/ ProveOld \/ RecordOldStopped
           \/ ReserveOld \/ EnterOld \/ ConfirmOld \/ Promote \/ Undone \/ CrashOld
    BY <1>1 DEF BeginJob, Snapshot, BeginRestore, BeginOldStop, Look, InspectOldUnits,
       ProveOld, RecordOldStopped, ReserveOld, EnterOld, ConfirmOld, Promote, Undone, CrashOld
<1>2. CASE ReserveMarker
    BY <1>2 DEF ReserveMarker
<1>3. CASE ArchiveMarker
    BY <1>3 DEF ArchiveMarker, OldProvenDown, OldDown
<1>4. CASE StopFront
    BY <1>4 DEF StopFront, Old
<1>5. ASSUME NEW n \in OldRank, StopOldRank(n) PROVE AnswersAreMarked'
    BY <1>5 DEF StopOldRank
<1>6. CASE LaunchOld
    BY <1>6, PathAssumption DEF LaunchOld, WholeInv, OldInv, OldTypeOK
<1>7. CASE Ask \/ Answered
    BY <1>7 DEF Ask, Answered
<1>8. ASSUME NEW n \in Old, OldExit(n) \/ OldByHand(n) PROVE AnswersAreMarked'
    BY <1>8 DEF OldExit, OldByHand
<1>9. QED
    BY <1>1, <1>2, <1>3, <1>4, <1>5, <1>6, <1>7, <1>8 DEF OldMoves, Migration, OldPair

(* Behind its own marker a stop meets no generation: it creates the marker *)
(* exclusively, when nothing is answered, and only archives it behind the  *)
(* proof that the pair is down.                                            *)
LEMMA BehindStep == WholeInv /\ OldMoves => StopsBehindMarker'
<1> SUFFICES ASSUME WholeInv, OldMoves PROVE StopsBehindMarker'
    OBVIOUS
<1>0. /\ StopsBehindMarker /\ AnswersAreMarked /\ OldProvenDown
      /\ answering \in BOOLEAN
      /\ job = "stop" => at \in {"look", "reserve", "archive", "record"} \cup StoppingAt
      /\ job = "none" <=> at = "idle"
    BY DEF WholeInv, OldInv, OldTypeOK, StoppingAt, RestoringAt
<1> USE <1>0, OldNames DEF StopsBehindMarker, oldWorld, oldFiles, jobVars, At, EndJob,
    OldFault,
    Undo, StoppingAt
<1>1. CASE BeginJob
    BY <1>1 DEF BeginJob, Snapshot, BeginRestore, BeginOldStop
<1>2. CASE Look \/ InspectOldUnits \/ ProveOld
    BY <1>2 DEF Look, InspectOldUnits, ProveOld
<1>3. CASE ReserveMarker
    BY <1>3 DEF ReserveMarker, AnswersAreMarked
<1>4. CASE ArchiveMarker
    BY <1>4 DEF ArchiveMarker
<1>5. CASE RecordOldStopped \/ ReserveOld \/ EnterOld \/ ConfirmOld \/ Promote \/ Undone \/ CrashOld
    BY <1>5 DEF RecordOldStopped, ReserveOld, EnterOld, ConfirmOld, Promote, Undone,
       CrashOld
<1>6. CASE StopFront
    BY <1>6 DEF StopFront, Down
<1>7. ASSUME NEW n \in OldRank, StopOldRank(n) PROVE StopsBehindMarker'
    BY <1>7 DEF StopOldRank, Down
<1>8. CASE LaunchOld
    BY <1>8 DEF LaunchOld, WholeInv, OldInv, OldTypeOK
<1>9. CASE Ask
    BY <1>9 DEF Ask, OldProvenDown, OldDown
<1>10. CASE Answered
    BY <1>10 DEF Answered
<1>11. ASSUME NEW n \in Old, OldExit(n) \/ OldByHand(n) PROVE StopsBehindMarker'
    BY <1>11 DEF OldExit, OldByHand, Down
<1>12. QED
    BY <1>1, <1>2, <1>3, <1>4, <1>5, <1>6, <1>7, <1>8, <1>9, <1>10, <1>11
       DEF OldMoves, Migration, OldPair

LEMMA WholeListStep == WholeInv /\ OldMoves => ListIsWhole'
<1> SUFFICES ASSUME WholeInv, OldMoves PROVE ListIsWhole'
    OBVIOUS
<1>0. /\ ListIsWhole /\ PositionOK
      /\ \A p \in DOMAIN snap : DOMAIN snap[p] = Old
    BY DEF WholeInv, OldInv, OldTypeOK, PositionOK
<1> USE <1>0 DEF ListIsWhole, PositionOK, jobVars, At, EndJob, OldFault, Undo,
    StoppingAt, RestoringAt
<1>1. CASE BeginJob
    BY <1>1 DEF BeginJob, Snapshot, BeginRestore, BeginOldStop
<1>2. CASE Look \/ ReserveMarker \/ InspectOldUnits \/ StopFront \/ ProveOld \/ ArchiveMarker
    BY <1>2 DEF Look, ReserveMarker, InspectOldUnits, StopFront, ProveOld, ArchiveMarker
<1>3. ASSUME NEW n \in OldRank, StopOldRank(n) PROVE ListIsWhole'
    BY <1>3 DEF StopOldRank
<1>4. CASE \/ RecordOldStopped \/ ReserveOld \/ EnterOld \/ LaunchOld \/ ConfirmOld \/ Promote
           \/ Undone \/ CrashOld
    BY <1>4 DEF RecordOldStopped, ReserveOld, EnterOld, LaunchOld, ConfirmOld,
       Promote, Undone, CrashOld
<1>5. CASE OldPair
    BY <1>5 DEF OldPair, Ask, Answered, OldExit, OldByHand
<1>6. QED
    BY <1>1, <1>2, <1>3, <1>4, <1>5 DEF OldMoves, Migration

(* What entering, and what confirming a unit does to what is covered.      *)
LEMMA EnterCovers ==
    ASSUME List(us), NEW n \in Old, Covered(n), UNCHANGED old,
           us' = us \/ us' = With(us, NextOld, 0)
    PROVE  Covered(n)'
BY OldNames DEF Covered, With

LEMMA EnterOrder ==
    ASSUME List(us), InOrder, "front" \notin DOMAIN us, us' = With(us, NextOld, 0)
    PROVE  InOrder' /\ Entered' \in DOMAIN us' /\ us'[Entered'] = 0
<1>1. /\ DOMAIN us' = DOMAIN us \cup {NextOld}
      /\ us'[NextOld] = 0
    BY OldNames DEF With
<1>2. CASE "rank1" \notin DOMAIN us
  <2>1. NextOld = "rank1" /\ DOMAIN us' = DOMAIN us \cup {"rank1"}
    BY <1>1, <1>2 DEF NextOld
  <2>2. QED
    BY <1>1, <1>2, <2>1 DEF Entered, InOrder
<1>3. CASE "rank1" \in DOMAIN us /\ "rank0" \notin DOMAIN us
  <2>1. NextOld = "rank0" /\ DOMAIN us' = DOMAIN us \cup {"rank0"}
    BY <1>1, <1>3 DEF NextOld
  <2>2. QED
    BY <1>1, <1>3, <2>1 DEF Entered, InOrder
<1>4. CASE "rank1" \in DOMAIN us /\ "rank0" \in DOMAIN us
  <2>1. NextOld = "front" /\ DOMAIN us' = DOMAIN us \cup {"front"}
    BY <1>1, <1>4 DEF NextOld
  <2>2. QED
    BY <1>1, <1>4, <2>1 DEF Entered, InOrder
<1>5. QED
    BY <1>2, <1>3, <1>4

LEMMA RecordedEnter ==
    ASSUME RestoredAreRecorded, RestoreCovers, List(us), UNCHANGED old, at = "enter",
           job = "restore",
           oldOwner' \in {oldOwner, OldRecord("starting", With(us, NextOld, 0), path)}
    PROVE  RestoredAreRecorded'
<1>1. CASE oldOwner' = oldOwner
    BY <1>1 DEF RestoredAreRecorded
<1>2. CASE oldOwner' = OldRecord("starting", With(us, NextOld, 0), path)
  <2>1. oldOwner'.state = "starting" /\ oldOwner'.units = With(us, NextOld, 0)
    BY <1>2, OldFields
  <2>2. \A n \in Old : old[n] # 0 => Covered(n)
    BY DEF RestoreCovers, OldActive
  <2>3. \A n \in Old : old[n] \notin {0, Again} =>
            n \in DOMAIN With(us, NextOld, 0) /\ With(us, NextOld, 0)[n] \in {0, old[n]}
    BY <2>2 DEF Covered, With
  <2>4. QED
    BY <2>1, <2>3 DEF RestoredAreRecorded
<1>3. QED
    BY <1>1, <1>2

LEMMA RecordedConfirm ==
    ASSUME RestoredAreRecorded, RestoreCovers, List(us), UNCHANGED old, at = "confirm",
           job = "restore", Entered \in DOMAIN us,
           oldOwner' = oldOwner \/
              oldOwner' = OldRecord("starting", [us EXCEPT ![Entered] = old[Entered]], path)
    PROVE  RestoredAreRecorded'
<1>1. CASE oldOwner' = oldOwner
    BY <1>1 DEF RestoredAreRecorded
<1>2. CASE oldOwner' = OldRecord("starting", [us EXCEPT ![Entered] = old[Entered]], path)
  <2>1. /\ oldOwner'.state = "starting"
        /\ oldOwner'.units = [us EXCEPT ![Entered] = old[Entered]]
    BY <1>2, OldFields
  <2>2. \A n \in Old : old[n] # 0 => Covered(n)
    BY DEF RestoreCovers, OldActive
  <2>3. \A n \in Old : old[n] \notin {0, Again} =>
            n \in DOMAIN oldOwner'.units /\ oldOwner'.units[n] \in {0, old[n]}
    BY <2>1, <2>2 DEF Covered
  <2>4. QED
    BY <2>1, <2>3 DEF RestoredAreRecorded
<1>3. QED
    BY <1>1, <1>2

(* The list of a restore covers what runs: nothing of the old pair runs    *)
(* when it begins, and it enters a unit before it launches it.             *)
LEMMA CoversStep == WholeInv /\ OldMoves => RestoreCovers'
<1> SUFFICES ASSUME WholeInv, OldMoves PROVE RestoreCovers'
    OBVIOUS
<1>0. /\ RestoreCovers /\ OldProvenDown /\ RestoreLists /\ PositionOK
      /\ old \in [Old -> Nat] /\ path \in Nat /\ List(us)
    BY DEF WholeInv, OldInv, OldTypeOK, PositionOK
<1> USE <1>0, OldNames DEF RestoreCovers, Covered, OldActive, oldWorld, oldFiles,
    jobVars, At,
    EndJob, OldFault, Undo, PositionOK, StoppingAt, RestoringAt
<1>1. CASE BeginJob
    BY <1>1 DEF BeginJob, Snapshot, BeginRestore, BeginOldStop
<1>2. CASE Look \/ ReserveMarker \/ ArchiveMarker \/ RecordOldStopped \/ CrashOld
    BY <1>2 DEF Look, ReserveMarker, ArchiveMarker, RecordOldStopped, CrashOld
<1>3. CASE InspectOldUnits
    BY <1>3 DEF InspectOldUnits
<1>4. CASE StopFront
    BY <1>4 DEF StopFront, Down
<1>5. ASSUME NEW n \in OldRank, StopOldRank(n) PROVE RestoreCovers'
    BY <1>5 DEF StopOldRank, Down
<1>6. CASE ProveOld \/ Promote \/ Undone
    BY <1>6 DEF ProveOld, Promote, Undone
<1>7. CASE ReserveOld
    BY <1>7 DEF ReserveOld, OldProvenDown, OldDown
<1>8. CASE EnterOld
  <2>1. UNCHANGED <<old, job>> /\ (us' = us \/ us' = With(us, NextOld, 0))
    BY <1>8 DEF EnterOld
  <2>2. SUFFICES ASSUME job = "restore", NEW n \in Old, OldActive(n) PROVE Covered(n)'
    BY <2>1
  <2>3. Covered(n) /\ at = "enter"
    BY <2>2, <1>8 DEF EnterOld
  <2>4. QED
    BY <2>1, <2>3, EnterCovers
<1>9. CASE LaunchOld
    BY <1>9 DEF LaunchOld, RestoreLists
<1>10. CASE ConfirmOld
  <2>1. Entered \in DOMAIN us
    BY <1>10 DEF ConfirmOld, RestoreLists
  <2>2. QED
    BY <1>10, <2>1, Noted DEF ConfirmOld
<1>11. CASE Ask \/ Answered
    BY <1>11 DEF Ask, Answered
<1>12. ASSUME NEW n \in Old, OldExit(n) PROVE RestoreCovers'
    BY <1>12 DEF OldExit, Down
<1>13. ASSUME NEW n \in Old, OldByHand(n) PROVE RestoreCovers'
    BY <1>13 DEF OldByHand, Again
<1>14. QED
    BY <1>1, <1>2, <1>3, <1>4, <1>5, <1>6, <1>7, <1>8, <1>9, <1>10, <1>11, <1>12, <1>13
       DEF OldMoves, Migration, OldPair

(* The order of entry: rank 1, rank 0, the front end.                      *)
LEMMA ListsStep == WholeInv /\ OldMoves => RestoreLists'
<1> SUFFICES ASSUME WholeInv, OldMoves PROVE RestoreLists'
    OBVIOUS
<1>0. RestoreLists /\ PositionOK /\ List(us) /\ old \in [Old -> Nat]
    BY DEF WholeInv, OldInv, OldTypeOK, PositionOK
<1> USE <1>0, OldNames DEF oldWorld, oldFiles, jobVars, At, EndJob, OldFault, Undo,
    PositionOK
<1>1. CASE BeginJob
    BY <1>1 DEF BeginJob, Snapshot, BeginRestore, BeginOldStop, RestoreLists, Entered,
       InOrder
<1>2. CASE \/ Look \/ ReserveMarker \/ InspectOldUnits \/ StopFront \/ ProveOld \/ ArchiveMarker
           \/ RecordOldStopped \/ Promote \/ Undone \/ CrashOld
           \/ \E n \in OldRank : StopOldRank(n)
  <2>1. \/ at' \in {"reserve", "inspect", "front", "again", "halt", "halt failed", "fault",
                     "archive", "record", "proven"}
        \/ at' = "idle" /\ us' = NoneListed
    BY <1>2 DEF Look, ReserveMarker, InspectOldUnits, StopFront, ProveOld,
       ArchiveMarker,
       RecordOldStopped, Promote, Undone, CrashOld, StopOldRank
  <2>2. QED
    BY <2>1 DEF RestoreLists
<1>3. CASE ReserveOld
    BY <1>3 DEF ReserveOld, RestoreLists, InOrder
<1>4. CASE EnterOld
  <2>1. at' \in {"inspect", "launch"}
    BY <1>4 DEF EnterOld
  <2>2. ASSUME at' = "launch"
        PROVE  /\ us' = With(us, NextOld, 0) /\ at = "enter"
               /\ oldOwner' = OldRecord("starting", us', path)
    BY <1>4, <2>2 DEF EnterOld, Saves
  <2>3. ASSUME at' = "launch"
        PROVE  InOrder' /\ Entered' \in DOMAIN us' /\ us'[Entered'] = 0
    <3>1. InOrder /\ "front" \notin DOMAIN us
        BY <2>3, <2>2 DEF RestoreLists
    <3>2. QED
        BY <2>3, <2>2, <3>1, EnterOrder
  <2>4. QED
    BY <2>1, <2>2, <2>3, OldFields DEF RestoreLists
<1>5. CASE LaunchOld
    BY <1>5 DEF LaunchOld, RestoreLists, Entered, InOrder
<1>6. CASE ConfirmOld
  <2>1. Entered \in DOMAIN us /\ InOrder
    BY <1>6 DEF ConfirmOld, RestoreLists
  <2>2. /\ at' \in {"inspect", "enter", "serve"}
        /\ at' = "enter" => DOMAIN us' = DOMAIN us /\ Entered # "front"
    BY <1>6, <2>1, Noted DEF ConfirmOld
  <2>3. Entered # "front" => "front" \notin DOMAIN us
    BY DEF Entered
  <2>4. InOrder /\ DOMAIN us' = DOMAIN us => InOrder'
    BY DEF InOrder
  <2>5. QED
    BY <2>1, <2>2, <2>3, <2>4 DEF RestoreLists
<1>7. CASE OldPair
  <2>1. UNCHANGED <<at, us, oldOwner>>
    BY <1>7 DEF OldPair, Ask, Answered, OldExit, OldByHand
  <2>2. QED
    BY <2>1 DEF RestoreLists, InOrder, Entered
<1>8. QED
    BY <1>1, <1>2, <1>3, <1>4, <1>5, <1>6, <1>7 DEF OldMoves, Migration

(* Where the old pair was seen down it stays down: only LaunchOld starts   *)
(* it, and a unit is only started again by hand while it runs.             *)
LEMMA ProvenStep == WholeInv /\ OldMoves => OldProvenDown'
<1> SUFFICES ASSUME WholeInv, OldMoves PROVE OldProvenDown'
    OBVIOUS
<1>0. OldProvenDown /\ PositionOK /\ RestoreCovers /\ ListIsWhole /\ old \in [Old -> Nat]
    BY DEF WholeInv, OldInv, OldTypeOK, PositionOK
<1> USE <1>0, OldNames DEF OldProvenDown, OldDown, OldActive, oldWorld, oldFiles,
    jobVars, At,
    EndJob, OldFault, Undo, PositionOK, StoppingAt, RestoringAt
<1>1. CASE BeginJob
    BY <1>1 DEF BeginJob, Snapshot, BeginRestore, BeginOldStop
<1>2. CASE Look \/ ReserveMarker \/ InspectOldUnits \/ ArchiveMarker \/ RecordOldStopped
    BY <1>2 DEF Look, ReserveMarker, InspectOldUnits, ArchiveMarker, RecordOldStopped
<1>3. CASE ReserveOld \/ EnterOld \/ LaunchOld \/ ConfirmOld \/ Promote \/ Undone \/ CrashOld
    BY <1>3 DEF ReserveOld, EnterOld, LaunchOld, ConfirmOld, Promote, Undone, CrashOld
<1>4. CASE StopFront
    BY <1>4 DEF StopFront
<1>5. ASSUME NEW n \in OldRank, StopOldRank(n) PROVE OldProvenDown'
    BY <1>5 DEF StopOldRank
<1>6. CASE ProveOld
    BY <1>6 DEF ProveOld, RestoreCovers, Covered, ListIsWhole
<1>7. CASE Ask \/ Answered
    BY <1>7 DEF Ask, Answered
<1>8. ASSUME NEW n \in Old, OldExit(n) PROVE OldProvenDown'
    BY <1>8 DEF OldExit, Down
<1>9. ASSUME NEW n \in Old, OldByHand(n) PROVE OldProvenDown'
    BY <1>9 DEF OldByHand
<1>10. QED
    BY <1>1, <1>2, <1>3, <1>4, <1>5, <1>6, <1>7, <1>8, <1>9 DEF OldMoves, Migration,
       OldPair

(* So what a restore launched is in the record as long as it runs.         *)
LEMMA RestoredStep == WholeInv /\ OldMoves => RestoredAreRecorded'
<1> SUFFICES ASSUME WholeInv, OldMoves PROVE RestoredAreRecorded'
    OBVIOUS
<1>0. /\ RestoredAreRecorded /\ OldProvenDown /\ PositionOK /\ RestoreCovers /\ RestoreLists
      /\ old \in [Old -> Nat] /\ path \in Nat /\ List(us)
    BY DEF WholeInv, OldInv, OldTypeOK, PositionOK
<1> USE <1>0, OldNames DEF RestoredAreRecorded, oldWorld, oldFiles, jobVars, At, EndJob,
    OldFault, Undo, Again
<1>1. CASE \/ BeginJob \/ Look \/ ReserveMarker \/ InspectOldUnits \/ ProveOld \/ ArchiveMarker
           \/ CrashOld \/ Ask \/ Answered
  <2>1. UNCHANGED <<old, oldOwner>>
    BY <1>1 DEF BeginJob, Snapshot, BeginRestore, BeginOldStop, Look, ReserveMarker,
       InspectOldUnits, ProveOld, ArchiveMarker, CrashOld, Ask, Answered
  <2>2. QED
    BY <2>1
<1>2. CASE StopFront
    BY <1>2 DEF StopFront, Down
<1>3. ASSUME NEW n \in OldRank, StopOldRank(n) PROVE RestoredAreRecorded'
    BY <1>3 DEF StopOldRank, Down
<1>4. CASE RecordOldStopped \/ ReserveOld
  <2>1. OldDown /\ UNCHANGED old
    BY <1>4 DEF RecordOldStopped, ReserveOld, OldProvenDown
  <2>2. QED
    BY <2>1 DEF OldDown, OldActive
<1>5. CASE EnterOld
  <2>1. /\ UNCHANGED old /\ at = "enter" /\ job = "restore"
        /\ oldOwner' \in {oldOwner, OldRecord("starting", With(us, NextOld, 0), path)}
    BY <1>5 DEF EnterOld, Saves, SaveOldFails, PositionOK, StoppingAt
  <2>2. QED
    BY <2>1, RecordedEnter
<1>6. CASE LaunchOld
    BY <1>6 DEF LaunchOld, RestoreLists
<1>7. CASE ConfirmOld
  <2>1. Entered \in DOMAIN us /\ job = "restore" /\ at = "confirm" /\ UNCHANGED old
    BY <1>7 DEF ConfirmOld, RestoreLists, PositionOK, StoppingAt
  <2>2. oldOwner' = oldOwner \/
           oldOwner' = OldRecord("starting", [us EXCEPT ![Entered] = old[Entered]], path)
    BY <1>7 DEF ConfirmOld, Saves, SaveOldFails
  <2>3. QED
    BY <2>1, <2>2, RecordedConfirm
<1>8. CASE Promote \/ Undone
  <2>1. \/ oldOwner' = oldOwner
        \/ \E s \in {"promoted", "cleanup_uncertain"} : oldOwner' = OldRecord(s, us, path)
        \/ OldDown
    BY <1>8 DEF Promote, Undone, Saves, SaveOldFails, OldProvenDown
  <2>2. UNCHANGED old /\ job = "restore" /\ at # "reread"
    BY <1>8 DEF Promote, Undone, PositionOK, StoppingAt
  <2>3. QED
    BY <2>1, <2>2, OldFields DEF RestoreCovers, Covered, OldDown, OldActive
<1>9. ASSUME NEW n \in Old, OldExit(n) PROVE RestoredAreRecorded'
    BY <1>9 DEF OldExit, Down
<1>10. ASSUME NEW n \in Old, OldByHand(n) PROVE RestoredAreRecorded'
    BY <1>10 DEF OldByHand
<1>11. QED
    BY <1>1, <1>2, <1>3, <1>4, <1>5, <1>6, <1>7, <1>8, <1>9, <1>10
       DEF OldMoves, Migration, OldPair

-----------------------------------------------------------------------------
(* Who may start what.                                                     *)

(* Only Admit leads a start away from admission.                           *)
LEMMA Admitted ==
    ASSUME TypeOK, [Next]_vars, op' = "start", pc' # "admit"
    PROVE  \/ op = "start" /\ pc # "admit"
           \/ pc = "admit" /\ pc' = "reserve"
<1>0. /\ op = "none" <=> pc = "idle"
      /\ pc \in {"claim", "disclaim", "release", "archive"} => op # "start"
      /\ pc \in StartPcs => op = "start"
    BY DEF TypeOK, StopPcs
<1> USE <1>0 DEF Go, End, CleanUp, local, StartPcs, LaunchPcs
<1>1. CASE BeginStop \/ BeginStart \/ Crash
    BY <1>1 DEF BeginStop, BeginStart, Crash
<1>2. CASE NoRecord \/ Claim \/ Inspect \/ Prove
    BY <1>2 DEF NoRecord, Claim, Inspect, Prove
<1>10. ASSUME NEW k \in Rank, Halt(k) PROVE op = "start" /\ pc # "admit"
    BY <1>10 DEF Halt
<1>3. CASE StopFault \/ Disclaim \/ StopRecord \/ Release \/ ArchivePoison
    BY <1>3 DEF StopFault, Disclaim, StopRecord, Release, ArchivePoison, Stopping
<1>4. CASE Admit \/ Refuse \/ Reserve \/ Announce
    BY <1>4 DEF Admit, Refuse, Reserve, Announce
<1>5. CASE \/ Enter \/ Launch \/ Confirm \/ RecordRank \/ Publish \/ WaitHealth
           \/ RecordReady \/ PublishRunning
    BY <1>5 DEF Enter, Launch, Confirm, RecordRank, Publish, WaitHealth, RecordReady,
       PublishRunning
<1>6. CASE CleanedUp \/ Bury
    BY <1>6 DEF CleanedUp, Bury
<1>7. CASE Environment
  <2>1. UNCHANGED <<op, pc>>
    BY <1>7 DEF Environment, RankExit, ByHand, LateLaunch, Poison, DS41Reserve, DS41Run,
       DS41Release, Calm
  <2>2. QED
    BY <2>1
<1>8. CASE UNCHANGED vars
    BY <1>8 DEF vars
<1>9. QED
    BY <1>1, <1>2, <1>3, <1>4, <1>5, <1>6, <1>7, <1>8, <1>10 DEF Next, Controller

(* A unit of the old pair starts to run only when a restore launches it.   *)
LEMMA Revived ==
    ASSUME WholeInv, OldMoves, OldDown, ~OldDown'
    PROVE  job = "restore"
<1>0. PositionOK /\ old \in [Old -> Nat]
    BY DEF WholeInv, OldInv, OldTypeOK, PositionOK
<1> USE <1>0, OldNames DEF OldDown, OldActive, oldWorld, oldFiles
<1>1. CASE \/ BeginJob \/ Look \/ ReserveMarker \/ InspectOldUnits \/ ProveOld \/ ArchiveMarker
           \/ RecordOldStopped \/ ReserveOld \/ EnterOld \/ ConfirmOld \/ Promote \/ Undone
           \/ CrashOld \/ Ask \/ Answered
    BY <1>1 DEF BeginJob, Snapshot, BeginRestore, BeginOldStop, Look, ReserveMarker,
       InspectOldUnits, ProveOld, ArchiveMarker, RecordOldStopped, ReserveOld, EnterOld,
       ConfirmOld, Promote, Undone, CrashOld, Ask, Answered
<1>2. CASE StopFront
    BY <1>2 DEF StopFront, Down
<1>3. ASSUME NEW n \in OldRank, StopOldRank(n) PROVE job = "restore"
    BY <1>3 DEF StopOldRank, Down
<1>4. CASE LaunchOld
    BY <1>4 DEF LaunchOld, PositionOK, StoppingAt
<1>5. ASSUME NEW n \in Old, OldExit(n) \/ OldByHand(n) PROVE job = "restore"
    BY <1>5 DEF OldExit, OldByHand, Down
<1>6. QED
    BY <1>1, <1>2, <1>3, <1>4, <1>5 DEF OldMoves, Migration, OldPair

(* What an operation on the old pair leaves of the controller.             *)
LEMMA OldJobs ==
    ASSUME WholeInv, OldMoves
    PROVE  /\ job' # "none" => job = job' \/ (job = "none" /\ op = "none")
           /\ job' = "restore" => job = "restore" \/ NewPairStopped
<1>1. CASE BeginJob
    BY <1>1 DEF BeginJob, Snapshot, BeginRestore, BeginOldStop, jobVars
<1>2. CASE Migration
  <2>1. CASE \/ Look \/ ReserveMarker \/ InspectOldUnits \/ StopFront \/ ProveOld \/ ArchiveMarker
             \/ RecordOldStopped
    BY <2>1 DEF Look, ReserveMarker, InspectOldUnits, StopFront, ProveOld,
       ArchiveMarker,
       RecordOldStopped, At, EndJob, OldFault
  <2>2. ASSUME NEW n \in OldRank, StopOldRank(n) PROVE job' = job
    BY <2>2 DEF StopOldRank, At
  <2>3. CASE ReserveOld \/ EnterOld \/ LaunchOld \/ ConfirmOld \/ Promote \/ Undone
    BY <2>3 DEF ReserveOld, EnterOld, LaunchOld, ConfirmOld, Promote, Undone, At,
       EndJob, Undo
  <2>4. QED
    BY <1>2, <2>1, <2>2, <2>3 DEF Migration
<1>3. CASE CrashOld
    BY <1>3 DEF CrashOld, EndJob
<1>4. CASE OldPair
    BY <1>4 DEF OldPair, Ask, Answered, OldExit, OldByHand, jobVars
<1>5. QED
    BY <1>1, <1>2, <1>3, <1>4 DEF OldMoves

Turns == OneHolder /\ StartedAlone /\ RestoredAlone /\ Apart

(* A pair that its record calls absent or stopped is down.                 *)
LEMMA StoppedIsDown == IndInv /\ NewPairStopped => PairDown
BY DEF IndInv, AnswerableAreRecorded, NewPairStopped, PairDown

(* An operation on the old pair keeps the turns.                           *)
LEMMA OldTurns == WholeInv /\ OldMoves /\ UNCHANGED vars => Turns'
<1> SUFFICES ASSUME WholeInv, OldMoves, UNCHANGED vars PROVE Turns'
    OBVIOUS
<1>0. Turns /\ UNCHANGED <<op, pc>> /\ (PairDown' <=> PairDown)
    BY DEF WholeInv, OldInv, Turns, vars, PairDown, Answerable
<1>1. OneHolder'
    BY <1>0, OldJobs DEF Turns, OneHolder
<1>2. StartedAlone'
    BY <1>0, Revived DEF Turns, OneHolder, StartedAlone
<1>3. RestoredAlone'
    BY <1>0, StoppedIsDown, OldJobs DEF WholeInv, Turns, RestoredAlone
<1>4. Apart'
    BY <1>0, Revived DEF Turns, Apart, RestoredAlone
<1>5. QED
    BY <1>1, <1>2, <1>3, <1>4 DEF Turns

(* An operation of the controller keeps the turns.                         *)
LEMMA NewTurns == WholeInv /\ [Next]_vars /\ Alone => Turns'
<1> SUFFICES ASSUME WholeInv, [Next]_vars, Alone PROVE Turns'
    OBVIOUS
<1>0. Turns /\ IndInv /\ TypeOK /\ UNCHANGED <<old, job>> /\ (OldDown' <=> OldDown)
    BY DEF WholeInv, OldInv, IndInv, Turns, Alone, oldVars, oldWorld, jobVars,
       OldDown, OldActive
<1>1. OneHolder'
    BY <1>0 DEF Alone, Turns, OneHolder
<1>2. StartedAlone'
    BY <1>0, Admitted DEF Alone, OldAsked, Turns, StartedAlone
<1>3. RestoredAlone'
  <2>1. job = "restore" => pc # "launch"
    BY <1>0 DEF Turns, OneHolder, TypeOK
  <2>2. QED
    BY <1>0, <2>1, StaysDown DEF Turns, RestoredAlone
<1>4. Apart'
  <2>1. pc = "launch" => OldDown
    BY <1>0 DEF Turns, StartedAlone, TypeOK, StartPcs, LaunchPcs
  <2>2. QED
    BY <1>0, <2>1, StaysDown DEF Turns, Apart
<1>5. QED
    BY <1>1, <1>2, <1>3, <1>4 DEF Turns

(* What is only about the old pair stays when that is left alone.          *)
LEMMA OldLeftAlone ==
    ASSUME WholeInv, UNCHANGED oldVars
    PROVE  /\ OldTypeOK' /\ AnswersAreMarked' /\ StopsBehindMarker' /\ ListIsWhole'
           /\ OldProvenDown' /\ RestoreCovers' /\ RestoreLists' /\ StopDrains'
           /\ RestoredAreRecorded'
<1> USE DEF WholeInv, OldInv, oldVars, oldFiles, oldWorld, jobVars, OldActive, OldDown
<1>1. OldTypeOK'
    BY DEF OldTypeOK, List
<1>2. AnswersAreMarked' /\ StopsBehindMarker' /\ ListIsWhole' /\ OldProvenDown'
    BY DEF AnswersAreMarked, StopsBehindMarker, ListIsWhole, OldProvenDown
<1>3. RestoreCovers' /\ RestoreLists'
    BY DEF RestoreCovers, Covered, RestoreLists, InOrder, Entered
<1>4. StopDrains' /\ RestoredAreRecorded'
    BY DEF StopDrains, RestoredAreRecorded
<1>5. QED
    BY <1>1, <1>2, <1>3, <1>4

LEMMA OldInvStep == WholeInv /\ [WholeNext]_allVars => OldInv'
<1> SUFFICES ASSUME WholeInv, [WholeNext]_allVars PROVE OldInv'
    OBVIOUS
<1>1. CASE OldMoves /\ UNCHANGED vars
  <2>1. StopDrains'
    BY <1>1, BehindStep DEF StopsBehindMarker, StopDrains
  <2>2. QED
    BY <1>1, <2>1, OldTypeStep, OldTurns, AnswersStep, BehindStep, WholeListStep,
       ProvenStep,
       CoversStep, ListsStep, RestoredStep DEF OldInv, Turns
<1>2. CASE [Next]_vars /\ Alone
    BY <1>2, NewTurns, OldLeftAlone DEF OldInv, Turns, Alone
<1>3. CASE UNCHANGED vars /\ UNCHANGED oldVars
  <2>1. Turns'
    BY <1>3 DEF WholeInv, OldInv, Turns, OneHolder, StartedAlone, RestoredAlone,
       Apart, PairDown, Answerable, vars, oldVars, oldWorld, jobVars, OldDown, OldActive
  <2>2. QED
    BY <1>3, <2>1, OldLeftAlone DEF OldInv, Turns
<1>4. QED
    BY <1>1, <1>2, <1>3, Either

LEMMA WholeInitInv == WholeInit => WholeInv
<1> SUFFICES ASSUME WholeInit PROVE WholeInv
    OBVIOUS
<1>1. IndInv /\ OldInit /\ op = "none" /\ PairDown
    BY InitInv, Built DEF WholeInit, Init, PairDown, Answerable
<1>2. /\ old \in [Old -> Nat] /\ List(old) /\ \A n \in Old : old[n] \in {0, 1}
      /\ snap = NoneListed /\ marker = "no" /\ answering = FALSE
      /\ job = "none" /\ at = "idle" /\ path = 0 /\ us = NoneListed /\ rest = {}
    BY <1>1 DEF OldInit, List
<1>3. RecordOK
    BY <1>1, <1>2, OldFields, OldNames DEF OldInit, RecordOK, OldStates
<1>4. OldTypeOK
    BY <1>2, <1>3, OldNames DEF OldTypeOK, RecordOK, OldStates
<1>5. RestoreLists /\ RestoreCovers /\ RestoredAreRecorded
    BY <1>2, OldNames DEF RestoreLists, RestoreCovers, RestoredAreRecorded, Again
<1>6. QED
    BY <1>1, <1>2, <1>4, <1>5 DEF WholeInv, OldInv, OneHolder, StartedAlone,
       RestoredAlone,
       AnswersAreMarked, StopsBehindMarker, ListIsWhole, OldProvenDown, Apart, StopDrains

(* Both invariants hold of the two pairs together: that of the controller, *)
(* beside an old pair, and that of the old pair, whatever fails.           *)
THEOREM WholeInvariance == WholeSpec => []WholeInv
<1>1. WholeInv /\ [WholeNext]_allVars => WholeInv'
    BY IndInvStep, OldInvStep DEF WholeInv
<1>2. QED
    BY <1>1, WholeInitInv, PTL DEF WholeSpec

(* The variables of the migration keep their types: what a record, a       *)
(* snapshot or an operation lists are units of the old pair.               *)
THEOREM OldTypeCorrect == WholeSpec => []OldTypeOK
<1>1. WholeInv => OldTypeOK
    BY DEF WholeInv, OldInv
<1>2. QED
    BY <1>1, WholeInvariance, PTL

(* The two pairs never run at the same time, whatever was cut short: start *)
(* asks for the units of both behind its locks (controller.go:515), and so *)
(* does RestoreLegacy.                                                     *)
THEOREM OnePairAtATime == WholeSpec => []OnePair
<1>1. WholeInv => OnePair
    BY OursAnswerable DEF WholeInv, OldInv, Apart, OnePair
<1>2. QED
    BY <1>1, WholeInvariance, PTL

(* StopLegacy never stops the old pair under a generation                  *)
(* (controller.go:1025).                                                   *)
THEOREM StopDrainsFirst == WholeSpec => []StopDrains
<1>1. WholeInv => StopDrains
    BY DEF WholeInv, OldInv
<1>2. QED
    BY <1>1, WholeInvariance, PTL

(* A unit that RestoreLegacy launched and that still runs is in the record *)
(* of the old pair, and that does not call the pair stopped.               *)
THEOREM RestoredRecorded == WholeSpec => []RestoredAreRecorded
<1>1. WholeInv => RestoredAreRecorded
    BY DEF WholeInv, OldInv
<1>2. QED
    BY <1>1, WholeInvariance, PTL

(* Beside an old pair, too, a rank of ours that runs is recorded ...       *)
THEOREM RecordedBeside == WholeSpec => []RunningRanksAreRecorded
<1>1. WholeInv => RunningRanksAreRecorded
    BY SafetyOfInv DEF WholeInv
<1>2. QED
    BY <1>1, WholeInvariance, PTL

(* ... the receipt is not given up under it ...                            *)
THEOREM NotFalselyOffBeside == WholeSpec => []NeverFalselyOff
<1>1. WholeInv => NeverFalselyOff
    BY SafetyOfInv DEF WholeInv
<1>2. QED
    BY <1>1, WholeInvariance, PTL

(* ... and the other model does not run with it.                           *)
THEOREM OneModelBeside == WholeSpec => []OneModelAtATime
<1>1. WholeInv => OneModelAtATime
    BY SafetyOfInv DEF WholeInv
<1>2. QED
    BY <1>1, WholeInvariance, PTL
=============================================================================
