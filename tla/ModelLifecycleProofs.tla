------------------------ MODULE ModelLifecycleProofs ------------------------
(***************************************************************************)
(* Proofs about ModelLifecycle, for any bounds on the starts and any use.  *)
(* OneEpoch ties ranks, record and receipt to one number; ReadyWasProbed   *)
(* and OffWasVerified follow ON and OFF through their positions.  Steps is *)
(* the list of actions, the lemmas ...Does say what each operation of the  *)
(* controller does to the fields of the records, and one lemma for each    *)
(* conjunct shows that every action keeps it.                              *)
(***************************************************************************)
EXTENDS ModelLifecycle, TLAPS

LEMMA Steps ==
    [Next]_vars =>
        /\ use' = use
        /\ \/ StartAsync \/ StopAsync \/ Check \/ Load \/ StartPair \/ AwaitHealth \/ Probe
           \/ ProbeFails \/ Probed \/ ReadOwner \/ Publish \/ Unpair \/ Unload \/ Drain
           \/ StopRanks \/ Recheck \/ StopEnds \/ StopFails \/ Restarting \/ StartEnds
           \/ StartFails \/ Pass \/ Lock \/ Send \/ Unlock \/ GenEnds \/ CliBegins \/ CliDies
           \/ GatewayDies \/ PairDies \/ DS41Starts \/ FaultsCease \/ DS41Stops
           \/ (\E r \in Rank : RankDies(r)) \/ UNCHANGED vars
BY DEF Next, Free, Guided, PressOn, PressOff, Operation, Controller, Requests, Faults,
   vars

-----------------------------------------------------------------------------
(* What the operations of the controller do to the fields of the records.  *)

LEMMA Fields ==
    ASSUME NEW s, NEW e
    PROVE  /\ GLM(s, e).owner = "GLM" /\ GLM(s, e).state = s /\ GLM(s, e).ep = e
           /\ Owner(s, e).state = s /\ Owner(s, e).ep = e
BY DEF GLM, Owner

Owners == [state : {"none", "starting", "ready", "stopped", "uncertain"}, ep : Epochs]
Shareds == [owner : {"NONE", "GLM", "DS41"}, ep : Epochs,
            state : {"OFF", "STARTING", "RUNNING", "READY", "STOPPING", "UNRECONCILED"}]
Ctls == [who : {"nobody", "life", "cli"}, what : Whats, has : {"ours", "other", "none"}]

LEMMA Made ==
    ASSUME NEW e \in Epochs
    PROVE  /\ \A s \in {"none", "starting", "ready", "stopped", "uncertain"} :
                 Owner(s, e) \in Owners
           /\ \A s \in {"OFF", "STARTING", "RUNNING", "READY", "STOPPING", "UNRECONCILED"} :
                 GLM(s, e) \in Shareds
           /\ SharedOff \in Shareds /\ SharedDS41 \in Shareds
BY MaxEpochAssumption DEF Owner, GLM, SharedOff, SharedDS41, Owners, Shareds, Epochs

LEMMA FixedFields ==
    /\ SharedOff.owner = "NONE" /\ SharedOff.state = "OFF" /\ SharedOff.ep = 0
    /\ SharedDS41.owner = "DS41" /\ SharedDS41.state = "READY" /\ SharedDS41.ep = 0
    /\ Nobody.who = "nobody" /\ Nobody.what = "none"
BY DEF SharedOff, SharedDS41, Nobody, Ctl

LEMMA OwnerFields ==
    ASSUME TypeOK
    PROVE  owner = Owner(owner.state, owner.ep)
BY DEF TypeOK, Owner

LEMMA CtlFields ==
    ASSUME ControllerIsSomebodys
    PROVE  /\ ctl = Nobody <=> ctl.who = "nobody"
           /\ ctl = Nobody <=> ctl.what = "none"
BY FixedFields DEF ControllerIsSomebodys

(* The goroutine goes on, ends, or was not concerned.                      *)
Ends == /\ pc' = "idle" /\ op' = "" /\ late' = FALSE /\ err' = TRUE
        /\ said' \in {"failed", "other"} /\ seen' = Unseen

GoesOn(l) == pc' = l /\ UNCHANGED <<op, err, said, seen, late>>

LEMMA Returned ==
    ASSUME NEW who, NEW ok \in BOOLEAN, Return(who, ok),
           who = "cli" \/ pc \in {"load", "unload", "stop"}
    PROVE  \/ who = "cli" /\ UNCHANGED memory
           \/ /\ who # "cli"
              /\ \/ Ends
                 \/ ok /\ pc = "load" /\ GoesOn("pair")
                 \/ ok /\ pc = "stop" /\ GoesOn("recheck")
<1>1. CASE who = "cli"
    BY <1>1 DEF Return
<1>2. CASE who # "cli" /\ pc = "load"
    BY <1>2 DEF Return, Goto, Finish, Ends, GoesOn
<1>3. CASE who # "cli" /\ pc = "unload"
    BY <1>3 DEF Return, Goto, Finish, Ends, GoesOn
<1>4. CASE who # "cli" /\ pc = "stop"
    BY <1>4 DEF Return, Goto, Finish, Ends, GoesOn
<1>5. QED
    BY <1>1, <1>2, <1>3, <1>4

OwnerIs(s, e) == owner' = Owner(s, e) /\ owner'.state = s /\ owner'.ep = e
SharedIs(s, e) ==
    /\ shared' = GLM(s, e)
    /\ shared'.owner = "GLM" /\ shared'.state = s /\ shared'.ep = e
CtlIs(w, k) ==
    /\ \E h \in {"ours", "other", "none"} : ctl' = Ctl(w, k, h)
    /\ ctl'.who = w /\ ctl'.what = k
CtlFree == ctl' = Nobody /\ ctl'.who = "nobody" /\ ctl'.what = "none"

Reserves(who) ==
    /\ rank = AllOff /\ UNCHANGED <<rank, memory>>
    /\ OwnerIs("starting", owner.ep + 1) /\ owner.ep + 1 \in Epochs
    /\ SharedIs("STARTING", owner.ep + 1) /\ CtlIs(who, "start")
    /\ owner.state \in {"none", "stopped"}

Refuses(who) ==
    /\ UNCHANGED <<rank, owner, shared, ctl>>
    /\ IF who = "cli" THEN UNCHANGED memory ELSE Ends

StopsBegin(who, what) ==
    /\ UNCHANGED <<rank, owner, memory>> /\ CtlIs(who, what)
    /\ missed' \in {TRUE, missed}
    /\ \/ SharedIs("STOPPING", owner.ep)
       \/ UNCHANGED shared /\ (shared.state = "READY" => missed')

LEMMA EpochsGrow == IndInv => owner.ep \in Nat /\ owner.ep + 1 # 0
<1> SUFFICES ASSUME IndInv PROVE owner.ep \in Nat /\ owner.ep + 1 # 0
    OBVIOUS
<1>1. owner.ep \in Epochs
    BY DEF IndInv, TypeOK
<1>2. owner.ep \in Nat
    BY <1>1, MaxEpochAssumption DEF Epochs
<1>3. QED
    BY <1>2

LEMMA ReserveDoes ==
    ASSUME TypeOK, use \in {"free", "guided"}, NEW who, MayStart, Reserve(who)
    PROVE  Reserves(who)
<1>1. owner.ep \in Epochs /\ owner.ep < Bound /\ Bound \in Nat /\ Bound <= MaxEpoch + Recovery
  <2>1. owner.ep \in Epochs /\ owner.ep < Bound
      BY DEF TypeOK, Reserve
  <2>2. Bound \in {MaxEpoch, MaxEpoch + Recovery}
      BY DEF Bound
  <2>3. QED
      BY <2>1, <2>2, MaxEpochAssumption
<1>2. owner.ep + 1 \in Epochs
    BY <1>1, MaxEpochAssumption DEF Epochs
<1>3. OwnerIs("starting", owner.ep + 1) /\ SharedIs("STARTING", owner.ep + 1)
    BY Fields DEF Reserve, OwnerIs, SharedIs
<1>4. CtlIs(who, "start")
    BY DEF Reserve, CtlIs, Ctl
<1>5. QED
    BY <1>2, <1>3, <1>4 DEF Reserves, Reserve, MayStart

LEMMA BeginStartDoes ==
    ASSUME IndInv, NEW who, BeginStart(who), who = "cli" \/ pc \in {"load", "unload", "stop"}
    PROVE  (LocksFree /\ Reserves(who)) \/ Refuses(who)
<1>1. CASE LocksFree /\ MayStart /\ Reserve(who)
    BY <1>1, ReserveDoes DEF IndInv
<1>2. CASE Return(who, FALSE) /\ UNCHANGED <<cluster, ctl>>
    BY <1>2, Returned DEF Refuses, cluster
<1>3. QED
    BY <1>1, <1>2 DEF BeginStart

LEMMA BeginStopDoes ==
    ASSUME IndInv, NEW who, NEW what, BeginStop(who, what),
           who = "cli" \/ pc \in {"load", "unload", "stop"}
    PROVE  (LocksFree /\ StopsBegin(who, what)) \/ (Refuses(who) /\ UNCHANGED missed)
<1>1. ASSUME LocksFree, NEW h \in MayMiss("none", Held), ctl' = Ctl(who, what, h),
             shared' \in IF h = "ours" THEN MayMiss(shared, GLM("STOPPING", owner.ep))
                       ELSE {shared},
             missed' = (missed \/ shared'.state = "READY"),
             UNCHANGED <<rank, owner, memory>>
      PROVE  StopsBegin(who, what)
  <2>1. h \in {"ours", "other", "none"}
      BY <1>1 DEF MayMiss, Held
  <2>2. CtlIs(who, what)
      BY <1>1, <2>1 DEF CtlIs, Ctl
  <2>3. shared' = shared \/ shared' = GLM("STOPPING", owner.ep)
      BY <1>1 DEF MayMiss
  <2>4. missed \in BOOLEAN
      BY DEF IndInv, TypeOK
  <2>5. missed' \in {TRUE, missed} /\ (shared'.state = "READY" => missed')
      BY <1>1, <2>4, Zenon
  <2>6. \/ SharedIs("STOPPING", owner.ep)
        \/ UNCHANGED shared /\ (shared.state = "READY" => missed')
    <3>1. CASE shared' = shared
        BY <2>5, <3>1, Zenon
    <3>2. CASE shared' = GLM("STOPPING", owner.ep)
        BY <3>2, Fields DEF SharedIs
    <3>3. QED
        BY <2>3, <3>1, <3>2
  <2>7. QED
      BY <1>1, <2>2, <2>5, <2>6, Zenon DEF StopsBegin
<1>2. CASE Return(who, FALSE) /\ UNCHANGED <<cluster, ctl, missed>>
    BY <1>2, Returned DEF Refuses, cluster
<1>3. QED
    BY <1>1, <1>2 DEF BeginStop

(* An operation of the controller that is over.                            *)
Over(ok) ==
    IF ctl.who = "cli" THEN UNCHANGED memory
    ELSE \/ Ends
         \/ ok /\ pc = "load" /\ GoesOn("pair")
         \/ ok /\ pc = "stop" /\ GoesOn("recheck")

(* What an operation leaves, however it ends: READY only where it was.     *)
Left ==
    /\ owner'.ep = owner.ep
    /\ \A r \in Rank : rank'[r] \in {0, owner.ep}
    /\ ctl.what # "start" => \A r \in Rank : rank'[r] \in {0, rank[r]}
    /\ \/ UNCHANGED shared
       \/ /\ shared'.state # "READY"
          /\ shared'.owner = "GLM" => shared'.ep \in {0, owner.ep}

ClusterTypes ==
    rank \in [Rank -> Epochs] /\ owner \in Owners /\ shared \in Shareds /\ ctl \in Ctls

Idle == UNCHANGED <<pair, gen, ds, chat, probed, byCli, missed, faulty>>

LEMMA CtlTyped ==
    /\ Nobody \in Ctls
    /\ \A w \in {"life", "cli"}, k \in Whats, h \in {"ours", "other", "none"} :
          Ctl(w, k, h) \in Ctls
BY DEF Nobody, Ctl, Ctls, Whats

LEMMA ClusterTyped == IndInv => ClusterTypes
BY DEF IndInv, TypeOK, ClusterTypes, Owners, Shareds, Ctls

LEMMA Managed ==
    ASSUME IndInv, ctl.what \in {"stop", "restart", "start"}
    PROVE  /\ ctl # Nobody /\ ctl.who \in {"life", "cli"}
           /\ ctl.who = "cli" \/ pc \in {"load", "unload", "stop"}
BY FixedFields DEF IndInv, TypeOK, ControllerIsSomebodys

LEMMA ReturnsOver ==
    ASSUME IndInv, ctl.what \in {"stop", "restart", "start"},
           NEW ok \in BOOLEAN, Return(ctl.who, ok)
    PROVE  Over(ok)
BY Managed, Returned DEF Over

LEMMA ReleasedIs ==
    ASSUME IndInv, shared' = Released
    PROVE  /\ shared' \in Shareds
           /\ \/ UNCHANGED shared
              \/ /\ shared'.state # "READY"
                 /\ shared'.owner = "GLM" => shared'.ep \in {0, owner.ep}
<1>1. owner.ep \in Epochs /\ shared \in Shareds
    BY ClusterTyped DEF ClusterTypes, Owners
<1>2. Released \in {shared, SharedOff, GLM("UNRECONCILED", owner.ep)}
    BY DEF Released
<1>3. QED
    BY <1>1, <1>2, Made, Fields, FixedFields

LEMMA DownIs ==
    ASSUME rank' = AllOff, 0 \in Epochs
    PROVE  rank' \in [Rank -> Epochs] /\ \A r \in Rank : rank'[r] = 0
BY DEF AllOff

LEMMA StopLeft ==
    ASSUME IndInv, ctl.what \in {"stop", "restart"}, StopLeaves
    PROVE  Left /\ rank' \in [Rank -> Epochs] /\ owner' \in Owners /\ shared' \in Shareds
<1>1. /\ owner.ep \in Epochs /\ shared \in Shareds /\ owner \in Owners
      /\ rank \in [Rank -> Epochs] /\ 0 \in Epochs
    BY ClusterTyped, MaxEpochAssumption DEF ClusterTypes, Owners, Epochs
<1>2. owner' \in {owner, Owner("uncertain", owner.ep), Owner("stopped", owner.ep)}
    BY DEF StopLeaves
<1>3. owner' \in Owners /\ owner'.ep = owner.ep
    BY <1>1, <1>2, Made, Fields
<1>4. rank' \in [Rank -> Epochs] /\ \A r \in Rank : rank'[r] \in {0, rank[r]}
    BY <1>1, DownIs DEF StopLeaves, Fewer
<1>5. /\ shared' \in Shareds
      /\ \/ UNCHANGED shared
         \/ /\ shared'.state # "READY"
            /\ shared'.owner = "GLM" => shared'.ep \in {0, owner.ep}
  <2>1. CASE shared' = Released
      BY <2>1, ReleasedIs
  <2>2. CASE shared' \in {shared, GLM("UNRECONCILED", owner.ep)}
      BY <1>1, <2>2, Made, Fields
  <2>3. QED
      BY <2>1, <2>2 DEF StopLeaves
<1>6. \A r \in Rank : rank[r] \in {0, owner.ep}
    BY DEF IndInv, OneEpoch
<1>7. QED
    BY <1>3, <1>4, <1>5, <1>6 DEF Left

LEMMA StopEndsDoes ==
    ASSUME IndInv, StopEnds
    PROVE  /\ ctl.what \in {"stop", "restart"} /\ rank' = AllOff
           /\ Left /\ ClusterTypes'
           /\ CtlFree \/ (ctl.what = "restart" /\ CtlIs(ctl.who, "restarting"))
           /\ \E ok \in BOOLEAN : Over(ok)
           /\ Idle
<1>1. /\ ctl.what \in {"stop", "restart"} /\ rank' = AllOff
      /\ owner' = Owner("stopped", owner.ep) /\ shared' = Released
      /\ Idle
    BY DEF StopEnds, others, world, Idle
<1>2. StopLeaves
    BY <1>1 DEF StopLeaves
<1>3. /\ Left /\ rank' \in [Rank -> Epochs] /\ owner' \in Owners /\ shared' \in Shareds
    BY <1>1, <1>2, StopLeft
<1>4. \/ ctl' = Nobody
      \/ ctl.what = "restart" /\ ctl' = Ctl(ctl.who, "restarting", "none")
    BY DEF StopEnds
<1>5. /\ ctl' \in Ctls
      /\ CtlFree \/ (ctl.what = "restart" /\ CtlIs(ctl.who, "restarting"))
    BY <1>1, <1>4, CtlTyped, Managed, FixedFields DEF CtlFree, CtlIs, Ctl, Whats
<1>6. \E ok \in BOOLEAN : Return(ctl.who, ok)
    BY DEF StopEnds
<1>7. \E ok \in BOOLEAN : Over(ok)
    BY <1>1, <1>6, ReturnsOver
<1>8. QED
    BY <1>1, <1>3, <1>5, <1>7 DEF ClusterTypes

LEMMA StopFailsDoes ==
    ASSUME IndInv, StopFails
    PROVE  /\ ctl.what \in {"stop", "restart"}
           /\ Left /\ ClusterTypes' /\ CtlFree /\ Over(FALSE) /\ Idle
<1>1. /\ ctl.what \in {"stop", "restart"} /\ StopLeaves /\ ctl' = Nobody
      /\ Return(ctl.who, FALSE) /\ Idle
    BY DEF StopFails, others, world, Idle
<1>2. QED
    BY <1>1, StopLeft, ReturnsOver, CtlTyped, FixedFields DEF ClusterTypes, CtlFree

LEMMA RestartingDoes ==
    ASSUME IndInv, Restarting
    PROVE  /\ ctl.what = "restarting" /\ owner.ep + 1 # 0
           /\ Reserves(ctl.who) \/ (CtlFree /\ UNCHANGED <<rank, owner, shared, memory>>)
           /\ Idle
BY ReserveDoes, EpochsGrow, FixedFields DEF Restarting, IndInv, CtlFree, cluster, others,
   world, Idle

LEMMA StartEndsDoes ==
    ASSUME IndInv, StartEnds
    PROVE  /\ ctl.what = "start" /\ OwnerIs("ready", owner.ep)
           /\ Left /\ ClusterTypes' /\ CtlFree /\ Over(TRUE) /\ Idle
<1>1. /\ ctl.what = "start" /\ ctl' = Nobody /\ Return(ctl.who, TRUE) /\ Idle
      /\ rank' = [r \in Rank |-> owner.ep]
    BY DEF StartEnds, others, world, Idle
<1>2. owner.ep \in Epochs
    BY ClusterTyped DEF ClusterTypes, Owners
<1>3. rank' \in [Rank -> Epochs] /\ \A r \in Rank : rank'[r] = owner.ep
    BY <1>1, <1>2
<1>4. OwnerIs("ready", owner.ep) /\ SharedIs("RUNNING", owner.ep)
    BY Fields DEF StartEnds, OwnerIs, SharedIs
<1>5. owner' \in Owners /\ shared' \in Shareds
    BY <1>2, <1>4, Made DEF OwnerIs, SharedIs
<1>6. Left
    BY <1>1, <1>3, <1>4 DEF Left, OwnerIs, SharedIs
<1>7. QED
    BY <1>1, <1>3, <1>4, <1>5, <1>6, ReturnsOver, CtlTyped, FixedFields
       DEF ClusterTypes, CtlFree

LEMMA StartLeft ==
    ASSUME IndInv, ctl.what = "start", StartLeaves
    PROVE  Left /\ rank' \in [Rank -> Epochs] /\ owner' \in Owners /\ shared' \in Shareds
<1>1. owner.ep \in Epochs /\ shared \in Shareds /\ 0 \in Epochs
    BY ClusterTyped, MaxEpochAssumption DEF ClusterTypes, Owners, Epochs
<1>2. shared = GLM("STARTING", owner.ep)
    BY DEF IndInv, ControllerIsSomebodys
<1>3. PICK w \in Reached :
         \/ /\ rank' = AllOff
            /\ owner' \in {Owner(w[1], owner.ep), Owner("stopped", owner.ep)}
            /\ shared' \in {w[2], SharedOff}
         \/ /\ rank' \in [Rank -> {0, owner.ep}]
            /\ owner' \in {Owner(w[1], owner.ep), Owner("uncertain", owner.ep)}
            /\ shared' \in {w[2], GLM("UNRECONCILED", owner.ep)}
    BY DEF StartLeaves
<1>4. w[1] \in {"starting", "ready"}
    BY <1>3 DEF Reached
<1>5. w[2] \in {shared, [shared EXCEPT !.ep = 0], GLM("RUNNING", owner.ep)}
    BY <1>3 DEF Reached
<1>6. [shared EXCEPT !.ep = 0] = GLM("STARTING", 0)
    BY <1>2 DEF GLM
<1>7. w[2] \in Shareds /\ w[2].state # "READY" /\ w[2].ep \in {0, owner.ep}
    BY <1>1, <1>2, <1>5, <1>6, Made, Fields
<1>8. shared' \in Shareds /\ shared'.state # "READY"
      /\ (shared'.owner = "GLM" => shared'.ep \in {0, owner.ep})
    BY <1>1, <1>3, <1>7, Made, Fields, FixedFields
<1>9. owner' \in Owners /\ owner'.ep = owner.ep
    BY <1>1, <1>3, <1>4, Made, Fields
<1>10. rank' \in [Rank -> Epochs] /\ \A r \in Rank : rank'[r] \in {0, owner.ep}
  <2>1. CASE rank' = AllOff
      BY <1>1, <2>1, DownIs
  <2>2. CASE rank' \in [Rank -> {0, owner.ep}]
      BY <1>1, <2>2
  <2>3. QED
      BY <1>3, <2>1, <2>2
<1>11. QED
    BY <1>8, <1>9, <1>10 DEF Left

LEMMA StartFailsDoes ==
    ASSUME IndInv, StartFails
    PROVE  ctl.what = "start" /\ Left /\ ClusterTypes' /\ CtlFree /\ Over(FALSE) /\ Idle
<1>1. /\ ctl.what = "start" /\ StartLeaves /\ ctl' = Nobody /\ Return(ctl.who, FALSE)
      /\ Idle
    BY DEF StartFails, others, world, Idle
<1>2. QED
    BY <1>1, StartLeft, ReturnsOver, CtlTyped, FixedFields DEF ClusterTypes, CtlFree

Frame == UNCHANGED <<pair, gen, ds, chat, probed, faulty>>

LEMMA LoadDoes ==
    ASSUME IndInv, Load
    PROVE  /\ pc = "load" /\ Frame /\ UNCHANGED <<byCli, missed>>
           /\ ctl.who # "life" /\ owner.ep + 1 # 0
           /\ (LocksFree /\ Reserves("life")) \/ Refuses("life")
<1>1. pc = "load" /\ ctl.who # "life" /\ BeginStart("life") /\ Frame /\ UNCHANGED <<byCli, missed>>
    BY DEF Load, Frame, others, world
<1>2. QED
    BY <1>1, BeginStartDoes, EpochsGrow

LEMMA UnloadDoes ==
    ASSUME IndInv, Unload \/ StopRanks
    PROVE  /\ pc \in {"unload", "stop"} /\ Frame /\ UNCHANGED byCli
           /\ ctl.who # "life"
           /\ \/ LocksFree /\ StopsBegin("life", "stop")
              \/ Refuses("life") /\ UNCHANGED missed
<1>1. /\ ctl.who # "life" /\ pc \in {"unload", "stop"} /\ BeginStop("life", "stop")
      /\ Frame /\ UNCHANGED byCli
    BY DEF Unload, StopRanks, Frame, others, world
<1>2. QED
    BY <1>1, BeginStopDoes

LEMMA CliDoes ==
    ASSUME IndInv, CliBegins
    PROVE  /\ LocksFree /\ Frame /\ byCli' /\ UNCHANGED memory /\ owner.ep + 1 # 0
           /\ missed' \in BOOLEAN
           /\ \/ Reserves("cli") \/ StopsBegin("cli", "stop") \/ StopsBegin("cli", "restart")
              \/ UNCHANGED <<rank, owner, shared, ctl>>
<1>0. missed \in BOOLEAN
    BY DEF IndInv, TypeOK
<1>1. CASE BeginStart("cli") /\ UNCHANGED missed
  <2>1. (LocksFree /\ Reserves("cli")) \/ Refuses("cli")
      BY <1>1, BeginStartDoes
  <2>2. UNCHANGED memory
      BY <2>1 DEF Reserves, Refuses, memory
  <2>3. LocksFree /\ Frame /\ byCli'
      BY DEF CliBegins, Frame
  <2>4. QED
      BY <1>0, <1>1, <2>1, <2>2, <2>3, EpochsGrow DEF Refuses
<1>2. ASSUME NEW w \in {"stop", "restart"}, BeginStop("cli", w)
      PROVE  /\ UNCHANGED memory /\ missed' \in BOOLEAN
             /\ (StopsBegin("cli", w) \/ UNCHANGED <<rank, owner, shared, ctl>>)
    BY <1>0, <1>2, BeginStopDoes DEF StopsBegin, Refuses
<1>3. QED
    BY <1>1, <1>2, EpochsGrow DEF CliBegins, Frame

LEMMA ProbedDoes ==
    ASSUME IndInv, Probed
    PROVE  /\ pc = "probing" /\ GoesOn("read") /\ UNCHANGED <<rank, owner, shared, ctl, pair, byCli>>
           /\ owner.ep # 0 /\ probed' = probed \cup {owner.ep} /\ gen' = "no"
<1>1. rank[0] \in {0, owner.ep} /\ rank[0] # 0
    BY DEF IndInv, OneEpoch, Probed, Healthy, Rank
<1>2. pc = "probing" /\ GoesOn("read") /\ UNCHANGED <<rank, owner, shared, ctl, pair, byCli>>
    BY DEF Probed, Goto, GoesOn, cluster
<1>3. QED
    BY <1>1, <1>2 DEF Probed

LEMMA PublishDoes ==
    ASSUME Publish
    PROVE  /\ pc = "publish" /\ pc' = "idle" /\ op' = "" /\ said' = "other" /\ missed' = FALSE
           /\ UNCHANGED <<rank, owner, ctl, pair, gen, ds, chat, probed, byCli, faulty>>
           /\ \/ /\ ctl = Nobody /\ shared.owner = "GLM" /\ shared.ep = seen.ep
                 /\ SharedIs("READY", seen.ep)
              \/ UNCHANGED shared
<1>1. \/ ctl = Nobody /\ SharedMatches(seen) /\ shared' = GLM("READY", seen.ep)
      \/ UNCHANGED shared
    BY DEF Publish
<1>2. \/ /\ ctl = Nobody /\ shared.owner = "GLM" /\ shared.ep = seen.ep
         /\ SharedIs("READY", seen.ep)
      \/ UNCHANGED shared
    BY <1>1, Fields DEF SharedMatches, SharedIs
<1>3. QED
    BY <1>2 DEF Publish, Finish, world

LEMMA AbandonDoes ==
    ASSUME IndInv, Abandon, ctl.who \in {"life", "cli"}
    PROVE  Left /\ ClusterTypes' /\ CtlFree
<1>1. CtlFree /\ ctl' \in Ctls
    BY CtlTyped, FixedFields DEF Abandon, CtlFree
<1>2. Left /\ rank' \in [Rank -> Epochs] /\ owner' \in Owners /\ shared' \in Shareds
  <2>1. CASE ctl.what = "start"
      BY <2>1, StartLeft DEF Abandon
  <2>2. CASE ctl.what = "restarting"
    <3>1. UNCHANGED <<rank, owner, shared>>
        BY <2>2 DEF Abandon, cluster
    <3>2. \A r \in Rank : rank[r] \in {0, owner.ep}
        BY DEF IndInv, OneEpoch
    <3>3. QED
        BY <3>1, <3>2, ClusterTyped DEF Left, ClusterTypes
  <2>3. CASE ctl.what \in {"stop", "restart"}
      BY <2>3, StopLeft DEF Abandon
  <2>4. ctl.what \in Whats \ {"none"}
      BY FixedFields DEF IndInv, TypeOK, ControllerIsSomebodys
  <2>5. QED
      BY <2>1, <2>2, <2>3, <2>4 DEF Whats
<1>3. QED
    BY <1>1, <1>2 DEF ClusterTypes

-----------------------------------------------------------------------------
LEMMA ExclusionKept == IndInv /\ [Next]_vars => AdmissionExcludesManagement'
<1> SUFFICES ASSUME IndInv, [Next]_vars PROVE AdmissionExcludesManagement'
    OBVIOUS
<1> USE MaxEpochAssumption, Fields, FixedFields, CtlFields DEF IndInv, TypeOK,
    AdmissionExcludesManagement, ControllerIsSomebodys
<1>1. CASE StartAsync
    BY <1>1 DEF StartAsync, cluster, memory, others, world
<1>2. CASE StopAsync
    BY <1>2 DEF StopAsync, cluster, memory, others, world
<1>3. CASE Check
    BY <1>3 DEF Check, Goto, Finish, cluster, memory, others, world
<1>4. CASE Load
  <2>1. CASE LocksFree /\ Reserves("life")
      BY <1>4, <2>1, LoadDoes DEF memory, Frame, LocksFree, Reserves, OwnerIs,
         SharedIs, CtlIs
  <2>2. CASE Refuses("life")
      BY <1>4, <2>2, LoadDoes DEF memory, Frame, LocksFree, Refuses, Ends
  <2>3. QED
      BY <1>4, <2>1, <2>2, LoadDoes
<1>5. CASE StartPair
    BY <1>5 DEF StartPair, Goto, cluster, memory, others, world
<1>6. CASE AwaitHealth
    BY <1>6 DEF AwaitHealth, Goto, Healthy, cluster, memory, others, world
<1>7. CASE Probe
    BY <1>7 DEF Probe, Goto, cluster, memory, others, world
<1>8. CASE ProbeFails
    BY <1>8 DEF ProbeFails, Goto, Healthy, cluster, memory, others, world
<1>9. CASE Probed
    BY <1>9 DEF Probed, Goto, Healthy, cluster, memory, others, world
<1>10. CASE ReadOwner
    BY <1>10 DEF ReadOwner, Finish, cluster, memory, others, world
<1>11. CASE Publish
    BY <1>11 DEF Publish, Finish, SharedMatches, cluster, memory, others, world
<1>12. CASE Unpair
    BY <1>12 DEF Unpair, PairStops, Goto, cluster, memory, others, world
<1>13. CASE Unload
  <2>1. CASE LocksFree /\ StopsBegin("life", "stop")
      BY <1>13, <2>1, UnloadDoes DEF memory, Frame, LocksFree, StopsBegin, SharedIs,
         CtlIs
  <2>2. CASE Refuses("life") /\ UNCHANGED missed
      BY <1>13, <2>2, UnloadDoes DEF memory, Frame, LocksFree, Refuses, Ends
  <2>3. QED
      BY <1>13, <2>1, <2>2, UnloadDoes
<1>14. CASE Drain
    BY <1>14 DEF Drain, PairStops, cluster, memory, others, world
<1>15. CASE StopRanks
  <2>1. CASE LocksFree /\ StopsBegin("life", "stop")
      BY <1>15, <2>1, UnloadDoes DEF memory, Frame, LocksFree, StopsBegin, SharedIs,
         CtlIs
  <2>2. CASE Refuses("life") /\ UNCHANGED missed
      BY <1>15, <2>2, UnloadDoes DEF memory, Frame, LocksFree, Refuses, Ends
  <2>3. QED
      BY <1>15, <2>1, <2>2, UnloadDoes
<1>16. CASE Recheck
    BY <1>16 DEF Recheck, Finish, cluster, memory, others, world
<1>17. CASE StopEnds
    BY <1>17, StopEndsDoes DEF Left, Idle, memory, OwnerIs, SharedIs, CtlIs, CtlFree, Over, Ends,
       GoesOn, Reserves, Refuses, StopsBegin
<1>18. CASE StopFails
    BY <1>18, StopFailsDoes DEF Left, Idle, memory, OwnerIs, SharedIs, CtlIs, CtlFree, Over, Ends,
       GoesOn, Reserves, Refuses, StopsBegin
<1>19. CASE Restarting
    BY <1>19, RestartingDoes DEF Left, Idle, memory, OwnerIs, SharedIs, CtlIs, CtlFree, Over,
       Ends, GoesOn, Reserves, Refuses, StopsBegin
<1>20. CASE StartEnds
    BY <1>20, StartEndsDoes DEF Left, Idle, memory, OwnerIs, SharedIs, CtlIs, CtlFree, Over, Ends,
       GoesOn, Reserves, Refuses, StopsBegin
<1>21. CASE StartFails
    BY <1>21, StartFailsDoes DEF Left, Idle, memory, OwnerIs, SharedIs, CtlIs, CtlFree, Over,
       Ends, GoesOn, Reserves, Refuses, StopsBegin
<1>22. CASE Pass
    BY <1>22 DEF Pass, Ready, cluster, memory, others, world
<1>23. CASE Lock
    BY <1>23 DEF Lock, cluster, memory, others, world
<1>24. CASE Send
    BY <1>24 DEF Send, cluster, memory, others, world
<1>25. CASE Unlock
    BY <1>25 DEF Unlock, cluster, memory, others, world
<1>26. CASE GenEnds
    BY <1>26 DEF GenEnds, cluster, memory, others, world
<1>27. CASE CliBegins
  <2>1. CASE Reserves("cli")
      BY <1>27, <2>1, CliDoes DEF memory, Frame, LocksFree, Reserves, OwnerIs,
         SharedIs, CtlIs
  <2>2. CASE StopsBegin("cli", "stop") \/ StopsBegin("cli", "restart")
      BY <1>27, <2>2, CliDoes DEF memory, Frame, LocksFree, StopsBegin, SharedIs, CtlIs
  <2>3. CASE UNCHANGED <<rank, owner, shared, ctl>>
      BY <1>27, <2>3, CliDoes DEF memory, Frame, LocksFree, Refuses, Ends
  <2>4. QED
      BY <1>27, <2>1, <2>2, <2>3, CliDoes
<1>28. CASE CliDies
    BY <1>28, AbandonDoes DEF Left, CliDies, cluster, memory, others, world, CtlFree
<1>29. CASE GatewayDies
  <2>1. CASE ctl.who = "life" /\ Abandon
      BY <1>29, <2>1, AbandonDoes DEF Left, GatewayDies, CtlFree, others, world
  <2>2. CASE ctl.who # "life" /\ UNCHANGED <<rank, owner, shared, ctl>>
      BY <1>29, <2>2 DEF GatewayDies, others, world
  <2>3. QED
      BY <1>29, <2>1, <2>2 DEF GatewayDies, cluster
<1>30. ASSUME NEW r \in Rank, RankDies(r) PROVE AdmissionExcludesManagement'
    BY <1>30 DEF RankDies, cluster, memory, others, world
<1>31. CASE PairDies
    BY <1>31 DEF PairDies, cluster, memory, others, world
<1>32. CASE DS41Starts
    BY <1>32 DEF DS41Starts, cluster, memory, others, world
<1>33. CASE DS41Stops
    BY <1>33 DEF DS41Stops, cluster, memory, others, world
<1>34. CASE FaultsCease
    BY <1>34 DEF FaultsCease, cluster, memory, others, world
<1>35. CASE UNCHANGED vars
    BY <1>35 DEF vars, cluster, memory, others, world
<1>36. QED
    BY <1>1, <1>2, <1>3, <1>4, <1>5, <1>6, <1>7, <1>8, <1>9, <1>10, <1>11, <1>12,
       <1>13, <1>14, <1>15, <1>16, <1>17, <1>18, <1>19, <1>20, <1>21, <1>22, <1>23,
       <1>24, <1>25, <1>26, <1>27, <1>28, <1>29, <1>30, <1>31, <1>32, <1>33, <1>34,
       <1>35, Steps

LEMMA SomebodysKept == IndInv /\ [Next]_vars => ControllerIsSomebodys'
<1> SUFFICES ASSUME IndInv, [Next]_vars PROVE ControllerIsSomebodys'
    OBVIOUS
<1> USE MaxEpochAssumption, Fields, FixedFields, CtlFields DEF IndInv, TypeOK,
    ControllerIsSomebodys
<1>1. CASE StartAsync
    BY <1>1 DEF StartAsync, cluster, memory, others, world, SharedMatches, LocksFree
<1>2. CASE StopAsync
    BY <1>2 DEF StopAsync, cluster, memory, others, world, SharedMatches, LocksFree
<1>3. CASE Check
    BY <1>3 DEF Check, Goto, Finish, cluster, memory, others, world, SharedMatches, LocksFree
<1>4. CASE Load
  <2>1. CASE LocksFree /\ Reserves("life")
      BY <1>4, <2>1, LoadDoes DEF memory, SharedMatches, LocksFree, Frame, Reserves,
         OwnerIs, SharedIs, CtlIs
  <2>2. CASE Refuses("life")
      BY <1>4, <2>2, LoadDoes DEF memory, SharedMatches, LocksFree, Frame, Refuses, Ends
  <2>3. QED
      BY <1>4, <2>1, <2>2, LoadDoes
<1>5. CASE StartPair
    BY <1>5 DEF StartPair, Goto, cluster, memory, others, world, SharedMatches, LocksFree
<1>6. CASE AwaitHealth
    BY <1>6 DEF AwaitHealth, Goto, Healthy, cluster, memory, others, world, SharedMatches,
       LocksFree
<1>7. CASE Probe
    BY <1>7 DEF Probe, Goto, cluster, memory, others, world, SharedMatches, LocksFree
<1>8. CASE ProbeFails
    BY <1>8 DEF ProbeFails, Goto, Healthy, cluster, memory, others, world, SharedMatches,
       LocksFree
<1>9. CASE Probed
    BY <1>9 DEF Probed, Goto, Healthy, cluster, memory, others, world, SharedMatches, LocksFree
<1>10. CASE ReadOwner
    BY <1>10 DEF ReadOwner, Finish, cluster, memory, others, world, SharedMatches, LocksFree
<1>11. CASE Publish
    BY <1>11 DEF Publish, Finish, SharedMatches, cluster, memory, others, world, LocksFree
<1>12. CASE Unpair
    BY <1>12 DEF Unpair, PairStops, Goto, cluster, memory, others, world, SharedMatches,
       LocksFree
<1>13. CASE Unload
  <2>1. CASE LocksFree /\ StopsBegin("life", "stop")
      BY <1>13, <2>1, UnloadDoes DEF memory, SharedMatches, LocksFree, Frame,
         StopsBegin, SharedIs, CtlIs
  <2>2. CASE Refuses("life") /\ UNCHANGED missed
      BY <1>13, <2>2, UnloadDoes DEF memory, SharedMatches, LocksFree, Frame, Refuses,
         Ends
  <2>3. QED
      BY <1>13, <2>1, <2>2, UnloadDoes
<1>14. CASE Drain
    BY <1>14 DEF Drain, PairStops, cluster, memory, others, world, SharedMatches, LocksFree
<1>15. CASE StopRanks
  <2>1. CASE LocksFree /\ StopsBegin("life", "stop")
      BY <1>15, <2>1, UnloadDoes DEF memory, SharedMatches, LocksFree, Frame,
         StopsBegin, SharedIs, CtlIs
  <2>2. CASE Refuses("life") /\ UNCHANGED missed
      BY <1>15, <2>2, UnloadDoes DEF memory, SharedMatches, LocksFree, Frame, Refuses,
         Ends
  <2>3. QED
      BY <1>15, <2>1, <2>2, UnloadDoes
<1>16. CASE Recheck
    BY <1>16 DEF Recheck, Finish, cluster, memory, others, world, SharedMatches, LocksFree
<1>17. CASE StopEnds
    BY <1>17, StopEndsDoes DEF Left, Idle, memory, SharedMatches, LocksFree, OwnerIs, SharedIs,
       CtlIs, CtlFree, Over, Ends, GoesOn, Reserves, Refuses, StopsBegin
<1>18. CASE StopFails
    BY <1>18, StopFailsDoes DEF Left, Idle, memory, SharedMatches, LocksFree, OwnerIs, SharedIs,
       CtlIs, CtlFree, Over, Ends, GoesOn, Reserves, Refuses, StopsBegin
<1>19. CASE Restarting
    BY <1>19, RestartingDoes DEF Left, Idle, memory, SharedMatches, LocksFree, OwnerIs, SharedIs,
       CtlIs, CtlFree, Over, Ends, GoesOn, Reserves, Refuses, StopsBegin
<1>20. CASE StartEnds
    BY <1>20, StartEndsDoes DEF Left, Idle, memory, SharedMatches, LocksFree, OwnerIs, SharedIs,
       CtlIs, CtlFree, Over, Ends, GoesOn, Reserves, Refuses, StopsBegin
<1>21. CASE StartFails
    BY <1>21, StartFailsDoes DEF Left, Idle, memory, SharedMatches, LocksFree, OwnerIs, SharedIs,
       CtlIs, CtlFree, Over, Ends, GoesOn, Reserves, Refuses, StopsBegin
<1>22. CASE Pass
    BY <1>22 DEF Pass, Ready, cluster, memory, others, world, SharedMatches, LocksFree
<1>23. CASE Lock
    BY <1>23 DEF Lock, cluster, memory, others, world, SharedMatches, LocksFree
<1>24. CASE Send
    BY <1>24 DEF Send, cluster, memory, others, world, SharedMatches, LocksFree
<1>25. CASE Unlock
    BY <1>25 DEF Unlock, cluster, memory, others, world, SharedMatches, LocksFree
<1>26. CASE GenEnds
    BY <1>26 DEF GenEnds, cluster, memory, others, world, SharedMatches, LocksFree
<1>27. CASE CliBegins
  <2>1. CASE Reserves("cli")
      BY <1>27, <2>1, CliDoes DEF memory, SharedMatches, LocksFree, Frame, Reserves,
         OwnerIs, SharedIs, CtlIs
  <2>2. CASE StopsBegin("cli", "stop") \/ StopsBegin("cli", "restart")
      BY <1>27, <2>2, CliDoes DEF memory, SharedMatches, LocksFree, Frame, StopsBegin,
         SharedIs, CtlIs
  <2>3. CASE UNCHANGED <<rank, owner, shared, ctl>>
      BY <1>27, <2>3, CliDoes DEF memory, SharedMatches, LocksFree, Frame, Refuses, Ends
  <2>4. QED
      BY <1>27, <2>1, <2>2, <2>3, CliDoes
<1>28. CASE CliDies
    BY <1>28, AbandonDoes DEF Left, CliDies, cluster, memory, others, world, SharedMatches,
       LocksFree, CtlFree
<1>29. CASE GatewayDies
  <2>1. CASE ctl.who = "life" /\ Abandon
      BY <1>29, <2>1, AbandonDoes DEF Left, GatewayDies, CtlFree, others, world
  <2>2. CASE ctl.who # "life" /\ UNCHANGED <<rank, owner, shared, ctl>>
      BY <1>29, <2>2 DEF GatewayDies, others, world
  <2>3. QED
      BY <1>29, <2>1, <2>2 DEF GatewayDies, cluster
<1>30. ASSUME NEW r \in Rank, RankDies(r) PROVE ControllerIsSomebodys'
    BY <1>30 DEF RankDies, cluster, memory, others, world, SharedMatches, LocksFree
<1>31. CASE PairDies
    BY <1>31 DEF PairDies, cluster, memory, others, world, SharedMatches, LocksFree
<1>32. CASE DS41Starts
    BY <1>32 DEF DS41Starts, cluster, memory, others, world, SharedMatches, LocksFree
<1>33. CASE DS41Stops
    BY <1>33 DEF DS41Stops, cluster, memory, others, world, SharedMatches, LocksFree
<1>34. CASE FaultsCease
    BY <1>34 DEF FaultsCease, cluster, memory, others, world, SharedMatches, LocksFree
<1>35. CASE UNCHANGED vars
    BY <1>35 DEF vars, cluster, memory, others, world, SharedMatches, LocksFree
<1>36. QED
    BY <1>1, <1>2, <1>3, <1>4, <1>5, <1>6, <1>7, <1>8, <1>9, <1>10, <1>11, <1>12,
       <1>13, <1>14, <1>15, <1>16, <1>17, <1>18, <1>19, <1>20, <1>21, <1>22, <1>23,
       <1>24, <1>25, <1>26, <1>27, <1>28, <1>29, <1>30, <1>31, <1>32, <1>33, <1>34,
       <1>35, Steps

LEMMA OneEpochKept == IndInv /\ [Next]_vars => OneEpoch'
<1> SUFFICES ASSUME IndInv, [Next]_vars PROVE OneEpoch'
    OBVIOUS
<1> USE MaxEpochAssumption, Fields, FixedFields, CtlFields DEF IndInv, TypeOK,
    OneEpoch, ControllerIsSomebodys, AllOff, Epochs, Rank
<1>1. CASE StartAsync
    BY <1>1 DEF StartAsync, cluster, memory, others, world, SharedMatches
<1>2. CASE StopAsync
    BY <1>2 DEF StopAsync, cluster, memory, others, world, SharedMatches
<1>3. CASE Check
    BY <1>3 DEF Check, Goto, Finish, cluster, memory, others, world, SharedMatches
<1>4. CASE Load
  <2>1. CASE LocksFree /\ Reserves("life")
      BY <1>4, <2>1, LoadDoes DEF memory, SharedMatches, Frame, LocksFree, Reserves,
         OwnerIs, SharedIs, CtlIs
  <2>2. CASE Refuses("life")
      BY <1>4, <2>2, LoadDoes DEF memory, SharedMatches, Frame, LocksFree, Refuses, Ends
  <2>3. QED
      BY <1>4, <2>1, <2>2, LoadDoes
<1>5. CASE StartPair
    BY <1>5 DEF StartPair, Goto, cluster, memory, others, world, SharedMatches
<1>6. CASE AwaitHealth
    BY <1>6 DEF AwaitHealth, Goto, Healthy, cluster, memory, others, world, SharedMatches
<1>7. CASE Probe
    BY <1>7 DEF Probe, Goto, cluster, memory, others, world, SharedMatches
<1>8. CASE ProbeFails
    BY <1>8 DEF ProbeFails, Goto, Healthy, cluster, memory, others, world, SharedMatches
<1>9. CASE Probed
    BY <1>9, ProbedDoes DEF GoesOn
<1>10. CASE ReadOwner
    BY <1>10 DEF ReadOwner, Finish, cluster, memory, others, world, SharedMatches
<1>11. CASE Publish
  <2>1. CASE UNCHANGED shared
      BY <1>11, <2>1, PublishDoes
  <2>2. CASE /\ ctl = Nobody /\ shared.owner = "GLM" /\ shared.ep = seen.ep
             /\ SharedIs("READY", seen.ep)
    <3>1. shared'.state = "READY" /\ shared'.ep = shared.ep /\ owner' = owner
        BY <1>11, <2>2, PublishDoes DEF SharedIs
    <3>2. pc = "publish" /\ pc' = "idle" /\ seen.ep # 0 /\ UNCHANGED <<rank, ctl, probed, byCli>>
        BY <1>11, PublishDoes
    <3>3. QED
        BY <2>2, <3>1, <3>2
  <2>3. QED
      BY <1>11, <2>1, <2>2, PublishDoes
<1>12. CASE Unpair
    BY <1>12 DEF Unpair, PairStops, Goto, cluster, memory, others, world, SharedMatches
<1>13. CASE Unload
  <2>1. CASE LocksFree /\ StopsBegin("life", "stop")
      BY <1>13, <2>1, UnloadDoes DEF memory, SharedMatches, Frame, LocksFree,
         StopsBegin, SharedIs, CtlIs
  <2>2. CASE Refuses("life") /\ UNCHANGED missed
      BY <1>13, <2>2, UnloadDoes DEF memory, SharedMatches, Frame, LocksFree, Refuses,
         Ends
  <2>3. QED
      BY <1>13, <2>1, <2>2, UnloadDoes
<1>14. CASE Drain
    BY <1>14 DEF Drain, PairStops, cluster, memory, others, world, SharedMatches
<1>15. CASE StopRanks
  <2>1. CASE LocksFree /\ StopsBegin("life", "stop")
      BY <1>15, <2>1, UnloadDoes DEF memory, SharedMatches, Frame, LocksFree,
         StopsBegin, SharedIs, CtlIs
  <2>2. CASE Refuses("life") /\ UNCHANGED missed
      BY <1>15, <2>2, UnloadDoes DEF memory, SharedMatches, Frame, LocksFree, Refuses,
         Ends
  <2>3. QED
      BY <1>15, <2>1, <2>2, UnloadDoes
<1>16. CASE Recheck
    BY <1>16 DEF Recheck, Finish, cluster, memory, others, world, SharedMatches
<1>l. ASSUME Left, NEW ok \in BOOLEAN, Over(ok),
              ctl.who = "cli" \/ pc \in {"load", "unload", "stop"}
      PROVE  OneEpoch'
  <2>1. pc' = pc \/ pc' \in {"idle", "pair", "recheck"}
      BY <1>l DEF Over, Ends, GoesOn, memory
  <2>2. pc' = pc => seen' = seen
      BY <1>l DEF Over, Ends, GoesOn, memory
  <2>3. QED
      BY <1>l, <2>1, <2>2 DEF Left
<1>17. CASE StopEnds
    BY <1>17, <1>l, StopEndsDoes, Managed
<1>18. CASE StopFails
    BY <1>18, <1>l, StopFailsDoes, Managed
<1>19. CASE Restarting
  <2>1. CASE Reserves(ctl.who)
      BY <1>19, <2>1, RestartingDoes DEF memory, OwnerIs, SharedIs, CtlIs, CtlFree,
         Reserves
  <2>2. CASE CtlFree /\ UNCHANGED <<rank, owner, shared, memory>>
      BY <1>19, <2>2, RestartingDoes DEF memory, OwnerIs, SharedIs, CtlIs, CtlFree,
         Reserves
  <2>3. QED
      BY <1>19, <2>1, <2>2, RestartingDoes
<1>20. CASE StartEnds
    BY <1>20, <1>l, StartEndsDoes, Managed
<1>21. CASE StartFails
    BY <1>21, <1>l, StartFailsDoes, Managed
<1>22. CASE Pass
    BY <1>22 DEF Pass, Ready, cluster, memory, others, world, SharedMatches
<1>23. CASE Lock
    BY <1>23 DEF Lock, cluster, memory, others, world, SharedMatches
<1>24. CASE Send
    BY <1>24 DEF Send, cluster, memory, others, world, SharedMatches
<1>25. CASE Unlock
    BY <1>25 DEF Unlock, cluster, memory, others, world, SharedMatches
<1>26. CASE GenEnds
    BY <1>26 DEF GenEnds, cluster, memory, others, world, SharedMatches
<1>27. CASE CliBegins
  <2>1. CASE Reserves("cli")
      BY <1>27, <2>1, CliDoes DEF memory, SharedMatches, Frame, LocksFree, Reserves,
         OwnerIs, SharedIs, CtlIs
  <2>2. CASE StopsBegin("cli", "stop") \/ StopsBegin("cli", "restart")
      BY <1>27, <2>2, CliDoes, ZenonT(60) DEF memory, SharedMatches, Frame, LocksFree, StopsBegin,
         SharedIs, CtlIs
  <2>3. CASE UNCHANGED <<rank, owner, shared, ctl>>
      BY <1>27, <2>3, CliDoes DEF memory, SharedMatches, Frame, LocksFree, Refuses, Ends
  <2>4. QED
      BY <1>27, <2>1, <2>2, <2>3, CliDoes
<1>28. CASE CliDies
  <2>1. Left /\ UNCHANGED memory
      BY <1>28, AbandonDoes DEF CliDies
  <2>2. QED
      BY <2>1 DEF Left, memory
<1>29. CASE GatewayDies
  <2>1. pc' = "idle"
      BY <1>29 DEF GatewayDies
  <2>2. CASE Left
      BY <2>1, <2>2 DEF Left
  <2>3. CASE UNCHANGED <<rank, owner, shared>>
      BY <2>1, <2>3
  <2>4. QED
      BY <1>29, <2>2, <2>3, AbandonDoes DEF GatewayDies, cluster
<1>30. ASSUME NEW r \in Rank, RankDies(r) PROVE OneEpoch'
    BY <1>30 DEF RankDies, cluster, memory, others, world, SharedMatches
<1>31. CASE PairDies
    BY <1>31 DEF PairDies, cluster, memory, others, world, SharedMatches
<1>32. CASE DS41Starts
    BY <1>32 DEF DS41Starts, cluster, memory, others, world, SharedMatches
<1>33. CASE DS41Stops
    BY <1>33 DEF DS41Stops, cluster, memory, others, world, SharedMatches
<1>34. CASE FaultsCease
    BY <1>34 DEF FaultsCease, cluster, memory, others, world, SharedMatches
<1>35. CASE UNCHANGED vars
    BY <1>35 DEF vars, cluster, memory, others, world, SharedMatches
<1>36. QED
    BY <1>1, <1>2, <1>3, <1>4, <1>5, <1>6, <1>7, <1>8, <1>9, <1>10, <1>11, <1>12,
       <1>13, <1>14, <1>15, <1>16, <1>17, <1>18, <1>19, <1>20, <1>21, <1>22, <1>23,
       <1>24, <1>25, <1>26, <1>27, <1>28, <1>29, <1>30, <1>31, <1>32, <1>33, <1>34,
       <1>35, Steps

(* READY outlives an operation only as one that is known to be missed.     *)
Stops == ctl.what \in {"stop", "restart"}

LEMMA ReadyStays ==
    ASSUME IndInv, Left, Idle, NEW ok \in BOOLEAN, Over(ok), ctl # Nobody,
           ctl.who = "cli" \/ pc \in {"load", "unload", "stop"},
           Stops \/ ~ok \/ owner'.state = "ready"
    PROVE  ReadyWasProbed'
<1>1. CASE byCli
    BY <1>1 DEF Idle, ReadyWasProbed
<1>2. CASE ~byCli
  <2>1. ctl.who = "life"
      BY <1>2 DEF IndInv, TypeOK, ControllerIsSomebodys
  <2>2. pc' \in {"idle", "pair", "recheck"} /\ (pc' = "pair" => owner'.state = "ready")
      BY <2>1 DEF Over, Ends, GoesOn, Stops, IndInv, ControllerIsSomebodys
  <2>3. ASSUME shared'.owner = "GLM", shared'.state = "READY"
        PROVE  shared'.ep \in probed' /\ shared'.ep = owner'.ep /\ missed'
    <3>1. shared' = shared /\ owner'.ep = owner.ep /\ probed' = probed /\ missed' = missed
        BY <2>3 DEF Left, Idle
    <3>2. shared.ep \in probed /\ shared.ep = owner.ep /\ missed
        BY <1>2, <2>3, <3>1 DEF IndInv, ReadyWasProbed
    <3>3. QED
        BY <3>1, <3>2
  <2>4. QED
      BY <2>2, <2>3 DEF ReadyWasProbed, Starting
<1>3. QED
    BY <1>1, <1>2

LEMMA ProbedKept == IndInv /\ [Next]_vars => ReadyWasProbed'
<1> SUFFICES ASSUME IndInv, [Next]_vars PROVE ReadyWasProbed'
    OBVIOUS
<1> USE MaxEpochAssumption, Fields, FixedFields, CtlFields DEF IndInv, TypeOK,
    OneEpoch, ReadyWasProbed, ControllerIsSomebodys, Epochs, Starting, Rank
<1>1. CASE StartAsync
    BY <1>1 DEF StartAsync, cluster, memory, others, world, SharedMatches
<1>2. CASE StopAsync
    BY <1>2 DEF StopAsync, cluster, memory, others, world, SharedMatches
<1>3. CASE Check
    BY <1>3 DEF Check, Goto, Finish, cluster, memory, others, world, SharedMatches
<1>4. CASE Load
  <2>1. CASE LocksFree /\ Reserves("life")
      BY <1>4, <2>1, LoadDoes DEF memory, SharedMatches, Frame, LocksFree, Reserves,
         OwnerIs, SharedIs, CtlIs
  <2>2. CASE Refuses("life")
      BY <1>4, <2>2, LoadDoes DEF memory, SharedMatches, Frame, LocksFree, Refuses, Ends
  <2>3. QED
      BY <1>4, <2>1, <2>2, LoadDoes
<1>5. CASE StartPair
    BY <1>5 DEF StartPair, Goto, cluster, memory, others, world, SharedMatches
<1>6. CASE AwaitHealth
    BY <1>6 DEF AwaitHealth, Goto, Healthy, cluster, memory, others, world, SharedMatches
<1>7. CASE Probe
    BY <1>7 DEF Probe, Goto, cluster, memory, others, world, SharedMatches
<1>8. CASE ProbeFails
    BY <1>8 DEF ProbeFails, Goto, Healthy, cluster, memory, others, world, SharedMatches
<1>9. CASE Probed
    BY <1>9, ProbedDoes DEF GoesOn
<1>10. CASE ReadOwner
    BY <1>10 DEF ReadOwner, Finish, cluster, memory, others, world, SharedMatches
<1>11. CASE Publish
  <2>1. CASE UNCHANGED shared
      BY <1>11, <2>1, PublishDoes
  <2>2. CASE /\ ctl = Nobody /\ shared.owner = "GLM" /\ shared.ep = seen.ep
             /\ SharedIs("READY", seen.ep)
    <3>1. shared'.state = "READY" /\ shared'.ep = shared.ep /\ owner' = owner
        BY <1>11, <2>2, PublishDoes DEF SharedIs
    <3>2. pc = "publish" /\ pc' = "idle" /\ seen.ep # 0 /\ UNCHANGED <<rank, ctl, probed, byCli>>
        BY <1>11, PublishDoes
    <3>3. CASE byCli
        BY <3>2, <3>3
    <3>4. CASE ~byCli
      <4>1. owner = seen /\ owner.state = "ready" /\ owner.ep \in probed
          BY <3>2, <3>4
      <4>2. owner = Owner("ready", owner.ep)
          BY <4>1, OwnerFields
      <4>3. shared'.ep = owner.ep
        <5> HIDE DEF IndInv
        <5>1. seen.ep = owner.ep
            BY <4>1
        <5>2. QED
            BY <2>2, <3>1, <5>1
      <4>4. probed' = probed /\ ctl' = ctl /\ byCli' = byCli /\ owner' = owner
          BY <3>1, <3>2
      <4>5. QED
          BY <2>2, <3>2, <4>1, <4>2, <4>3, <4>4
    <3>5. QED
        BY <2>2, <3>1, <3>2, <3>3, <3>4
  <2>3. QED
      BY <1>11, <2>1, <2>2, PublishDoes
<1>12. CASE Unpair
    BY <1>12 DEF Unpair, PairStops, Goto, cluster, memory, others, world, SharedMatches
<1>s. ASSUME Unload \/ StopRanks PROVE ReadyWasProbed'
  <2>1. CASE StopsBegin("life", "stop")
    <3>1. pc' \in {"unload", "stop"} /\ UNCHANGED <<owner, probed, byCli>>
        BY <1>s, <2>1, UnloadDoes DEF memory, Frame, StopsBegin
    <3>2. shared'.state = "READY" => shared' = shared /\ missed'
        BY <2>1, Zenon DEF StopsBegin, SharedIs
    <3>3. QED
        BY <3>1, <3>2
  <2>2. CASE Refuses("life") /\ UNCHANGED missed
      BY <1>s, <2>2, UnloadDoes DEF Frame, Refuses, Ends
  <2>3. QED
      BY <1>s, <2>1, <2>2, UnloadDoes
<1>13. CASE Unload
    BY <1>13, <1>s
<1>14. CASE Drain
    BY <1>14 DEF Drain, PairStops, cluster, memory, others, world, SharedMatches
<1>15. CASE StopRanks
    BY <1>15, <1>s
<1>16. CASE Recheck
    BY <1>16 DEF Recheck, Finish, cluster, memory, others, world, SharedMatches
<1>17. CASE StopEnds
  <2>1. PICK ok \in BOOLEAN : Over(ok)
      BY <1>17, StopEndsDoes
  <2>2. QED
      BY <1>17, <2>1, StopEndsDoes, Managed, ReadyStays DEF Stops
<1>18. CASE StopFails
    BY <1>18, StopFailsDoes, Managed, ReadyStays DEF Stops
<1>19. CASE Restarting
    BY <1>19, RestartingDoes DEF Left, Idle, memory, SharedMatches, OwnerIs, SharedIs, CtlIs,
       CtlFree, Over, Ends, GoesOn, Reserves, Refuses, StopsBegin
<1>20. CASE StartEnds
    BY <1>20, StartEndsDoes, Managed, ReadyStays DEF OwnerIs
<1>21. CASE StartFails
    BY <1>21, StartFailsDoes, Managed, ReadyStays DEF Over, Ends, memory
<1>22. CASE Pass
    BY <1>22 DEF Pass, Ready, cluster, memory, others, world, SharedMatches
<1>23. CASE Lock
    BY <1>23 DEF Lock, cluster, memory, others, world, SharedMatches
<1>24. CASE Send
    BY <1>24 DEF Send, cluster, memory, others, world, SharedMatches
<1>25. CASE Unlock
    BY <1>25 DEF Unlock, cluster, memory, others, world, SharedMatches
<1>26. CASE GenEnds
    BY <1>26 DEF GenEnds, cluster, memory, others, world, SharedMatches
<1>27. CASE CliBegins
    BY <1>27, CliDoes
<1>28. CASE CliDies
    BY <1>28, AbandonDoes DEF Left, CliDies, cluster, memory, others, world, SharedMatches, CtlFree
<1>29. CASE GatewayDies
    BY <1>29, AbandonDoes DEF Left, GatewayDies, cluster, memory, others, world, SharedMatches,
       CtlFree
<1>30. ASSUME NEW r \in Rank, RankDies(r) PROVE ReadyWasProbed'
    BY <1>30 DEF RankDies, cluster, memory, others, world, SharedMatches
<1>31. CASE PairDies
    BY <1>31 DEF PairDies, cluster, memory, others, world, SharedMatches
<1>32. CASE DS41Starts
    BY <1>32 DEF DS41Starts, cluster, memory, others, world, SharedMatches
<1>33. CASE DS41Stops
    BY <1>33 DEF DS41Stops, cluster, memory, others, world, SharedMatches
<1>34. CASE FaultsCease
    BY <1>34 DEF FaultsCease, cluster, memory, others, world, SharedMatches
<1>35. CASE UNCHANGED vars
    BY <1>35 DEF vars, cluster, memory, others, world, SharedMatches
<1>36. QED
    BY <1>1, <1>2, <1>3, <1>4, <1>5, <1>6, <1>7, <1>8, <1>9, <1>10, <1>11, <1>12,
       <1>13, <1>14, <1>15, <1>16, <1>17, <1>18, <1>19, <1>20, <1>21, <1>22, <1>23,
       <1>24, <1>25, <1>26, <1>27, <1>28, <1>29, <1>30, <1>31, <1>32, <1>33, <1>34,
       <1>35, Steps

LEMMA VerifiedKept == IndInv /\ [Next]_vars => OffWasVerified'
<1> SUFFICES ASSUME IndInv, [Next]_vars PROVE OffWasVerified'
    OBVIOUS
<1> USE MaxEpochAssumption, Fields, FixedFields, CtlFields DEF IndInv, TypeOK,
    OffWasVerified, ControllerIsSomebodys, AllOff, Rank
<1>1. CASE StartAsync
    BY <1>1 DEF StartAsync, cluster, memory, others, world
<1>2. CASE StopAsync
    BY <1>2 DEF StopAsync, cluster, memory, others, world
<1>3. CASE Check
    BY <1>3 DEF Check, Goto, Finish, cluster, memory, others, world
<1>4. CASE Load
  <2>1. CASE LocksFree /\ Reserves("life")
      BY <1>4, <2>1, LoadDoes DEF memory, Frame, LocksFree, Reserves, OwnerIs,
         SharedIs, CtlIs
  <2>2. CASE Refuses("life")
      BY <1>4, <2>2, LoadDoes DEF memory, Frame, LocksFree, Refuses, Ends
  <2>3. QED
      BY <1>4, <2>1, <2>2, LoadDoes
<1>5. CASE StartPair
    BY <1>5 DEF StartPair, Goto, cluster, memory, others, world
<1>6. CASE AwaitHealth
    BY <1>6 DEF AwaitHealth, Goto, Healthy, cluster, memory, others, world
<1>7. CASE Probe
    BY <1>7 DEF Probe, Goto, cluster, memory, others, world
<1>8. CASE ProbeFails
    BY <1>8 DEF ProbeFails, Goto, Healthy, cluster, memory, others, world
<1>9. CASE Probed
    BY <1>9 DEF Probed, Goto, Healthy, cluster, memory, others, world
<1>10. CASE ReadOwner
    BY <1>10 DEF ReadOwner, Finish, cluster, memory, others, world
<1>11. CASE Publish
    BY <1>11 DEF Publish, Finish, SharedMatches, cluster, memory, others, world
<1>12. CASE Unpair
    BY <1>12 DEF Unpair, PairStops, Goto, cluster, memory, others, world
<1>13. CASE Unload
  <2>1. CASE LocksFree /\ StopsBegin("life", "stop")
      BY <1>13, <2>1, UnloadDoes DEF memory, Frame, LocksFree, StopsBegin, SharedIs,
         CtlIs
  <2>2. CASE Refuses("life") /\ UNCHANGED missed
      BY <1>13, <2>2, UnloadDoes DEF memory, Frame, LocksFree, Refuses, Ends
  <2>3. QED
      BY <1>13, <2>1, <2>2, UnloadDoes
<1>14. CASE Drain
    BY <1>14 DEF Drain, PairStops, cluster, memory, others, world
<1>15. CASE StopRanks
  <2>1. CASE LocksFree /\ StopsBegin("life", "stop")
      BY <1>15, <2>1, UnloadDoes DEF memory, Frame, LocksFree, StopsBegin, SharedIs,
         CtlIs
  <2>2. CASE Refuses("life") /\ UNCHANGED missed
      BY <1>15, <2>2, UnloadDoes DEF memory, Frame, LocksFree, Refuses, Ends
  <2>3. QED
      BY <1>15, <2>1, <2>2, UnloadDoes
<1>16. CASE Recheck
    BY <1>16 DEF Recheck, Finish, cluster, memory, others, world
<1>17. CASE StopEnds
    BY <1>17, StopEndsDoes DEF Left, Idle, memory, OwnerIs, SharedIs, CtlIs, CtlFree, Over, Ends,
       GoesOn, Reserves, Refuses, StopsBegin
<1>18. CASE StopFails
    BY <1>18, StopFailsDoes DEF Left, Idle, memory, OwnerIs, SharedIs, CtlIs, CtlFree, Over, Ends,
       GoesOn, Reserves, Refuses, StopsBegin
<1>19. CASE Restarting
    BY <1>19, RestartingDoes DEF Left, Idle, memory, OwnerIs, SharedIs, CtlIs, CtlFree, Over,
       Ends, GoesOn, Reserves, Refuses, StopsBegin
<1>20. CASE StartEnds
    BY <1>20, StartEndsDoes DEF Left, Idle, memory, OwnerIs, SharedIs, CtlIs, CtlFree, Over, Ends,
       GoesOn, Reserves, Refuses, StopsBegin
<1>21. CASE StartFails
    BY <1>21, StartFailsDoes DEF Left, Idle, memory, OwnerIs, SharedIs, CtlIs, CtlFree, Over,
       Ends, GoesOn, Reserves, Refuses, StopsBegin
<1>22. CASE Pass
    BY <1>22 DEF Pass, Ready, cluster, memory, others, world
<1>23. CASE Lock
    BY <1>23 DEF Lock, cluster, memory, others, world
<1>24. CASE Send
    BY <1>24 DEF Send, cluster, memory, others, world
<1>25. CASE Unlock
    BY <1>25 DEF Unlock, cluster, memory, others, world
<1>26. CASE GenEnds
    BY <1>26 DEF GenEnds, cluster, memory, others, world
<1>27. CASE CliBegins
  <2>1. CASE Reserves("cli")
      BY <1>27, <2>1, CliDoes DEF memory, Frame, LocksFree, Reserves, OwnerIs,
         SharedIs, CtlIs
  <2>2. CASE StopsBegin("cli", "stop") \/ StopsBegin("cli", "restart")
      BY <1>27, <2>2, CliDoes DEF memory, Frame, LocksFree, StopsBegin, SharedIs, CtlIs
  <2>3. CASE UNCHANGED <<rank, owner, shared, ctl>>
      BY <1>27, <2>3, CliDoes DEF memory, Frame, LocksFree, Refuses, Ends
  <2>4. QED
      BY <1>27, <2>1, <2>2, <2>3, CliDoes
<1>28. CASE CliDies
    BY <1>28, AbandonDoes DEF Left, CliDies, cluster, memory, others, world, CtlFree
<1>29. CASE GatewayDies
    BY <1>29, AbandonDoes DEF Left, GatewayDies, cluster, memory, others, world, CtlFree
<1>30. ASSUME NEW r \in Rank, RankDies(r) PROVE OffWasVerified'
    BY <1>30 DEF RankDies, cluster, memory, others, world
<1>31. CASE PairDies
    BY <1>31 DEF PairDies, cluster, memory, others, world
<1>32. CASE DS41Starts
    BY <1>32 DEF DS41Starts, cluster, memory, others, world
<1>33. CASE DS41Stops
    BY <1>33 DEF DS41Stops, cluster, memory, others, world
<1>34. CASE FaultsCease
    BY <1>34 DEF FaultsCease, cluster, memory, others, world
<1>35. CASE UNCHANGED vars
    BY <1>35 DEF vars, cluster, memory, others, world
<1>36. QED
    BY <1>1, <1>2, <1>3, <1>4, <1>5, <1>6, <1>7, <1>8, <1>9, <1>10, <1>11, <1>12,
       <1>13, <1>14, <1>15, <1>16, <1>17, <1>18, <1>19, <1>20, <1>21, <1>22, <1>23,
       <1>24, <1>25, <1>26, <1>27, <1>28, <1>29, <1>30, <1>31, <1>32, <1>33, <1>34,
       <1>35, Steps

(* The other parts of TypeOK.                                              *)
OtherTypes ==
    /\ pair \in {"off", "up", "poisoned"} /\ gen \in {"no", "chat", "probe"}
    /\ chat \in {"no", "passed", "locked"} /\ probed \in SUBSET Epochs
    /\ byCli \in BOOLEAN /\ missed \in BOOLEAN

MemoryTypes ==
    pc \in Positions /\ op \in {"", "start", "stop"} /\ (op = "" <=> pc = "idle")

LEMMA ClusterTypesKept == IndInv /\ [Next]_vars => ClusterTypes'
<1> SUFFICES ASSUME IndInv, [Next]_vars PROVE ClusterTypes'
    OBVIOUS
<1>0. ClusterTypes
    BY ClusterTyped
<1>1. CASE UNCHANGED <<rank, owner, shared, ctl>>
    BY <1>0, <1>1 DEF ClusterTypes
<1>t. ASSUME NEW w \in {"life", "cli"}, NEW k \in Whats, CtlIs(w, k) PROVE ctl' \in Ctls
    BY <1>t, CtlTyped DEF CtlIs
<1>2. ASSUME NEW w \in {"life", "cli"}, Reserves(w) PROVE ClusterTypes'
    BY <1>0, <1>2, <1>t, Made DEF Reserves, OwnerIs, SharedIs, Whats, ClusterTypes
<1>3. ASSUME NEW k \in {"stop", "restart"}, NEW w \in {"life", "cli"}, StopsBegin(w, k)
      PROVE  ClusterTypes'
  <2>1. owner.ep \in Epochs
      BY <1>0 DEF ClusterTypes, Owners
  <2>2. QED
      BY <1>0, <1>3, <1>t, <2>1, Made DEF StopsBegin, SharedIs, Whats, ClusterTypes
<1>4. CASE Load
    BY <1>1, <1>2, <1>4, LoadDoes DEF Refuses
<1>5. CASE Unload \/ StopRanks
    BY <1>1, <1>3, <1>5, UnloadDoes DEF Refuses
<1>6. CASE CliBegins
    BY <1>1, <1>2, <1>3, <1>6, CliDoes
<1>7. CASE StopEnds \/ StopFails \/ StartEnds \/ StartFails
    BY <1>7, StopEndsDoes, StopFailsDoes, StartEndsDoes, StartFailsDoes
<1>9. CASE Restarting
  <2>1. ctl.who \in {"life", "cli"}
      BY <1>9, RestartingDoes, FixedFields DEF IndInv, TypeOK, ControllerIsSomebodys
  <2>2. CASE CtlFree /\ UNCHANGED <<rank, owner, shared>>
      BY <1>0, <2>2, CtlTyped DEF CtlFree, ClusterTypes
  <2>3. QED
      BY <1>2, <1>9, <2>1, <2>2, RestartingDoes
<1>13. CASE CliDies
    BY <1>13, AbandonDoes DEF CliDies
<1>14. CASE GatewayDies
    BY <1>1, <1>14, AbandonDoes DEF GatewayDies, cluster
<1>15. CASE Publish
  <2>1. CASE SharedIs("READY", seen.ep) /\ shared.ep = seen.ep
    <3>1. shared.ep \in Epochs
        BY <1>0 DEF ClusterTypes, Shareds
    <3>2. QED
        BY <1>0, <1>15, <2>1, <3>1, PublishDoes, Made DEF SharedIs, ClusterTypes
  <2>2. CASE UNCHANGED shared
      BY <1>1, <1>15, <2>2, PublishDoes
  <2>3. QED
      BY <1>15, <2>1, <2>2, PublishDoes
<1>16. ASSUME NEW r \in Rank, RankDies(r) PROVE ClusterTypes'
  <2>1. 0 \in Epochs
      BY MaxEpochAssumption DEF Epochs
  <2>2. QED
      BY <1>0, <1>16, <2>1 DEF RankDies, ClusterTypes
<1>17. CASE DS41Starts \/ DS41Stops
  <2>1. SharedOff \in Shareds /\ SharedDS41 \in Shareds
      BY Made, MaxEpochAssumption DEF Epochs
  <2>2. QED
      BY <1>0, <1>17, <2>1 DEF DS41Starts, DS41Stops, ClusterTypes
<1>18. ASSUME \/ StartAsync \/ StopAsync \/ Check \/ StartPair \/ AwaitHealth \/ Probe
              \/ ProbeFails \/ Probed \/ ReadOwner \/ Unpair \/ Drain \/ Recheck
              \/ Pass \/ Lock \/ Send \/ Unlock \/ GenEnds \/ PairDies \/ FaultsCease
              \/ UNCHANGED vars
       PROVE  UNCHANGED <<rank, owner, shared, ctl>>
    BY <1>18 DEF StartAsync, StopAsync, Check, StartPair, AwaitHealth, Probe,
       ProbeFails, Probed,
       ReadOwner, Unpair, Drain, Recheck, Pass, Lock, Send, Unlock, GenEnds, PairDies,
       FaultsCease, vars, cluster
<1>19. QED
    BY <1>1, <1>4, <1>5, <1>6, <1>7, <1>9, <1>13, <1>14, <1>15,
       <1>16, <1>17, <1>18, Steps

LEMMA OtherTypesKept == IndInv /\ [Next]_vars => OtherTypes'
<1> SUFFICES ASSUME IndInv, [Next]_vars PROVE OtherTypes'
    OBVIOUS
<1> USE MaxEpochAssumption, Fields, FixedFields, CtlFields DEF IndInv, TypeOK,
    OtherTypes
<1>1. CASE StartAsync
    BY <1>1 DEF StartAsync, cluster, memory, others, world
<1>2. CASE StopAsync
    BY <1>2 DEF StopAsync, cluster, memory, others, world
<1>3. CASE Check
    BY <1>3 DEF Check, Goto, Finish, cluster, memory, others, world
<1>4. CASE Load
  <2>1. CASE LocksFree /\ Reserves("life")
      BY <1>4, <2>1, LoadDoes DEF memory, Frame, LocksFree, Reserves, OwnerIs,
         SharedIs, CtlIs
  <2>2. CASE Refuses("life")
      BY <1>4, <2>2, LoadDoes DEF memory, Frame, LocksFree, Refuses, Ends
  <2>3. QED
      BY <1>4, <2>1, <2>2, LoadDoes
<1>5. CASE StartPair
    BY <1>5 DEF StartPair, Goto, cluster, memory, others, world
<1>6. CASE AwaitHealth
    BY <1>6 DEF AwaitHealth, Goto, Healthy, cluster, memory, others, world
<1>7. CASE Probe
    BY <1>7 DEF Probe, Goto, cluster, memory, others, world
<1>8. CASE ProbeFails
    BY <1>8 DEF ProbeFails, Goto, Healthy, cluster, memory, others, world
<1>9. CASE Probed
    BY <1>9, ProbedDoes DEF Probed, others, world
<1>10. CASE ReadOwner
    BY <1>10 DEF ReadOwner, Finish, cluster, memory, others, world
<1>11. CASE Publish
    BY <1>11 DEF Publish, Finish, SharedMatches, cluster, memory, others, world
<1>12. CASE Unpair
    BY <1>12 DEF Unpair, PairStops, Goto, cluster, memory, others, world
<1>13. CASE Unload
  <2>1. CASE LocksFree /\ StopsBegin("life", "stop")
      BY <1>13, <2>1, UnloadDoes DEF memory, Frame, LocksFree, StopsBegin, SharedIs,
         CtlIs
  <2>2. CASE Refuses("life") /\ UNCHANGED missed
      BY <1>13, <2>2, UnloadDoes DEF memory, Frame, LocksFree, Refuses, Ends
  <2>3. QED
      BY <1>13, <2>1, <2>2, UnloadDoes
<1>14. CASE Drain
    BY <1>14 DEF Drain, PairStops, cluster, memory, others, world
<1>15. CASE StopRanks
  <2>1. CASE LocksFree /\ StopsBegin("life", "stop")
      BY <1>15, <2>1, UnloadDoes DEF memory, Frame, LocksFree, StopsBegin, SharedIs,
         CtlIs
  <2>2. CASE Refuses("life") /\ UNCHANGED missed
      BY <1>15, <2>2, UnloadDoes DEF memory, Frame, LocksFree, Refuses, Ends
  <2>3. QED
      BY <1>15, <2>1, <2>2, UnloadDoes
<1>16. CASE Recheck
    BY <1>16 DEF Recheck, Finish, cluster, memory, others, world
<1>17. CASE StopEnds
    BY <1>17, StopEndsDoes DEF Left, Idle, memory, OwnerIs, SharedIs, CtlIs, CtlFree, Over, Ends,
       GoesOn, Reserves, Refuses, StopsBegin
<1>18. CASE StopFails
    BY <1>18, StopFailsDoes DEF Left, Idle, memory, OwnerIs, SharedIs, CtlIs, CtlFree, Over, Ends,
       GoesOn, Reserves, Refuses, StopsBegin
<1>19. CASE Restarting
    BY <1>19, RestartingDoes DEF Left, Idle, memory, OwnerIs, SharedIs, CtlIs, CtlFree, Over,
       Ends, GoesOn, Reserves, Refuses, StopsBegin
<1>20. CASE StartEnds
    BY <1>20, StartEndsDoes DEF Left, Idle, memory, OwnerIs, SharedIs, CtlIs, CtlFree, Over, Ends,
       GoesOn, Reserves, Refuses, StopsBegin
<1>21. CASE StartFails
    BY <1>21, StartFailsDoes DEF Left, Idle, memory, OwnerIs, SharedIs, CtlIs, CtlFree, Over,
       Ends, GoesOn, Reserves, Refuses, StopsBegin
<1>22. CASE Pass
    BY <1>22 DEF Pass, Ready, cluster, memory, others, world
<1>23. CASE Lock
    BY <1>23 DEF Lock, cluster, memory, others, world
<1>24. CASE Send
    BY <1>24 DEF Send, cluster, memory, others, world
<1>25. CASE Unlock
    BY <1>25 DEF Unlock, cluster, memory, others, world
<1>26. CASE GenEnds
    BY <1>26 DEF GenEnds, cluster, memory, others, world
<1>27. CASE CliBegins
  <2>1. CASE Reserves("cli")
      BY <1>27, <2>1, CliDoes DEF memory, Frame, LocksFree, Reserves, OwnerIs,
         SharedIs, CtlIs
  <2>2. CASE StopsBegin("cli", "stop") \/ StopsBegin("cli", "restart")
      BY <1>27, <2>2, CliDoes DEF memory, Frame, LocksFree, StopsBegin, SharedIs, CtlIs
  <2>3. CASE UNCHANGED <<rank, owner, shared, ctl>>
      BY <1>27, <2>3, CliDoes DEF memory, Frame, LocksFree, Refuses, Ends
  <2>4. QED
      BY <1>27, <2>1, <2>2, <2>3, CliDoes
<1>28. CASE CliDies
    BY <1>28, AbandonDoes DEF Left, CliDies, cluster, memory, others, world, CtlFree
<1>29. CASE GatewayDies
    BY <1>29, AbandonDoes DEF Left, GatewayDies, cluster, memory, others, world, CtlFree
<1>30. ASSUME NEW r \in Rank, RankDies(r) PROVE OtherTypes'
    BY <1>30 DEF RankDies, cluster, memory, others, world
<1>31. CASE PairDies
    BY <1>31 DEF PairDies, cluster, memory, others, world
<1>32. CASE DS41Starts
    BY <1>32 DEF DS41Starts, cluster, memory, others, world
<1>33. CASE DS41Stops
    BY <1>33 DEF DS41Stops, cluster, memory, others, world
<1>34. CASE FaultsCease
    BY <1>34 DEF FaultsCease, cluster, memory, others, world
<1>35. CASE UNCHANGED vars
    BY <1>35 DEF vars, cluster, memory, others, world
<1>36. QED
    BY <1>1, <1>2, <1>3, <1>4, <1>5, <1>6, <1>7, <1>8, <1>9, <1>10, <1>11, <1>12,
       <1>13, <1>14, <1>15, <1>16, <1>17, <1>18, <1>19, <1>20, <1>21, <1>22, <1>23,
       <1>24, <1>25, <1>26, <1>27, <1>28, <1>29, <1>30, <1>31, <1>32, <1>33, <1>34,
       <1>35, Steps

LEMMA MemoryTypesKept == IndInv /\ [Next]_vars => MemoryTypes'
<1> SUFFICES ASSUME IndInv, [Next]_vars PROVE MemoryTypes'
    OBVIOUS
<1> USE MaxEpochAssumption, Fields, FixedFields, CtlFields DEF IndInv, TypeOK,
    MemoryTypes, ControllerIsSomebodys, Positions, Starting
<1>1. CASE StartAsync
    BY <1>1 DEF StartAsync, cluster, memory, others, world
<1>2. CASE StopAsync
    BY <1>2 DEF StopAsync, cluster, memory, others, world
<1>3. CASE Check
    BY <1>3 DEF Check, Goto, Finish, cluster, memory, others, world
<1>4. CASE Load
  <2>1. CASE LocksFree /\ Reserves("life")
      BY <1>4, <2>1, LoadDoes DEF memory, Frame, LocksFree, Reserves, OwnerIs,
         SharedIs, CtlIs
  <2>2. CASE Refuses("life")
      BY <1>4, <2>2, LoadDoes DEF memory, Frame, LocksFree, Refuses, Ends
  <2>3. QED
      BY <1>4, <2>1, <2>2, LoadDoes
<1>5. CASE StartPair
    BY <1>5 DEF StartPair, Goto, cluster, memory, others, world
<1>6. CASE AwaitHealth
    BY <1>6 DEF AwaitHealth, Goto, Healthy, cluster, memory, others, world
<1>7. CASE Probe
    BY <1>7 DEF Probe, Goto, cluster, memory, others, world
<1>8. CASE ProbeFails
    BY <1>8 DEF ProbeFails, Goto, Healthy, cluster, memory, others, world
<1>9. CASE Probed
    BY <1>9 DEF Probed, Goto, Healthy, cluster, memory, others, world
<1>10. CASE ReadOwner
    BY <1>10 DEF ReadOwner, Finish, cluster, memory, others, world
<1>11. CASE Publish
    BY <1>11 DEF Publish, Finish, SharedMatches, cluster, memory, others, world
<1>12. CASE Unpair
    BY <1>12 DEF Unpair, PairStops, Goto, cluster, memory, others, world
<1>13. CASE Unload
  <2>1. CASE LocksFree /\ StopsBegin("life", "stop")
      BY <1>13, <2>1, UnloadDoes DEF memory, Frame, LocksFree, StopsBegin, SharedIs,
         CtlIs
  <2>2. CASE Refuses("life") /\ UNCHANGED missed
      BY <1>13, <2>2, UnloadDoes DEF memory, Frame, LocksFree, Refuses, Ends
  <2>3. QED
      BY <1>13, <2>1, <2>2, UnloadDoes
<1>14. CASE Drain
    BY <1>14 DEF Drain, PairStops, cluster, memory, others, world
<1>15. CASE StopRanks
  <2>1. CASE LocksFree /\ StopsBegin("life", "stop")
      BY <1>15, <2>1, UnloadDoes DEF memory, Frame, LocksFree, StopsBegin, SharedIs,
         CtlIs
  <2>2. CASE Refuses("life") /\ UNCHANGED missed
      BY <1>15, <2>2, UnloadDoes DEF memory, Frame, LocksFree, Refuses, Ends
  <2>3. QED
      BY <1>15, <2>1, <2>2, UnloadDoes
<1>16. CASE Recheck
    BY <1>16 DEF Recheck, Finish, cluster, memory, others, world
<1>17. CASE StopEnds
    BY <1>17, StopEndsDoes DEF Left, Idle, memory, OwnerIs, SharedIs, CtlIs, CtlFree, Over, Ends,
       GoesOn, Reserves, Refuses, StopsBegin
<1>18. CASE StopFails
    BY <1>18, StopFailsDoes DEF Left, Idle, memory, OwnerIs, SharedIs, CtlIs, CtlFree, Over, Ends,
       GoesOn, Reserves, Refuses, StopsBegin
<1>19. CASE Restarting
    BY <1>19, RestartingDoes DEF Left, Idle, memory, OwnerIs, SharedIs, CtlIs, CtlFree, Over,
       Ends, GoesOn, Reserves, Refuses, StopsBegin
<1>20. CASE StartEnds
    BY <1>20, StartEndsDoes DEF Left, Idle, memory, OwnerIs, SharedIs, CtlIs, CtlFree, Over, Ends,
       GoesOn, Reserves, Refuses, StopsBegin
<1>21. CASE StartFails
    BY <1>21, StartFailsDoes DEF Left, Idle, memory, OwnerIs, SharedIs, CtlIs, CtlFree, Over,
       Ends, GoesOn, Reserves, Refuses, StopsBegin
<1>22. CASE Pass
    BY <1>22 DEF Pass, Ready, cluster, memory, others, world
<1>23. CASE Lock
    BY <1>23 DEF Lock, cluster, memory, others, world
<1>24. CASE Send
    BY <1>24 DEF Send, cluster, memory, others, world
<1>25. CASE Unlock
    BY <1>25 DEF Unlock, cluster, memory, others, world
<1>26. CASE GenEnds
    BY <1>26 DEF GenEnds, cluster, memory, others, world
<1>27. CASE CliBegins
  <2>1. CASE Reserves("cli")
      BY <1>27, <2>1, CliDoes DEF memory, Frame, LocksFree, Reserves, OwnerIs,
         SharedIs, CtlIs
  <2>2. CASE StopsBegin("cli", "stop") \/ StopsBegin("cli", "restart")
      BY <1>27, <2>2, CliDoes DEF memory, Frame, LocksFree, StopsBegin, SharedIs, CtlIs
  <2>3. CASE UNCHANGED <<rank, owner, shared, ctl>>
      BY <1>27, <2>3, CliDoes DEF memory, Frame, LocksFree, Refuses, Ends
  <2>4. QED
      BY <1>27, <2>1, <2>2, <2>3, CliDoes
<1>28. CASE CliDies
    BY <1>28, AbandonDoes DEF Left, CliDies, cluster, memory, others, world, CtlFree
<1>29. CASE GatewayDies
    BY <1>29, AbandonDoes DEF Left, GatewayDies, cluster, memory, others, world, CtlFree
<1>30. ASSUME NEW r \in Rank, RankDies(r) PROVE MemoryTypes'
    BY <1>30 DEF RankDies, cluster, memory, others, world
<1>31. CASE PairDies
    BY <1>31 DEF PairDies, cluster, memory, others, world
<1>32. CASE DS41Starts
    BY <1>32 DEF DS41Starts, cluster, memory, others, world
<1>33. CASE DS41Stops
    BY <1>33 DEF DS41Stops, cluster, memory, others, world
<1>34. CASE FaultsCease
    BY <1>34 DEF FaultsCease, cluster, memory, others, world
<1>35. CASE UNCHANGED vars
    BY <1>35 DEF vars, cluster, memory, others, world
<1>36. QED
    BY <1>1, <1>2, <1>3, <1>4, <1>5, <1>6, <1>7, <1>8, <1>9, <1>10, <1>11, <1>12,
       <1>13, <1>14, <1>15, <1>16, <1>17, <1>18, <1>19, <1>20, <1>21, <1>22, <1>23,
       <1>24, <1>25, <1>26, <1>27, <1>28, <1>29, <1>30, <1>31, <1>32, <1>33, <1>34,
       <1>35, Steps

LEMMA TypesKept == IndInv /\ [Next]_vars => TypeOK'
<1> SUFFICES ASSUME IndInv, [Next]_vars PROVE TypeOK'
    OBVIOUS
<1>1. ClusterTypes' /\ OtherTypes' /\ MemoryTypes'
    BY ClusterTypesKept, OtherTypesKept, MemoryTypesKept
<1>2. ControllerIsSomebodys'
    BY SomebodysKept
<1>3. ctl'.who = "life" => pc' \in {"load", "unload", "stop"}
    BY <1>2 DEF ControllerIsSomebodys
<1>4. QED
    BY <1>1, <1>3 DEF TypeOK, ClusterTypes, OtherTypes, MemoryTypes, Owners, Shareds,
       Ctls

LEMMA InitInv == Init => IndInv
<1> SUFFICES ASSUME Init PROVE IndInv
    OBVIOUS
<1>1. 0 \in Epochs
    BY MaxEpochAssumption DEF Epochs
<1>2. rank \in [Rank -> Epochs]
    BY <1>1 DEF Init, AllOff
<1>3. TypeOK
    BY <1>1, <1>2 DEF Init, TypeOK, Owner, SharedOff, Nobody, Ctl, Whats
<1>4. AdmissionExcludesManagement /\ ControllerIsSomebodys
    BY FixedFields DEF Init, AdmissionExcludesManagement, ControllerIsSomebodys
<1>5. OneEpoch /\ ReadyWasProbed /\ OffWasVerified
    BY Fields, FixedFields DEF Init, OneEpoch, ReadyWasProbed, OffWasVerified, AllOff,
       Starting
<1>6. QED
    BY <1>3, <1>4, <1>5 DEF Init, IndInv, Positions

(* The invariant, for any bounds on the starts.                            *)
THEOREM Invariance == Spec => []IndInv
<1>1. Init => IndInv
    BY InitInv
<1>2. IndInv /\ [Next]_vars => IndInv'
  <2> SUFFICES ASSUME IndInv, [Next]_vars PROVE IndInv'
      OBVIOUS
  <2>1. use' \in {"free", "guided"}
      BY Steps DEF IndInv, vars
  <2>2. pc' \in Positions
      BY MemoryTypesKept DEF MemoryTypes
  <2>3. QED
      BY <2>1, <2>2, TypesKept, ExclusionKept, SomebodysKept, OneEpochKept, ProbedKept,
         VerifiedKept DEF IndInv
<1>3. QED
    BY <1>1, <1>2, PTL DEF Spec

(* Every variable has its type.                                            *)
THEOREM TypeCorrect == Spec => []TypeOK
<1>1. IndInv => TypeOK
    BY DEF IndInv
<1>2. QED
    BY <1>1, Invariance, PTL

(* A generation, even one whose gateway is gone, keeps every operation of  *)
(* the controller away, of the API and of the cluster CLI.                 *)
THEOREM Exclusion == Spec => []AdmissionExcludesManagement
<1>1. IndInv => AdmissionExcludesManagement
    BY DEF IndInv
<1>2. QED
    BY <1>1, Invariance, PTL

(* What chats are let through to is the pair of the receipt, however often *)
(* the cluster CLI restarts it beside the API.                             *)
THEOREM PairIsOurs == Spec => []ReadyPairIsOurs
<1>1. IndInv => ReadyPairIsOurs
  <2> SUFFICES ASSUME IndInv, Ready, NEW r \in Rank PROVE rank[r] = shared.ep
      BY DEF ReadyPairIsOurs
  <2>1. shared.owner = "GLM" /\ shared.state = "READY" /\ rank[r] # 0
      BY DEF Ready, Healthy
  <2>2. QED
      BY <2>1 DEF IndInv, OneEpoch
<1>2. QED
    BY <1>1, Invariance, PTL

(* Without the CLI, READY is the pair of the record and passed its         *)
(* inference, the record says ready unless a stop failed to write over the *)
(* READY, and OFF is off.                                                  *)
THEOREM Announced == Spec => []AnnouncementsAreTrue
<1>1. IndInv => AnnouncementsAreTrue
    BY DEF IndInv, ReadyWasProbed, OffWasVerified, AnnouncementsAreTrue
<1>2. QED
    BY <1>1, Invariance, PTL
=============================================================================
