--------------------------- MODULE ModelLifecycle ---------------------------
(***************************************************************************)
(* ON and OFF of the whole product: modelLifecycle of lifecycle_native.go, *)
(* one goroutine per operation, which drives the whole-pair controller and *)
(* strixglm-pair.service, and the admission of the gateway (requireModel-  *)
(* Ready, modelLock).  The controller is ClusterController seen from here: *)
(* an operation takes its locks or fails at once, and ends in one of a few *)
(* ways.  Beside it: operators of the low-level cluster CLI, DS41, requests*)
(* of chats and of the coding agent, and failures of every process.        *)
(***************************************************************************)
EXTENDS Naturals

CONSTANTS MaxEpoch,  \* bound on whole-pair starts when anything may be done
          Recovery   \* further starts when the shown state is followed

ASSUME MaxEpochAssumption == MaxEpoch \in Nat /\ Recovery \in Nat

VARIABLES
    use,      \* how the product is used: "free" or "guided"; never changes
    rank,     \* epoch of the process serving as rank 0 and 1, 0: none
    owner,    \* pair-owner.json [state, ep]
    shared,   \* the shared receipt [owner, state, ep]
    pair,     \* strixglm-pair.service: "off", "up" or "poisoned"
    gen,      \* the generation holding the coordinator's pair.lock
    ds,       \* DS41's ranks are active
    ctl,      \* the controller operation that holds all locks
    op, err,  \* modelLifecycle.operation, lastError # ""
    said,     \* modelLifecycle.detail after an operation: "off", "failed" or other
    pc,       \* position of the operation's goroutine
    seen,     \* the owner record it has read
    late,     \* its coordinator stop failed (pairErr)
    chat,     \* one request: "no", "passed" the readiness gate, "locked"
    probed,   \* history: epochs whose readiness inference succeeded
    byCli,    \* history: the cluster CLI has been used
    missed,   \* history: a stop failed to replace the READY that was published last
    faulty    \* faults still happen

cluster == <<rank, owner, shared>>
memory == <<op, err, said, pc, seen, late>>
world == <<ds, chat, probed, byCli, faulty>>
others == <<world, missed>>
vars == <<use, rank, owner, shared, pair, gen, ds, ctl, op, err, said, pc, seen,
          late, chat, probed, byCli, missed, faulty>>

Rank == 0..1
Epochs == 0..(MaxEpoch + Recovery)
Bound == IF use = "guided" THEN MaxEpoch + Recovery ELSE MaxEpoch
AllOff == [r \in Rank |-> 0]
Owner(s, e) == [state |-> s, ep |-> e]
GLM(s, e) == [owner |-> "GLM", state |-> s, ep |-> e]
SharedOff == [owner |-> "NONE", state |-> "OFF", ep |-> 0]
SharedDS41 == [owner |-> "DS41", state |-> "READY", ep |-> 0]
Ctl(w, k, h) == [who |-> w, what |-> k, has |-> h]
Nobody == Ctl("nobody", "none", "none")

Unseen == Owner("none", 0)

Init ==
    /\ use \in {"free", "guided"}
    /\ rank = AllOff /\ owner = Owner("none", 0) /\ shared = SharedOff
    /\ pair = "off" /\ gen = "no" /\ ds = FALSE /\ ctl = Nobody
    /\ op = "" /\ err = FALSE /\ said = "" /\ pc = "idle"
    /\ seen = Unseen /\ late = FALSE
    /\ chat = "no" /\ probed = {} /\ byCli = FALSE /\ missed = FALSE
    /\ faulty = TRUE

-----------------------------------------------------------------------------
(* Mutation: the epoch of the receipt is not compared.                     *)
SharedMatches_Owner(o) == shared.owner = "GLM"

(* Mutation: an unreconciled receipt is nobody's.                          *)
SharedMatches_Reconciled(o) ==
    shared.owner = "GLM" /\ shared.ep = o.ep /\ shared.state # "UNRECONCILED"

(* sharedMatchesGLM: whose receipt it is, not in which state.              *)
SharedMatches(o) == shared.owner = "GLM" /\ shared.ep = o.ep

(* The coordinator's health: alive, not poisoned, both ranks answer.       *)
Healthy == pair = "up" /\ \A r \in Rank : rank[r] # 0

(* modelLifecycle.ready, the gate of every chat.                           *)
Ready ==
    /\ op = "" /\ ~err
    /\ shared.owner = "GLM" /\ shared.state = "READY"
    /\ Healthy

(* The state the API shows, when both hosts answer.                        *)
Snapshot ==
    LET off == rank = AllOff
        ours == owner.state = "ready" /\ \A r \in Rank : rank[r] = owner.ep
    IN  IF op = "start" THEN "STARTING"
        ELSE IF op = "stop" THEN "STOPPING"
        ELSE IF ds THEN IF shared.owner = "DS41" /\ off THEN "OFF" ELSE "ERROR"
        ELSE IF shared.state = "UNRECONCILED" THEN "ERROR"
        ELSE IF /\ ours /\ Healthy
                /\ SharedMatches(owner) /\ shared.state = "READY" THEN "READY"
        ELSE IF off /\ pair = "off" /\ shared = SharedOff THEN "OFF"
        ELSE IF shared.owner = "GLM" /\ shared.state \in {"STARTING", "RUNNING"}
             THEN "STARTING"
        ELSE "ERROR"

(* finishOperation.                                                        *)
Finish(e, s) ==
    /\ op' = "" /\ err' = e /\ said' = s /\ pc' = "idle" /\ late' = FALSE
    /\ seen' = Unseen

Goto(l) == pc' = l /\ UNCHANGED <<op, err, said, seen, late>>

-----------------------------------------------------------------------------
(* The controller.  compute.lock, pair.lock and the legacy lock are taken  *)
(* together and without waiting; a generation holds the second, a request  *)
(* of the gateway the third.                                               *)

(* Mutation: the controller does not take the coordinator's pair.lock.     *)
LocksFree_Shared == ctl = Nobody /\ chat # "locked"

LocksFree == ctl = Nobody /\ chat # "locked" /\ gen = "no"

(* How the goroutine of the lifecycle goes on when its operation returns.  *)
Return(who, ok) ==
    IF who = "cli" THEN UNCHANGED memory
    ELSE CASE pc = "load" -> IF ok THEN Goto("pair") ELSE Finish(TRUE, "failed")
           [] pc = "unload" -> Finish(TRUE, "other")
           [] pc = "stop" -> IF ok THEN Goto("recheck")
                             ELSE Finish(TRUE, "other")

(* A write whose error nobody looks at may not have happened.              *)
MayMiss(old, new) == {new} \cup IF faulty THEN {old} ELSE {}

(* What a stop finds: a receipt that is its pair's, or GLM's at least.  One*)
(* that cannot be read counts as nobody's.                                 *)
Held == IF SharedMatches(owner) THEN "ours"
        ELSE IF shared.owner = "GLM" THEN "other" ELSE "none"

BeginStop(who, what) ==
    \/ /\ LocksFree /\ owner.state # "none"
       /\ \E h \in MayMiss("none", Held) :
             /\ ctl' = Ctl(who, what, h)
             /\ shared' \in IF h = "ours" THEN MayMiss(shared, GLM("STOPPING", owner.ep))
                           ELSE {shared}
       /\ missed' = (missed \/ shared'.state = "READY")
       /\ UNCHANGED <<rank, owner, memory>>
    \/ /\ ~LocksFree \/ owner.state = "none" \/ faulty
       /\ Return(who, FALSE) /\ UNCHANGED <<cluster, ctl, missed>>

MayStart ==
    /\ shared = SharedOff /\ owner.state \in {"none", "stopped"}
    /\ rank = AllOff

(* The start proper, with the locks held.                                  *)
Reserve(who) ==
    /\ owner.ep < Bound
    /\ owner' = Owner("starting", owner.ep + 1)
    /\ shared' = GLM("STARTING", owner.ep + 1)
    /\ ctl' = Ctl(who, "start", "none")
    /\ UNCHANGED <<rank, memory>>

BeginStart(who) ==
    \/ LocksFree /\ MayStart /\ Reserve(who)
    \/ /\ ~LocksFree \/ ~MayStart \/ faulty \/ owner.ep = Bound
       /\ Return(who, FALSE)
       /\ UNCHANGED <<cluster, ctl>>

(* Some ranks are gone.                                                    *)
Fewer(q) == q \in [Rank -> Epochs] /\ \A r \in Rank : q[r] \in {0, rank[r]}

(* Proven stopped: OFF if the receipt was this pair's.  A restart goes on  *)
(* with the same locks.                                                    *)
Released == CASE ctl.has = "ours" -> SharedOff
              [] ctl.has = "other" -> GLM("UNRECONCILED", owner.ep)
              [] OTHER -> shared

StopEnds ==
    /\ ctl.what \in {"stop", "restart"}
    /\ rank' = AllOff /\ owner' = Owner("stopped", owner.ep) /\ shared' = Released
    /\ ctl' = IF ctl.has # "other" /\ ctl.what = "restart"
              THEN Ctl(ctl.who, "restarting", "none") ELSE Nobody
    /\ Return(ctl.who, ctl.has # "other")
    /\ UNCHANGED <<pair, gen, others>>

(* What a stop leaves that fails or dies.  A rank could not be stopped or  *)
(* asked: both marks are attempts.  Or both are down, and the records were *)
(* written as far as it came.                                              *)
StopLeaves ==
    \/ /\ Fewer(rank')
       /\ owner' \in {owner, Owner("uncertain", owner.ep)}
       /\ shared' \in {shared} \cup IF ctl.has = "none" THEN {}
                                   ELSE {GLM("UNRECONCILED", owner.ep)}
    \/ /\ rank' = AllOff
       /\ \/ owner' \in {owner, Owner("stopped", owner.ep)} /\ UNCHANGED shared
          \/ owner' = Owner("stopped", owner.ep) /\ shared' = Released

StopFails ==
    /\ ctl.what \in {"stop", "restart"} /\ faulty
    /\ StopLeaves
    /\ ctl' = Nobody /\ Return(ctl.who, FALSE)
    /\ UNCHANGED <<pair, gen, others>>

Restarting ==
    /\ ctl.what = "restarting"
    /\ \/ MayStart /\ Reserve(ctl.who)
       \/ /\ ~MayStart \/ faulty \/ owner.ep = Bound
          /\ ctl' = Nobody /\ UNCHANGED <<cluster, memory>>
    /\ UNCHANGED <<pair, gen, others>>

StartEnds ==
    /\ ctl.what = "start"
    /\ rank' = [r \in Rank |-> owner.ep]
    /\ owner' = Owner("ready", owner.ep)
    /\ shared' = GLM("RUNNING", owner.ep)
    /\ ctl' = Nobody /\ Return(ctl.who, TRUE)
    /\ UNCHANGED <<pair, gen, others>>

(* How far a start came: the receipt may be one rank identity behind the   *)
(* record, or say RUNNING already.                                         *)
Reached == {<<"starting", shared>>, <<"starting", [shared EXCEPT !.ep = 0]>>,
            <<"ready", shared>>, <<"ready", GLM("RUNNING", owner.ep)>>}

(* What a start leaves that fails or dies: the deferred cleanup stops what *)
(* was launched, if it can; both of its writes are attempts.               *)
StartLeaves ==
    \E w \in Reached :
       \/ /\ rank' = AllOff
          /\ owner' \in {Owner(w[1], owner.ep), Owner("stopped", owner.ep)}
          /\ shared' \in {w[2], SharedOff}
       \/ /\ rank' \in [Rank -> {0, owner.ep}]
          /\ owner' \in {Owner(w[1], owner.ep), Owner("uncertain", owner.ep)}
          /\ shared' \in {w[2], GLM("UNRECONCILED", owner.ep)}

StartFails ==
    /\ ctl.what = "start" /\ faulty
    /\ StartLeaves
    /\ ctl' = Nobody /\ Return(ctl.who, FALSE)
    /\ UNCHANGED <<pair, gen, others>>

(* A process that dies leaves what a failing one may leave.                *)
Abandon ==
    /\ ctl' = Nobody
    /\ CASE ctl.what = "start" -> StartLeaves
         [] ctl.what = "restarting" -> UNCHANGED cluster
         [] OTHER -> StopLeaves

-----------------------------------------------------------------------------
(* modelLifecycle.start                                                    *)

StartAsync ==
    /\ op = "" /\ op' = "start" /\ err' = FALSE /\ said' = "" /\ pc' = "check"
    /\ UNCHANGED <<seen, late, cluster, ctl, pair, gen, others>>

(* Both DS41 ranks are off and the receipt says OFF.                       *)
Check ==
    /\ pc = "check"
    /\ \/ ~ds /\ shared = SharedOff /\ Goto("load")
       \/ (ds \/ shared # SharedOff \/ faulty) /\ Finish(TRUE, "failed")
    /\ UNCHANGED <<cluster, ctl, pair, gen, others>>

Load ==
    /\ pc = "load" /\ ctl.who # "life" /\ BeginStart("life")
    /\ UNCHANGED <<pair, gen, others>>

(* systemctl start does nothing to a coordinator that runs.                *)
StartPair ==
    /\ pc = "pair"
    /\ \/ pair' = (IF pair = "off" THEN "up" ELSE pair) /\ Goto("health")
       \/ faulty /\ Goto("unload") /\ pair' \in {pair, IF pair = "off" THEN "up" ELSE pair}
    /\ UNCHANGED <<cluster, ctl, gen, others>>

AwaitHealth ==
    /\ pc = "health"
    /\ \/ Healthy /\ Goto("probe")
       \/ (~Healthy \/ faulty) /\ Goto("unpair")
    /\ UNCHANGED <<cluster, ctl, pair, gen, others>>

(* The readiness inference is admitted by the coordinator like any other.  *)
Probe ==
    /\ pc = "probe"
    /\ \/ /\ pair = "up" /\ gen = "no" /\ ctl = Nobody
          /\ gen' = "probe" /\ Goto("probing")
       \/ /\ ~(pair = "up" /\ gen = "no" /\ ctl = Nobody)
          /\ Goto("unpair") /\ UNCHANGED gen
    /\ UNCHANGED <<cluster, ctl, pair, others>>

(* Mutation: any answer will do.                                           *)
ProbeFails_Unnoticed ==
    /\ pc = "probing" /\ (faulty \/ gen # "probe" \/ ~Healthy)
    /\ Goto("read")
    /\ UNCHANGED <<cluster, ctl, pair, gen, others>>

(* Refused, cut or after 90 seconds; the generation itself goes on.        *)
ProbeFails ==
    /\ pc = "probing" /\ (faulty \/ gen # "probe" \/ ~Healthy)
    /\ Goto("unpair")
    /\ UNCHANGED <<cluster, ctl, pair, gen, others>>

Probed ==
    /\ pc = "probing" /\ gen = "probe" /\ Healthy
    /\ gen' = "no" /\ probed' = probed \cup {rank[0]}
    /\ Goto("read")
    /\ UNCHANGED <<cluster, ctl, pair, ds, chat, byCli, missed, faulty>>

ReadOwner ==
    /\ pc = "read"
    /\ \/ /\ seen' = owner /\ pc' = "publish"
          /\ UNCHANGED <<op, err, said, late>>
       \/ faulty /\ Finish(TRUE, "other")
    /\ UNCHANGED <<cluster, ctl, pair, gen, others>>

(* Under compute.lock alone.                                               *)
Publish ==
    /\ pc = "publish"
    /\ \/ /\ ctl = Nobody /\ SharedMatches(seen)
          /\ shared' = GLM("READY", seen.ep)
          /\ Finish(FALSE, "other")
       \/ /\ ctl # Nobody \/ ~SharedMatches(seen) \/ faulty
          /\ Finish(TRUE, "other")
          /\ shared' \in {shared} \cup IF ctl = Nobody /\ SharedMatches(seen)
                                      THEN {GLM("READY", seen.ep)} ELSE {}
    /\ missed' = FALSE /\ UNCHANGED <<rank, owner, ctl, pair, gen, world>>

(* systemctl stop: SIGTERM, the drain, SIGKILL in the end.                 *)
PairStops(ok) ==
    \/ ok /\ pair' = "off" /\ gen' = "no"
    \/ ~ok /\ faulty /\ UNCHANGED <<pair, gen>>

Unpair ==
    /\ pc = "unpair" /\ \E ok \in BOOLEAN : PairStops(ok)
    /\ Goto("unload")
    /\ UNCHANGED <<cluster, ctl, others>>

(* The outcome is ignored.                                                 *)
Unload ==
    /\ pc = "unload" /\ ctl.who # "life" /\ BeginStop("life", "stop")
    /\ UNCHANGED <<pair, gen, world>>

-----------------------------------------------------------------------------
(* modelLifecycle.stop.  Its snapshot cannot say OFF: op is set.           *)

StopAsync ==
    /\ op = "" /\ op' = "stop" /\ err' = FALSE /\ said' = "" /\ pc' = "drain"
    /\ UNCHANGED <<seen, late, cluster, ctl, pair, gen, others>>

Drain ==
    /\ pc = "drain"
    /\ \E ok \in BOOLEAN : PairStops(ok) /\ late' = ~ok
    /\ pc' = "stop"
    /\ UNCHANGED <<op, err, said, seen, cluster, ctl, others>>

StopRanks ==
    /\ pc = "stop" /\ ctl.who # "life" /\ BeginStop("life", "stop")
    /\ UNCHANGED <<pair, gen, world>>

(* Mutation: the coordinator is taken for stopped.                         *)
Recheck_Trusting ==
    /\ pc = "recheck" /\ Finish(FALSE, "off")
    /\ UNCHANGED <<cluster, ctl, pair, gen, others>>

(* A coordinator that cannot be asked counts as stopped if its stop worked.*)
Recheck ==
    /\ pc = "recheck"
    /\ \/ pair # "off" /\ Finish(TRUE, "other")
       \/ (pair = "off" \/ faulty) /\ late /\ Finish(TRUE, "other")
       \/ (pair = "off" \/ faulty) /\ ~late /\ Finish(FALSE, "off")
    /\ UNCHANGED <<cluster, ctl, pair, gen, others>>

-----------------------------------------------------------------------------
(* Requests.                                                               *)

Pass ==
    /\ chat = "no" /\ Ready /\ chat' = "passed"
    /\ UNCHANGED <<cluster, ctl, pair, gen, memory, ds, probed, byCli,
                  missed, faulty>>

(* modelLock; the coding agent comes here without asking for readiness.    *)
Lock ==
    /\ chat \in {"no", "passed"}
    /\ chat' = IF ctl = Nobody THEN "locked" ELSE "no"
    /\ chat # chat'
    /\ UNCHANGED <<cluster, ctl, pair, gen, memory, ds, probed, byCli,
                  missed, faulty>>

Send ==
    /\ chat = "locked" /\ pair = "up" /\ gen = "no" /\ gen' = "chat"
    /\ UNCHANGED <<cluster, ctl, pair, memory, others>>

Unlock ==
    /\ chat = "locked" /\ gen # "chat" /\ chat' = "no"
    /\ UNCHANGED <<cluster, ctl, pair, gen, memory, ds, probed, byCli,
                  missed, faulty>>

(* A generation nobody waits for any more ends as well.                    *)
GenEnds ==
    /\ gen = "chat" \/ (gen = "probe" /\ pc # "probing")
    /\ gen' = "no"
    /\ pair' \in {pair} \cup IF faulty THEN {"poisoned"} ELSE {}
    /\ UNCHANGED <<cluster, ctl, memory, others>>

-----------------------------------------------------------------------------
(* The environment.                                                        *)

CliBegins ==
    /\ LocksFree
    /\ \/ BeginStart("cli") /\ UNCHANGED missed
       \/ \E w \in {"stop", "restart"} : BeginStop("cli", w)
    /\ byCli' = TRUE /\ UNCHANGED <<pair, gen, ds, chat, probed, faulty>>

CliDies ==
    /\ faulty /\ ctl.who = "cli" /\ Abandon
    /\ UNCHANGED <<pair, gen, memory, others>>

(* The gateway and the goroutine in it; the coordinator's job goes on.     *)
GatewayDies ==
    /\ faulty
    /\ op' = "" /\ err' = FALSE /\ said' = "" /\ pc' = "idle" /\ late' = FALSE
    /\ seen' = Unseen /\ chat' = "no"
    /\ IF ctl.who = "life" THEN Abandon ELSE UNCHANGED <<cluster, ctl>>
    /\ UNCHANGED <<pair, gen, ds, probed, byCli, missed, faulty>>

RankDies(r) ==
    /\ faulty /\ rank[r] # 0
    /\ rank' = [rank EXCEPT ![r] = 0]
    /\ UNCHANGED <<owner, shared, pair, gen, ctl, memory, others>>

PairDies ==
    /\ faulty /\ pair # "off" /\ pair' = "off" /\ gen' = "no"
    /\ UNCHANGED <<cluster, ctl, memory, others>>

DS41Starts ==
    /\ faulty /\ ctl = Nobody /\ shared = SharedOff
    /\ shared' = SharedDS41 /\ ds' = TRUE
    /\ UNCHANGED <<rank, owner, pair, gen, ctl, memory, chat, probed, byCli,
                  missed, faulty>>

DS41Stops ==
    /\ ctl = Nobody /\ ds /\ ds' = FALSE /\ shared' = SharedOff
    /\ UNCHANGED <<rank, owner, pair, gen, ctl, memory, chat, probed, byCli,
                  missed, faulty>>

FaultsCease ==
    /\ faulty /\ faulty' = FALSE
    /\ UNCHANGED <<cluster, ctl, pair, gen, memory, ds, chat, probed,
                  byCli, missed>>

Controller == StopEnds \/ StopFails \/ Restarting \/ StartEnds \/ StartFails

Operation ==
    \/ Check \/ Load \/ StartPair \/ AwaitHealth \/ Probe \/ ProbeFails
    \/ Probed \/ ReadOwner \/ Publish \/ Unpair \/ Unload
    \/ Drain \/ StopRanks \/ Recheck

Requests == Pass \/ Lock \/ Send \/ Unlock \/ GenEnds

Faults ==
    \/ CliDies \/ GatewayDies \/ PairDies \/ DS41Starts \/ FaultsCease
    \/ \E r \in Rank : RankDies(r)

(* The operator asks for OFF when the state is neither READY nor OFF, when *)
(* READY is shown and chats are refused, and when an ON has just failed:   *)
(* OFF may be shown while the controller's record is not stopped.          *)
Failed == said = "failed"
PressOff ==
    /\ \/ Snapshot \in {"ERROR", "STARTING"}
       \/ Snapshot = "READY" /\ ~Ready
       \/ Snapshot = "OFF" /\ Failed
    /\ StopAsync
PressOn == Snapshot = "OFF" /\ ~ds /\ ~Failed /\ StartAsync

(* Anybody presses anything at any time, and uses the cluster CLI beside.  *)
Free ==
    /\ use = "free" /\ UNCHANGED use
    /\ \/ StartAsync \/ StopAsync \/ Operation \/ Controller \/ Requests
       \/ CliBegins \/ DS41Stops \/ Faults

(* The buttons follow the shown state.  Faults cease, before the bound on  *)
(* epochs is reached, and with them requests of an agent that does not ask *)
(* for readiness.                                                          *)
Guided ==
    /\ use = "guided" /\ UNCHANGED use
    /\ \/ PressOff \/ PressOn \/ Operation \/ Controller
       \/ Pass \/ Send \/ Unlock \/ GenEnds \/ (Lock /\ (faulty \/ Ready))
       \/ DS41Stops \/ Faults
    /\ owner'.ep = Bound => ~faulty

Next == Free \/ Guided

(* Operations are bounded by timeouts, generations by the deadline of the  *)
(* coordinator, requests by that of the gateway; DS41 is stopped in the    *)
(* end, and the operator presses what the state asks for.                  *)
Spec ==
    /\ Init /\ [][Next]_vars
    /\ WF_vars(Operation /\ UNCHANGED use) /\ WF_vars(Controller /\ UNCHANGED use)
    /\ WF_vars(GenEnds /\ UNCHANGED use) /\ WF_vars(Unlock /\ UNCHANGED use)
    /\ WF_vars(PressOff /\ UNCHANGED use) /\ WF_vars(PressOn /\ UNCHANGED use)
    /\ WF_vars(FaultsCease /\ UNCHANGED use) /\ WF_vars(DS41Stops /\ UNCHANGED use)
-----------------------------------------------------------------------------
Whats == {"none", "stop", "restart", "restarting", "start"}

TypeOK ==
    /\ rank \in [Rank -> Epochs]
    /\ owner \in [state : {"none", "starting", "ready", "stopped", "uncertain"},
                  ep : Epochs]
    /\ shared \in [owner : {"NONE", "GLM", "DS41"}, ep : Epochs,
                   state : {"OFF", "STARTING", "RUNNING", "READY", "STOPPING",
                            "UNRECONCILED"}]
    /\ pair \in {"off", "up", "poisoned"} /\ gen \in {"no", "chat", "probe"}
    /\ ctl \in [who : {"nobody", "life", "cli"}, what : Whats, has : {"ours", "other", "none"}]
    /\ op \in {"", "start", "stop"} /\ (op = "" <=> pc = "idle")
    /\ chat \in {"no", "passed", "locked"} /\ probed \in SUBSET Epochs
    /\ missed \in BOOLEAN /\ byCli \in BOOLEAN
    /\ ctl.who = "life" => pc \in {"load", "unload", "stop"}

(* Safety: no controller operation runs while a generation does, even one  *)
(* whose gateway is gone, or while a request holds the gateway's lock.     *)
AdmissionExcludesManagement ==
    gen # "no" \/ chat = "locked" => ctl = Nobody

(* Safety: when the gate is open, the ranks behind it are those of the     *)
(* receipt, whatever the cluster CLI did beside the API.                   *)
ReadyPairIsOurs == Ready => \A r \in Rank : rank[r] = shared.ep

(* Safety: as long as the CLI is not used, what ON and OFF announce is     *)
(* true: READY is only published for a pair that passed its readiness      *)
(* inference, and stands for the pair of the record; the controller counts *)
(* that as ready, unless a stop could not write over the READY, whose      *)
(* errors it drops (controller.go:381, 390); and "GLM OFF; coordinator and *)
(* both ranks verified stopped" stays true once it is said.                *)
AnnouncementsAreTrue ==
    ~byCli =>
        /\ shared.owner = "GLM" /\ shared.state = "READY" =>
              /\ shared.ep \in probed /\ shared.ep = owner.ep
              /\ owner.state = "ready" \/ missed
        /\ op = "" /\ said = "off" => rank = AllOff /\ pair = "off"

(* Liveness: when faults have ceased, pressing OFF and ON as the state asks*)
(* for it leads to a model that serves.                                    *)
EventuallyServes == use = "guided" => <>[]Ready
-----------------------------------------------------------------------------
(* What makes the safety properties inductive.  A controller operation is  *)
(* somebody's, and the receipt of a start is its own.                      *)
Starting == {"pair", "health", "probe", "probing", "read", "publish"}

ControllerIsSomebodys ==
    /\ ctl = Nobody \/ (ctl.who # "nobody" /\ ctl.what # "none")
    /\ ctl.who = "life" => \/ ctl.what = "start" /\ pc = "load"
                           \/ ctl.what = "stop" /\ pc \in {"unload", "stop"}
    /\ ctl.who = "cli" => byCli
    /\ ctl.what = "start" => shared = GLM("STARTING", owner.ep)

(* Every rank was launched for the epoch of the record, and the receipt is *)
(* of that epoch too, or was not given one by a start that died.           *)
OneEpoch ==
    /\ \A r \in Rank : rank[r] \in {0, owner.ep}
    /\ shared.owner = "GLM" =>
          /\ shared.ep \in {0, owner.ep}
          /\ shared.state = "READY" => shared.ep # 0
    /\ pc = "read" => owner.ep # 0
    /\ pc = "publish" => seen.ep # 0

(* Without the CLI: from the start on the record is ready and, once it was *)
(* probed, the one that is published; READY ends with the next operation.  *)
ReadyWasProbed ==
    ~byCli =>
        /\ pc \in Starting => owner.state = "ready"
        /\ pc \in {"read", "publish"} => owner.ep \in probed
        /\ pc = "publish" => seen = owner
        /\ shared.owner = "GLM" /\ shared.state = "READY" =>
              /\ shared.ep \in probed /\ shared.ep = owner.ep
              /\ (ctl = Nobody /\ owner.state = "ready") \/ missed

(* Without the CLI: what OFF has stopped stays stopped until the next ON.  *)
OffWasVerified ==
    /\ pair = "off" => gen = "no"
    /\ ~byCli =>
          /\ pc \in {"stop", "recheck"} /\ ~late => pair = "off"
          /\ pc = "recheck" => rank = AllOff
          /\ op = "" /\ said = "off" => rank = AllOff /\ pair = "off"

Positions == Starting \cup {"idle", "check", "load", "unpair", "unload", "drain",
                            "stop", "recheck"}

IndInv ==
    /\ TypeOK /\ use \in {"free", "guided"} /\ pc \in Positions
    /\ AdmissionExcludesManagement /\ ControllerIsSomebodys /\ OneEpoch
    /\ ReadyWasProbed /\ OffWasVerified
=============================================================================
