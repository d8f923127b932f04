------------------------- MODULE PairedCoordinator -------------------------
(***************************************************************************)
(* The native paired coordinator (internal/app/paired.go): one process     *)
(* that forwards every generation to BOTH inference ranks, compares what   *)
(* they produced and answers only when they agree.  Two ranks whose        *)
(* generation histories may differ are useless as a pair, so the process   *)
(* keeps a durable marker (pair-poison.json) on disk from before the first *)
(* byte reaches a rank until both ranks are known to have agreed; only     *)
(* stopping the whole pair removes the marker otherwise.                   *)
(*                                                                         *)
(* Actors, interleaved at the granularity of the code's critical sections  *)
(* (the backend mutex, the pair.lock flock, one system call):              *)
(*   - HTTP handlers (admission, answer, disconnect) and one detached job  *)
(*     goroutine per admitted request;                                     *)
(*   - the two ranks, which run on whatever happens to the coordinator;    *)
(*   - the process: start, SIGTERM, bounded drain, exit, crash;            *)
(*   - the cluster controller (controller.go), reduced here to what it     *)
(*     does to the ranks and the marker under pair.lock.                   *)
(***************************************************************************)
EXTENDS FiniteSets

CONSTANTS Req,      \* client requests, each submitted at most once
          NoReq,    \* "no request"
          Outputs   \* what a rank can generate for a request

Rank == {0, 1}
Bad  == "bad"       \* a generation that a rank aborted or failed
Err  == "err"       \* a drain that returned an error
Unsent == "unsent"  \* a drain that has not reached its rank
Sent == "sent"      \* a drain that has not returned

ASSUME NoReqAssumption == NoReq \notin Req
ASSUME OutputsAssumption == {Bad, Err, Unsent, Sent} \cap Outputs = {}

VARIABLES
    proc,     \* "down", "up", "draining" (closing set), "expired" (grace over)
    busy,     \* PairedBackend.busy
    poison,   \* PairedBackend.poison # ""
    marker,   \* pair-poison.json exists
    lock,     \* holder of the pair.lock flock: "free", "pair" or "mgmt"
    stage,    \* [Req -> Stages]: where the job of a request is
    val,      \* [Req -> [Rank -> ...]]: what each drain of the job returned
    err,      \* [Req -> BOOLEAN]: pairedJob.err # nil
    cleared,  \* [Req -> BOOLEAN]: the job removed its marker
    client,   \* [Req -> ClientStates]: what the client of the request sees
    on,       \* [Rank -> BOOLEAN]: the rank process runs
    gen,      \* [Rank -> Req or NoReq]: generation in progress on the rank
    log,      \* [Rank -> set of <<request, result>>] since the rank started
    mgmt      \* where the controller is

procVars   == <<proc, busy, poison, lock>>
jobVars    == <<stage, val, err, cleared>>
rankVars   == <<on, gen, log>>
vars == <<proc, busy, poison, marker, lock, stage, val, err, cleared, client,
         on, gen, log, mgmt>>

Stages == {"new", "drain", "refail", "publish", "finish", "unlocked", "done",
           "over"}
InFlight == {"drain", "refail", "publish", "finish"}
ClientStates == {"new", "waiting", "gone", "error", "complete"}
MgmtStates == {"none", "stopping", "archiving", "restarting", "launch0",
               "launch1", "launched", "cleanup"}

Init ==
    /\ proc = "down" /\ busy = FALSE /\ poison = FALSE
    /\ marker = FALSE /\ lock = "free"
    /\ stage = [r \in Req |-> "new"]
    /\ val = [r \in Req |-> [k \in Rank |-> Unsent]]
    /\ err = [r \in Req |-> FALSE]
    /\ cleared = [r \in Req |-> FALSE]
    /\ client = [r \in Req |-> "new"]
    /\ on = [k \in Rank |-> FALSE]
    /\ gen = [k \in Rank |-> NoReq]
    /\ log = [k \in Rank |-> {}]
    /\ mgmt = "none"

-----------------------------------------------------------------------------
(* PairedBackend.fail: poison the process and rewrite the marker; an error *)
(* of the write is ignored, so the marker may stay as it was.              *)
Fail ==
    /\ poison' = TRUE
    /\ marker' \in {marker, TRUE}

-----------------------------------------------------------------------------
(* Admission: PairedBackend.admit, one critical section of the mutex.      *)

Closing == proc \in {"draining", "expired"}

(* The early returns before anything is reserved. *)
MayReserve == ~Closing /\ ~poison /\ ~busy /\ lock = "free"

Refuse(r) ==
    /\ proc # "down" /\ client[r] = "new" /\ ~MayReserve
    /\ client' = [client EXCEPT ![r] = "error"]
    /\ UNCHANGED <<procVars, marker, jobVars, rankVars, mgmt>>

(* The marker could not be created exclusively, or not made durable: the   *)
(* process distrusts the pair and a half-written marker stays behind.      *)
ReserveFails(r) ==
    /\ proc # "down" /\ client[r] = "new" /\ MayReserve
    /\ poison' = TRUE
    /\ marker' \in {marker, TRUE}
    /\ client' = [client EXCEPT ![r] = "error"]
    /\ UNCHANGED <<proc, busy, lock, jobVars, rankVars, mgmt>>

Reserve(r) ==
    /\ proc # "down" /\ client[r] = "new" /\ MayReserve
    /\ ~marker
    /\ marker' = TRUE
    /\ busy' = TRUE
    /\ lock' = "pair"
    /\ stage' = [stage EXCEPT ![r] = "drain"]
    /\ client' = [client EXCEPT ![r] = "waiting"]
    /\ UNCHANGED <<proc, poison, val, err, cleared, rankVars, mgmt>>

Admit(r) == Refuse(r) \/ ReserveFails(r) \/ Reserve(r)

-----------------------------------------------------------------------------
(* pairedJob.run: two concurrent drains, then the decision.                *)

Collected(r) == \A k \in Rank : val[r][k] \notin {Unsent, Sent}

(* The POST of drain(rank) reaches the rank.  It may find no process.      *)
Dispatch(r, k) ==
    /\ proc # "down" /\ stage[r] = "drain"
    /\ val[r][k] = Unsent
    /\ val' = [val EXCEPT ![r][k] = Sent]
    /\ gen' = IF on[k] THEN [gen EXCEPT ![k] = r] ELSE gen
    /\ UNCHANGED <<procVars, marker, stage, err, cleared, client, on, log, mgmt>>

(* run receives the result of drain(rank).  Whatever the rank did, the     *)
(* drain may return an error (connection, status, limit, malformed or      *)
(* truncated stream), and an error poisons at once.                        *)
CollectOutput(r, k, o) ==
    /\ proc # "down" /\ stage[r] = "drain" /\ val[r][k] = Sent
    /\ <<r, o>> \in log[k]
    /\ val' = [val EXCEPT ![r][k] = o]
    /\ UNCHANGED <<procVars, marker, stage, err, cleared, client,
                   rankVars, mgmt>>

CollectError(r, k) ==
    /\ proc # "down" /\ stage[r] = "drain"
    /\ val[r][k] \in {Unsent, Sent}
    /\ val' = [val EXCEPT ![r][k] = Err]
    /\ Fail
    /\ UNCHANGED <<proc, busy, lock, stage, err, cleared, client,
                   rankVars, mgmt>>

(* Mutation: the deadline only guards the wait for the second result. *)
Deadline_BetweenResults(r) ==
    /\ proc # "down" /\ stage[r] = "drain" /\ ~Collected(r)
    /\ \E k \in Rank : val[r][k] \notin {Unsent, Sent}
    /\ err' = [err EXCEPT ![r] = TRUE]
    /\ Fail
    /\ stage' = [stage EXCEPT ![r] = "finish"]
    /\ UNCHANGED <<proc, busy, lock, val, cleared, client, rankVars, mgmt>>

(* The generation deadline: run stops waiting, the drains are abandoned.   *)
Deadline(r) ==
    /\ proc # "down" /\ stage[r] = "drain" /\ ~Collected(r)
    /\ err' = [err EXCEPT ![r] = TRUE]
    /\ Fail
    /\ stage' = [stage EXCEPT ![r] = "finish"]
    /\ UNCHANGED <<proc, busy, lock, val, cleared, client, rankVars, mgmt>>

(* Mutation: the outputs of the two ranks are not compared. *)
Agreed_Unchecked(r) == \A k \in Rank : val[r][k] \notin {Err, Unsent, Sent}

Agreed(r) == /\ val[r][0] = val[r][1]
             /\ \A k \in Rank : val[r][k] \notin {Err, Unsent, Sent}

Disagree(r) ==
    /\ proc # "down" /\ stage[r] = "drain" /\ Collected(r) /\ ~Agreed(r)
    /\ err' = [err EXCEPT ![r] = TRUE]
    /\ Fail
    /\ stage' = [stage EXCEPT ![r] = "finish"]
    /\ UNCHANGED <<proc, busy, lock, val, cleared, client, rankVars, mgmt>>

(* Mutation: a late completion clears the marker of a poisoned process.    *)
MayClear_Always == TRUE

(* The removal of the marker is refused once anything poisoned the pair:   *)
(* a shutdown deadline may have passed while the job was draining.         *)
MayClear == ~poison

ClearRefused(r) ==
    /\ proc # "down" /\ stage[r] = "drain" /\ Collected(r) /\ Agreed(r)
    /\ err' = [err EXCEPT ![r] = TRUE]      \* poisoned, or the unlink failed
    /\ stage' = [stage EXCEPT ![r] = "refail"]
    /\ UNCHANGED <<procVars, marker, val, cleared, client, rankVars, mgmt>>

Clear(r) ==
    /\ proc # "down" /\ stage[r] = "drain" /\ Collected(r) /\ Agreed(r)
    /\ MayClear
    /\ marker' = FALSE
    /\ cleared' = [cleared EXCEPT ![r] = TRUE]
    /\ \/ /\ stage' = [stage EXCEPT ![r] = "publish"]
          /\ err' = err
       \/ /\ stage' = [stage EXCEPT ![r] = "refail"]   \* directory sync failed
          /\ err' = [err EXCEPT ![r] = TRUE]
    /\ UNCHANGED <<procVars, val, client, rankVars, mgmt>>

(* run calls fail again, in a critical section of its own. *)
Refail(r) ==
    /\ proc # "down" /\ stage[r] = "refail"
    /\ Fail
    /\ stage' = [stage EXCEPT ![r] = "finish"]
    /\ UNCHANGED <<proc, busy, lock, val, err, cleared, client, rankVars,
                   mgmt>>

(* Timing metrics are merged and the terminal frames queued.  Malformed    *)
(* metrics or a slow client turn the answer into an error, nothing more.   *)
Publish(r) ==
    /\ proc # "down" /\ stage[r] = "publish"
    /\ \E e \in BOOLEAN : err' = [err EXCEPT ![r] = e]
    /\ stage' = [stage EXCEPT ![r] = "finish"]
    /\ UNCHANGED <<procVars, marker, val, cleared, client, rankVars, mgmt>>

(* The flock is dropped first, the mutex section that frees the backend    *)
(* comes second: a controller can slip in between.                         *)
Finish(r) ==
    /\ proc # "down" /\ stage[r] = "finish"
    /\ lock' = "free"
    /\ stage' = [stage EXCEPT ![r] = "unlocked"]
    /\ UNCHANGED <<proc, busy, poison, marker, val, err, cleared, client,
                   rankVars, mgmt>>

Release(r) ==
    /\ proc # "down" /\ stage[r] = "unlocked"
    /\ busy' = FALSE
    /\ stage' = [stage EXCEPT ![r] = "done"]
    /\ UNCHANGED <<proc, poison, lock, marker, val, err, cleared, client,
                   rankVars, mgmt>>

(* Everything run does by itself once the drains came back or ran late.    *)
JobStep(r) ==
    \/ Deadline(r) \/ Disagree(r) \/ ClearRefused(r) \/ Clear(r)
    \/ Refail(r) \/ Publish(r) \/ Finish(r) \/ Release(r)

-----------------------------------------------------------------------------
(* The handler of an admitted request: ServeHTTP after admission.          *)

Respond(r) ==
    /\ proc # "down" /\ stage[r] = "done" /\ client[r] = "waiting"
    /\ client' = [client EXCEPT ![r] = IF err[r] THEN "error" ELSE "complete"]
    /\ UNCHANGED <<procVars, marker, jobVars, rankVars, mgmt>>

(* A client that goes away only detaches; both ranks still drain.          *)
Disconnect(r) ==
    /\ client[r] = "waiting"
    /\ client' = [client EXCEPT ![r] = "gone"]
    /\ UNCHANGED <<procVars, marker, jobVars, rankVars, mgmt>>

-----------------------------------------------------------------------------
(* The ranks (external processes, modelled from what drain expects).       *)

GenEnd(k, x) ==
    /\ gen[k] # NoReq
    /\ log' = [log EXCEPT ![k] = @ \cup {<<gen[k], x>>}]
    /\ gen' = [gen EXCEPT ![k] = NoReq]
    /\ UNCHANGED <<procVars, marker, jobVars, client, on, mgmt>>

(* A response that a dead rank had written may still be read.              *)
RankExit(k) ==
    /\ on[k]
    /\ on' = [on EXCEPT ![k] = FALSE]
    /\ gen' = [gen EXCEPT ![k] = NoReq]
    /\ log' = [log EXCEPT ![k] = {e \in @ : stage[e[1]] = "drain"}]
    /\ UNCHANGED <<procVars, marker, jobVars, client, mgmt>>

-----------------------------------------------------------------------------
(* The coordinator process: serveNativePair and serveNativePairUntil.      *)

Start ==
    /\ proc = "down"
    /\ proc' = "up"
    /\ poison' = marker          \* NewPairedBackend looks for a marker
    /\ busy' = FALSE
    /\ UNCHANGED <<marker, lock, jobVars, client, rankVars, mgmt>>

Signal ==
    /\ proc = "up"
    /\ proc' = "draining"
    /\ UNCHANGED <<busy, poison, lock, marker, jobVars, client, rankVars, mgmt>>

HandlersReturned == \A r \in Req : client[r] # "waiting"

Vanish ==                        \* the process and all its goroutines are gone
    /\ proc' = "down"
    /\ busy' = FALSE
    /\ poison' = FALSE
    /\ lock' = IF lock = "pair" THEN "free" ELSE lock
    /\ stage' = [r \in Req |-> IF stage[r] = "new" THEN "new" ELSE "over"]
    /\ val' = [r \in Req |-> [k \in Rank |-> Unsent]]
    /\ err' = [r \in Req |-> FALSE]
    /\ client' = [r \in Req |-> IF client[r] = "waiting" THEN "error"
                                ELSE client[r]]
    /\ UNCHANGED <<marker, cleared, rankVars, mgmt>>

CleanExit == proc = "draining" /\ ~busy /\ HandlersReturned /\ Vanish

(* The grace period ends first, or at the same moment: fail, then exit.    *)
GraceExpires ==
    /\ proc = "draining"
    /\ proc' = "expired"
    /\ Fail
    /\ UNCHANGED <<busy, lock, jobVars, client, rankVars, mgmt>>

(* Mutation: an expired process waits until the pair is reconciled. *)
ForcedExit_AfterReconciliation == proc = "expired" /\ ~marker /\ Vanish

ForcedExit == proc = "expired" /\ Vanish

Crash == proc # "down" /\ Vanish

-----------------------------------------------------------------------------
(* The controller under pair.lock: Stop, Restart, Start (controller.go).   *)

(* Mutation: management does not wait for pair.lock. *)
MgmtLock_Unlocked ==
    /\ mgmt = "none"
    /\ lock' = lock
    /\ mgmt' = "stopping"
    /\ UNCHANGED <<proc, busy, poison, marker, jobVars, client, rankVars>>

MgmtLock ==
    /\ lock = "free"
    /\ lock' = "mgmt"
    /\ \/ mgmt' = "stopping"
       \/ mgmt' = "launch0" /\ ~marker /\ \A k \in Rank : ~on[k]
    /\ UNCHANGED <<proc, busy, poison, marker, jobVars, client, rankVars>>

StopRank(k) ==
    /\ mgmt \in {"stopping", "cleanup"} /\ on[k]
    /\ on' = [on EXCEPT ![k] = FALSE]
    /\ gen' = [gen EXCEPT ![k] = NoReq]
    /\ log' = [log EXCEPT ![k] = {}]
    /\ UNCHANGED <<procVars, marker, jobVars, client, mgmt>>

(* Mutation: one inactive rank is taken as proof. *)
ProvenStopped_AnyRank == \E k \in Rank : ~on[k]

(* stopUnits proves every rank inactive before the marker is archived.     *)
ProvenStopped == \A k \in Rank : ~on[k]

StopProven ==
    /\ mgmt = "stopping" /\ ProvenStopped
    /\ mgmt' = "archiving"
    /\ UNCHANGED <<procVars, marker, jobVars, client, rankVars>>

ArchivePoison ==
    /\ mgmt = "archiving"
    /\ marker' = FALSE
    /\ mgmt' = "restarting"      \* Restart continues, Stop lets go
    /\ UNCHANGED <<procVars, jobVars, client, rankVars>>

(* start looks for a marker again: fail may have written one meanwhile.    *)
RestartPair ==
    /\ mgmt = "restarting" /\ ~marker /\ \A k \in Rank : ~on[k]
    /\ mgmt' = "launch0"
    /\ UNCHANGED <<procVars, marker, jobVars, client, rankVars>>

(* Rank 0 is launched first, rank 1 second, each with an empty past.       *)
StartRank(k) ==
    /\ mgmt = IF k = 0 THEN "launch0" ELSE "launch1"
    /\ on' = [on EXCEPT ![k] = TRUE]
    /\ log' = [log EXCEPT ![k] = {}]
    /\ mgmt' = IF k = 0 THEN "launch1" ELSE "launched"
    /\ UNCHANGED <<procVars, marker, jobVars, client, gen>>

StartFails ==
    /\ mgmt \in {"launch0", "launch1", "launched"}
    /\ mgmt' = "cleanup"
    /\ UNCHANGED <<procVars, marker, jobVars, client, rankVars>>

(* The lock is let go after success, after an error at any point, and by a *)
(* crash of the controller at any point.                                   *)
MgmtUnlock ==
    /\ lock = "mgmt"
    /\ lock' = "free"
    /\ mgmt' = "none"
    /\ UNCHANGED <<proc, busy, poison, marker, jobVars, client, rankVars>>

Manage ==
    \/ MgmtLock \/ StopProven \/ ArchivePoison \/ RestartPair \/ StartFails
    \/ MgmtUnlock
    \/ \E k \in Rank : StopRank(k) \/ StartRank(k)

-----------------------------------------------------------------------------
Next ==
    \/ \E r \in Req : Admit(r) \/ JobStep(r) \/ Respond(r) \/ Disconnect(r)
    \/ \E r \in Req, k \in Rank :
          \/ Dispatch(r, k)
          \/ CollectError(r, k)
          \/ \E o \in Outputs : CollectOutput(r, k, o)
    \/ \E k \in Rank : \/ \E x \in Outputs \cup {Bad} : GenEnd(k, x)
                       \/ RankExit(k)
    \/ Start \/ Signal \/ CleanExit \/ GraceExpires \/ ForcedExit \/ Crash
    \/ Manage

Spec == Init /\ [][Next]_vars

(* What the Go runtime and the process schedule owe: run and the handlers  *)
(* make progress, the generation deadline and the grace period fire, and a *)
(* process that has given up exits.  Ranks, clients and operators owe      *)
(* nothing.                                                                *)
Fairness ==
    /\ \A r \in Req : WF_vars(JobStep(r)) /\ WF_vars(Respond(r))
    /\ WF_vars(CleanExit) /\ WF_vars(GraceExpires) /\ WF_vars(ForcedExit)

FairSpec == Spec /\ Fairness

-----------------------------------------------------------------------------
TypeOK ==
    /\ proc \in {"down", "up", "draining", "expired"}
    /\ busy \in BOOLEAN /\ poison \in BOOLEAN /\ marker \in BOOLEAN
    /\ lock \in {"free", "pair", "mgmt"}
    /\ stage \in [Req -> Stages]
    /\ val \in [Req -> [Rank -> Outputs \cup {Err, Unsent, Sent}]]
    /\ err \in [Req -> BOOLEAN]
    /\ cleared \in [Req -> BOOLEAN]
    /\ client \in [Req -> ClientStates]
    /\ on \in [Rank -> BOOLEAN]
    /\ gen \in [Rank -> Req \cup {NoReq}]
    /\ log \in [Rank -> SUBSET (Req \X (Outputs \cup {Bad}))]
    /\ mgmt \in MgmtStates
    /\ lock = "mgmt" <=> mgmt # "none"
    /\ \A k \in Rank : gen[k] # NoReq => on[k]

(* A pair can be trusted when no rank is generating and, if both ranks     *)
(* run, they have completed exactly the same generations the same way.     *)
InSync ==
    /\ \A k \in Rank : gen[k] = NoReq
    /\ (\A k \in Rank : on[k]) => /\ log[0] = log[1]
                                  /\ \A e \in log[0] : e[2] # Bad

(* Safety: whenever the two ranks might disagree about their past, the     *)
(* durable marker says so -- across client disconnects, rank and process   *)
(* crashes, ignored marker write errors and controller runs cut short.     *)
(* (admit reserves before dispatch; fail; run clears last; archivePoison   *)
(* runs after the stop proof.)                                             *)
MarkedUnlessInSync == InSync \/ marker

(* Safety: an idle coordinator that believes its pair healthy has no       *)
(* marker on disk, so a restart of the process does not refuse a pair      *)
(* that is in order.  (run removes the marker before it goes idle.)        *)
HealthyIdleIsUnmarked == proc # "down" /\ ~poison /\ ~busy => ~marker

(* Safety: "no management operation can interrupt an in-flight generation  *)
(* silently" (controller.go): while a job is between admission and the     *)
(* release of the flock no other job is, and no controller is at work.     *)
GenerationExcludesManagement ==
    \A r \in Req : stage[r] \in InFlight =>
        /\ lock = "pair" /\ mgmt = "none"
        /\ \A q \in Req \ {r} : stage[q] \notin InFlight

(* Action property: the marker disappears only because an unpoisoned       *)
(* process saw both ranks agree, or because both ranks were off.           *)
RemovalIsJustified ==
    marker /\ ~marker' =>
         \/ /\ ~poison
            /\ \E r \in Req : /\ stage[r] = "drain"
                              /\ val[r][0] = val[r][1] /\ val[r][0] \in Outputs
         \/ \A k \in Rank : ~on[k]

MarkerRemovalJustified == [][RemovalIsJustified]_vars

(* Action property: a client is told "complete" only for a generation on   *)
(* which the two ranks agreed and whose marker was cleared, however the    *)
(* process was shut down and the pair managed meanwhile.  (run, ServeHTTP) *)
CompletionIsAgreed ==
    \A r \in Req : client[r] # "complete" /\ client'[r] = "complete" =>
         /\ val[r][0] = val[r][1] /\ val[r][0] \in Outputs
         /\ cleared[r]

CompleteMeansAgreed == [][CompletionIsAgreed]_vars

(* Action property: a generation is dispatched only to a pair whose ranks  *)
(* have the same past.                                                     *)
ReservationFindsSync ==
    \A r \in Req : stage[r] = "new" /\ stage'[r] = "drain" => InSync

AdmissionFindsPairInSync == [][ReservationFindsSync]_vars

(* Liveness: an admitted generation is over some day, whatever the ranks,  *)
(* the client and the controller do: the job frees the backend or dies     *)
(* with its process; and nobody waits for an answer for ever.              *)
RequestsEnd ==
    \A r \in Req : /\ stage[r] = "drain" ~> stage[r] \in {"done", "over"}
                   /\ client[r] = "waiting" ~> client[r] # "waiting"

(* Liveness: a coordinator told to stop is gone after the drain, or after  *)
(* the grace period.                                                       *)
ShutdownEnds == proc = "draining" ~> proc = "down"

(* Liveness: nothing is held for ever, neither by a request nor by a       *)
(* shutdown.                                                               *)
NothingIsHeld == RequestsEnd /\ ShutdownEnds

-----------------------------------------------------------------------------
(* The strengthening that makes the safety properties inductive.           *)

Active == InFlight \cup {"unlocked"}

(* A job that has not released the backend owns it alone.                  *)
JobsOwnTheBackend ==
    \A r \in Req :
        /\ stage[r] \in Active =>
              /\ proc # "down" /\ busy
              /\ \A q \in Req \ {r} : stage[q] \notin Active
        /\ stage[r] \in InFlight => lock = "pair"

(* An unpoisoned process has a marker on disk only for a job that has not  *)
(* decided yet, and such a job always has one.                             *)
MarkerHasAReason ==
    /\ proc # "down" /\ ~poison /\ marker =>
          \E r \in Req : stage[r] \in {"drain", "refail"}
    /\ \A r \in Req : stage[r] = "drain" => marker

(* What the controller has established while it holds pair.lock.           *)
ManagedRanks ==
    /\ mgmt \in {"archiving", "launch0"} => \A k \in Rank : ~on[k]
    /\ mgmt = "launch1" => ~on[1] /\ gen[0] = NoReq /\ log[0] = {}

(* While a job drains, the ranks differ at most in its own generation, and *)
(* each rank has generated for it at most once.                            *)
Others(r, k) == {e \in log[k] : e[1] # r}

InStepBut(r) ==
    (\A k \in Rank : on[k]) => /\ Others(r, 0) = Others(r, 1)
                               /\ \A e \in Others(r, 0) : e[2] # Bad

HistoryOf(r, k) ==
    /\ gen[k] \in {r, NoReq}
    /\ val[r][k] = Unsent \/ gen[k] = r => \A e \in log[k] : e[1] # r
    /\ val[r][k] = Unsent => gen[k] = NoReq
    /\ val[r][k] \in Outputs => <<r, val[r][k]>> \in log[k]
    /\ \A d, e \in log[k] : d[1] = r /\ e[1] = r => d = e

DrainingHistories ==
    \A r \in Req : stage[r] = "drain" =>
        InStepBut(r) /\ \A k \in Rank : HistoryOf(r, k)

(* A request that was never admitted has left no trace on any rank.        *)
NewRequestsLeaveNoTrace ==
    \A r \in Req :
        /\ client[r] = "new" => stage[r] = "new"
        /\ stage[r] = "new" =>
              \A k \in Rank : /\ gen[k] # r /\ val[r][k] = Unsent
                              /\ \A e \in log[k] : e[1] # r

Succeeded(r) == stage[r] \in {"finish", "unlocked", "done"} /\ ~err[r]

(* A job keeps the verdict on which it cleared its marker.                 *)
VerdictIsKept ==
    \A r \in Req :
        /\ stage[r] = "refail" => err[r]
        /\ (stage[r] = "publish" \/ Succeeded(r)) =>
              val[r][0] = val[r][1] /\ val[r][0] \in Outputs /\ cleared[r]

(* The conjunction is inductive: TLC checks that it holds, the proofs in   *)
(* PairedCoordinatorProofs that every action preserves it.                 *)
IndInv ==
    /\ TypeOK /\ JobsOwnTheBackend /\ MarkerHasAReason /\ ManagedRanks
    /\ DrainingHistories /\ NewRequestsLeaveNoTrace /\ VerdictIsKept
    /\ MarkedUnlessInSync

-----------------------------------------------------------------------------
(* The coordinator implements the lease of PairLease.  The marker is what  *)
(* the outside world can trust, so it decides the abstract mode: a marker  *)
(* with a job that may still clear it is a lease, any other is distrust.   *)
Leasing(r) == stage[r] = "drain" /\ ~poison

LeaseMode == IF ~marker THEN "free"
             ELSE IF \E r \in Req : Leasing(r) THEN "leased"
             ELSE "distrusted"
LeaseHolder == IF marker /\ \E r \in Req : Leasing(r)
               THEN CHOOSE r \in Req : Leasing(r) ELSE NoReq
Certified == {r \in Req : cleared[r]}
Answered == {r \in Req : client[r] = "complete"}

Lease == INSTANCE PairLease WITH
    mode <- LeaseMode, holder <- LeaseHolder,
    certified <- Certified, answered <- Answered

ImplementsLease == Lease!LeaseSpec
=============================================================================
