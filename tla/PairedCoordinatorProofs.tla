---------------------- MODULE PairedCoordinatorProofs ----------------------
(***************************************************************************)
(* Proofs about the paired coordinator, for any set of requests and any    *)
(* set of outputs.  IndInv (in PairedCoordinator) is inductive: Init       *)
(* implies it (InitInv), and every step preserves each of its conjuncts    *)
(* (one lemma per conjunct: TypeStep, OwnershipStep, MarkerStep,           *)
(* ManagementStep, DrainStep, NewRequestStep, VerdictStep, MarkedStep).    *)
(* The safety properties follow from it, and so does, step by step, the    *)
(* refinement of PairLease.                                                *)
(***************************************************************************)
EXTENDS PairedCoordinator, TLAPS

(* The types, that the lock word names its holder, and that only a running *)
(* rank generates (all actions).                                           *)
LEMMA TypeStep == IndInv /\ [Next]_vars => TypeOK'
<1> SUFFICES ASSUME IndInv, [Next]_vars PROVE TypeOK'
    OBVIOUS
<1> USE DEF IndInv, TypeOK, procVars, jobVars, rankVars, Rank, Stages,
            ClientStates, MgmtStates, Fail
<1>1. ASSUME NEW r \in Req, Admit(r) PROVE TypeOK'
    BY <1>1 DEF Admit, Refuse, ReserveFails, Reserve, MayReserve
<1>2. ASSUME NEW r \in Req, JobStep(r) PROVE TypeOK'
    BY <1>2 DEF JobStep, Deadline, Disagree, ClearRefused, Clear, Refail, Publish, Finish, Release, JobsOwnTheBackend, InFlight
<1>3. ASSUME NEW r \in Req, Respond(r) \/ Disconnect(r) PROVE TypeOK'
    BY <1>3 DEF Respond, Disconnect
<1>4. ASSUME NEW r \in Req, NEW k \in Rank, Dispatch(r, k) PROVE TypeOK'
    BY <1>4 DEF Dispatch
<1>5. ASSUME NEW r \in Req, NEW k \in Rank, CollectError(r, k) PROVE TypeOK'
    BY <1>5 DEF CollectError
<1>6. ASSUME NEW r \in Req, NEW k \in Rank, NEW o \in Outputs, CollectOutput(r, k, o) PROVE TypeOK'
    BY <1>6 DEF CollectOutput
<1>7. ASSUME NEW k \in Rank, NEW x \in Outputs \cup {Bad}, GenEnd(k, x) PROVE TypeOK'
    BY <1>7 DEF GenEnd
<1>8. ASSUME NEW k \in Rank, RankExit(k) PROVE TypeOK'
  <2>1. log' \in [Rank -> SUBSET (Req \X (Outputs \cup {Bad}))]
    BY <1>8 DEF RankExit
  <2>2. on' \in [Rank -> BOOLEAN] /\ gen' \in [Rank -> Req \cup {NoReq}]
    BY <1>8 DEF RankExit
  <2>3. \A j \in Rank : gen'[j] # NoReq => on'[j]
    BY <1>8 DEF RankExit
  <2>4. QED
    BY <1>8, <2>1, <2>2, <2>3 DEF RankExit
<1>9. CASE Start \/ Signal \/ GraceExpires
  <2>1. CASE Start
    <3>1. poison' \in BOOLEAN
      BY <2>1, Zenon DEF Start
    <3>2. QED
      BY <2>1, <3>1 DEF Start
  <2>2. CASE Signal
    BY <2>2 DEF Signal
  <2>3. CASE GraceExpires
    BY <2>3 DEF GraceExpires
  <2>4. QED
    BY <1>9, <2>1, <2>2, <2>3
<1>10. CASE CleanExit \/ ForcedExit \/ Crash
  <2>1. Vanish
    BY <1>10 DEF CleanExit, ForcedExit, Crash
  <2>2. /\ stage' \in [Req -> Stages] /\ client' \in [Req -> ClientStates]
        /\ val' \in [Req -> [Rank -> Outputs \cup {Err, Unsent, Sent}]]
    BY <2>1 DEF Vanish
  <2>3. err' \in [Req -> BOOLEAN]
    BY <2>1 DEF Vanish
  <2>4. QED
    BY <2>1, <2>2, <2>3 DEF Vanish
<1>11. CASE Manage
  <2>1. CASE StopProven \/ RestartPair \/ StartFails
    BY <2>1 DEF StopProven, RestartPair, StartFails
  <2>7. CASE ArchivePoison
    BY <2>7 DEF ArchivePoison
  <2>5. CASE MgmtLock
    BY <2>5 DEF MgmtLock
  <2>6. CASE MgmtUnlock
    BY <2>6 DEF MgmtUnlock
  <2>2. ASSUME NEW k \in Rank, StopRank(k) PROVE TypeOK'
    BY <2>2 DEF StopRank
  <2>3. ASSUME NEW k \in Rank, StartRank(k) PROVE TypeOK'
    BY <2>3 DEF StartRank
  <2>4. QED
    BY <1>11, <2>1, <2>2, <2>3, <2>5, <2>6, <2>7 DEF Manage
<1>12. CASE UNCHANGED vars
    BY <1>12 DEF vars
<1>13. QED
    BY <1>1, <1>2, <1>3, <1>4, <1>5, <1>6, <1>7, <1>8, <1>9, <1>10, <1>11, <1>12 DEF Next

-----------------------------------------------------------------------------
(* What a call of fail leaves behind, whatever became of its write.        *)
LEMMA FailPoisons ==
    ASSUME marker \in BOOLEAN, Fail
    PROVE  poison' = TRUE /\ (marker = TRUE => marker' = TRUE)
BY DEF Fail

-----------------------------------------------------------------------------
(* A job owns the backend alone, across every action that moves a job, the *)
(* process or the lock.                                                    *)
LEMMA OwnershipStep == IndInv /\ [Next]_vars => JobsOwnTheBackend'
<1> SUFFICES ASSUME IndInv, [Next]_vars PROVE JobsOwnTheBackend'
    OBVIOUS
<1> USE DEF IndInv, TypeOK, JobsOwnTheBackend, Active, InFlight
<1>1. CASE UNCHANGED <<stage, proc, busy, lock>>
    BY <1>1
<1>2. ASSUME NEW r \in Req, Reserve(r) PROVE JobsOwnTheBackend'
    BY <1>2 DEF Reserve, MayReserve
<1>3. ASSUME NEW r \in Req, JobStep(r) PROVE JobsOwnTheBackend'
    BY <1>3 DEF JobStep, Deadline, Disagree, ClearRefused, Clear, Refail,
                Publish, Finish, Release, procVars
<1>4. CASE Start \/ Signal \/ GraceExpires
    BY <1>4 DEF Start, Signal, GraceExpires, jobVars
<1>5. CASE CleanExit \/ ForcedExit \/ Crash
    BY <1>5 DEF CleanExit, ForcedExit, Crash, Vanish, Stages
<1>6. CASE MgmtLock \/ MgmtUnlock
    BY <1>6 DEF MgmtLock, MgmtUnlock, jobVars
<1>7. QED
  <2>1. ASSUME NEW r \in Req, Admit(r) \/ Respond(r) \/ Disconnect(r)
        PROVE Reserve(r) \/ UNCHANGED <<stage, proc, busy, lock>>
    BY <2>1 DEF Admit, Refuse, ReserveFails, Respond, Disconnect, procVars,
                jobVars
  <2>2. ASSUME NEW r \in Req, NEW k \in Rank,
               \/ Dispatch(r, k) \/ CollectError(r, k)
               \/ \E o \in Outputs : CollectOutput(r, k, o)
        PROVE UNCHANGED <<stage, proc, busy, lock>>
    BY <2>2 DEF Dispatch, CollectError, CollectOutput, procVars
  <2>3. ASSUME NEW k \in Rank,
               \/ \E x \in Outputs \cup {Bad} : GenEnd(k, x)
               \/ RankExit(k)
        PROVE UNCHANGED <<stage, proc, busy, lock>>
    BY <2>3 DEF GenEnd, RankExit, procVars, jobVars
  <2>4. ASSUME Manage
        PROVE \/ MgmtLock \/ MgmtUnlock
              \/ UNCHANGED <<stage, proc, busy, lock>>
    BY <2>4 DEF Manage, StopProven, ArchivePoison, RestartPair, StartFails,
                StopRank, StartRank, procVars, jobVars
  <2>5. QED
    BY <1>1, <1>2, <1>3, <1>4, <1>5, <1>6, <2>1, <2>2, <2>3, <2>4
       DEF Next, vars

(* A marker beside a process that trusts its pair is owed to a job that    *)
(* has not decided yet (admit, run, fail, archivePoison).                  *)
LEMMA MarkerStep == IndInv /\ [Next]_vars => MarkerHasAReason'
<1> SUFFICES ASSUME IndInv, [Next]_vars PROVE MarkerHasAReason'
    OBVIOUS
<1> USE DEF IndInv, TypeOK, MarkerHasAReason
<1>1. CASE UNCHANGED <<stage, proc, poison, marker>>
    BY <1>1
<1>2. ASSUME NEW r \in Req, Admit(r) PROVE MarkerHasAReason'
  <2>1. CASE Refuse(r)
    BY <2>1 DEF Refuse, procVars, jobVars
  <2>2. CASE ReserveFails(r)
    <3>1. poison' = TRUE /\ (marker = TRUE => marker' = TRUE)
      BY <2>2 DEF ReserveFails
    <3>2. QED
      BY <2>2, <3>1 DEF ReserveFails, jobVars
  <2>3. CASE Reserve(r)
    BY <2>3 DEF Reserve, MayReserve
  <2>4. QED
    BY <1>2, <2>1, <2>2, <2>3 DEF Admit
<1>3. ASSUME NEW r \in Req, JobStep(r) PROVE MarkerHasAReason'
  <2>1. \A q \in Req \ {r} : stage[q] \notin {"drain", "refail"}
    BY <1>3 DEF JobStep, Deadline, Disagree, ClearRefused, Clear, Refail,
                Publish, Finish, Release, JobsOwnTheBackend, Active, InFlight
  <2>2. CASE Deadline(r) \/ Disagree(r) \/ Refail(r)
    BY <2>1, <2>2, FailPoisons DEF Deadline, Disagree, Refail
  <2>3. CASE ClearRefused(r) \/ Clear(r)
    BY <2>1, <2>3 DEF ClearRefused, Clear, procVars
  <2>4. CASE Publish(r) \/ Finish(r) \/ Release(r)
    BY <2>1, <2>4 DEF Publish, Finish, Release, procVars
  <2>5. QED
    BY <1>3, <2>2, <2>3, <2>4 DEF JobStep
<1>4. CASE Start \/ Signal \/ GraceExpires
  <2>1. CASE Start
    <3>1. poison' = marker
      BY <2>1, Zenon DEF Start
    <3>2. QED
      BY <2>1, <3>1 DEF Start, jobVars
  <2>2. CASE Signal
    BY <2>2 DEF Signal, jobVars
  <2>3. CASE GraceExpires
    <3>1. poison' = TRUE /\ (marker = TRUE => marker' = TRUE)
      BY <2>3, FailPoisons DEF GraceExpires
    <3>2. QED
      BY <2>3, <3>1 DEF GraceExpires, jobVars
  <2>4. QED
    BY <1>4, <2>1, <2>2, <2>3
<1>5. CASE CleanExit \/ ForcedExit \/ Crash
    BY <1>5 DEF CleanExit, ForcedExit, Crash, Vanish, Stages
<1>6. CASE ArchivePoison
    BY <1>6 DEF ArchivePoison, procVars, jobVars, JobsOwnTheBackend, InFlight
<1>7. ASSUME NEW r \in Req, NEW k \in Rank, CollectError(r, k)
      PROVE MarkerHasAReason'
  <2>1. poison' = TRUE /\ (marker = TRUE => marker' = TRUE)
    BY <1>7, FailPoisons DEF CollectError
  <2>2. QED
    BY <1>7, <2>1 DEF CollectError
<1>8. QED
  <2>1. ASSUME NEW r \in Req, Respond(r) \/ Disconnect(r)
        PROVE UNCHANGED <<stage, proc, poison, marker>>
    BY <2>1 DEF Respond, Disconnect, procVars, jobVars
  <2>2. ASSUME NEW r \in Req, NEW k \in Rank,
               \/ Dispatch(r, k)
               \/ \E o \in Outputs : CollectOutput(r, k, o)
        PROVE UNCHANGED <<stage, proc, poison, marker>>
    BY <2>2 DEF Dispatch, CollectOutput, procVars
  <2>3. ASSUME NEW k \in Rank,
               \/ \E x \in Outputs \cup {Bad} : GenEnd(k, x)
               \/ RankExit(k)
        PROVE UNCHANGED <<stage, proc, poison, marker>>
    BY <2>3 DEF GenEnd, RankExit, procVars, jobVars
  <2>4. ASSUME Manage
        PROVE ArchivePoison \/ UNCHANGED <<stage, proc, poison, marker>>
    BY <2>4 DEF Manage, MgmtLock, MgmtUnlock, StopProven, RestartPair,
                StartFails, StopRank, StartRank, procVars, jobVars
  <2>5. QED
    BY <1>1, <1>2, <1>3, <1>4, <1>5, <1>6, <1>7, <2>1, <2>2, <2>3, <2>4
       DEF Next, vars

-----------------------------------------------------------------------------
(* The controller's knowledge of the ranks survives everybody else's       *)
(* steps: nobody dispatches to a rank while pair.lock is the controller's. *)
LEMMA ManagementStep == IndInv /\ [Next]_vars => ManagedRanks'
<1> SUFFICES ASSUME IndInv, [Next]_vars PROVE ManagedRanks'
    OBVIOUS
<1> USE DEF IndInv, TypeOK, ManagedRanks, Rank
<1>1. CASE UNCHANGED <<rankVars, mgmt>>
    BY <1>1 DEF rankVars
<1>2. ASSUME NEW r \in Req, NEW k \in Rank, Dispatch(r, k)
      PROVE ManagedRanks'
  <2>1. mgmt = "none"
    BY <1>2 DEF Dispatch, JobsOwnTheBackend, InFlight
  <2>2. QED
    BY <1>2, <2>1 DEF Dispatch
<1>3. ASSUME NEW k \in Rank, NEW x \in Outputs \cup {Bad}, GenEnd(k, x)
      PROVE ManagedRanks'
    BY <1>3 DEF GenEnd
<1>4. ASSUME NEW k \in Rank, RankExit(k) PROVE ManagedRanks'
    BY <1>4 DEF RankExit
<1>5. CASE MgmtLock \/ StopProven \/ ArchivePoison \/ RestartPair
           \/ StartFails \/ MgmtUnlock
    BY <1>5 DEF MgmtLock, StopProven, ProvenStopped, ArchivePoison,
                RestartPair, StartFails, MgmtUnlock, rankVars, MgmtStates
<1>6. ASSUME NEW k \in Rank, StopRank(k) PROVE ManagedRanks'
    BY <1>6 DEF StopRank
<1>7. ASSUME NEW k \in Rank, StartRank(k) PROVE ManagedRanks'
    BY <1>7 DEF StartRank
<1>8. QED
  <2> HIDE DEF IndInv, TypeOK, ManagedRanks, Rank
  <2>1. ASSUME NEW r \in Req,
               Admit(r) \/ JobStep(r) \/ Respond(r) \/ Disconnect(r)
        PROVE UNCHANGED <<rankVars, mgmt>>
    BY <2>1 DEF Admit, Refuse, ReserveFails, Reserve, JobStep, Deadline,
                Disagree, ClearRefused, Clear, Refail, Publish, Finish,
                Release, Respond, Disconnect
  <2>2. ASSUME NEW r \in Req, NEW k \in Rank,
               \/ CollectError(r, k)
               \/ \E o \in Outputs : CollectOutput(r, k, o)
        PROVE UNCHANGED <<rankVars, mgmt>>
    BY <2>2 DEF CollectError, CollectOutput
  <2>3. ASSUME \/ Start \/ Signal \/ CleanExit \/ GraceExpires
               \/ ForcedExit \/ Crash
        PROVE UNCHANGED <<rankVars, mgmt>>
    BY <2>3 DEF Start, Signal, CleanExit, GraceExpires, ForcedExit, Crash,
                Vanish
  <2>4. QED
    BY <1>1, <1>2, <1>3, <1>4, <1>5, <1>6, <1>7, <2>1, <2>2, <2>3
       DEF Next, vars, Manage, rankVars

-----------------------------------------------------------------------------
(* A request that was never admitted stays unknown to the ranks.           *)
LEMMA NewRequestStep == IndInv /\ [Next]_vars => NewRequestsLeaveNoTrace'
<1> SUFFICES ASSUME IndInv, [Next]_vars PROVE NewRequestsLeaveNoTrace'
    OBVIOUS
<1> USE DEF IndInv, TypeOK, NewRequestsLeaveNoTrace, Rank
<1>1. CASE /\ UNCHANGED <<stage, val, gen, log>>
           /\ \A r \in Req : client'[r] = "new" => client[r] = "new"
    BY <1>1
<1>2. ASSUME NEW r \in Req, Reserve(r) PROVE NewRequestsLeaveNoTrace'
    BY <1>2 DEF Reserve, rankVars
<1>3. ASSUME NEW r \in Req, JobStep(r) PROVE NewRequestsLeaveNoTrace'
    BY <1>3 DEF JobStep, Deadline, Disagree, ClearRefused, Clear, Refail,
                Publish, Finish, Release, rankVars
<1>4. ASSUME NEW r \in Req, NEW k \in Rank,
             \/ Dispatch(r, k) \/ CollectError(r, k)
             \/ \E o \in Outputs : CollectOutput(r, k, o)
      PROVE NewRequestsLeaveNoTrace'
  <2>1. /\ stage[r] = "drain" /\ UNCHANGED <<stage, log, client>>
        /\ gen' \in {gen, [gen EXCEPT ![k] = r]}
    BY <1>4 DEF Dispatch, CollectError, CollectOutput, rankVars
  <2>2. \E w : val' = [val EXCEPT ![r][k] = w]
    BY <1>4 DEF Dispatch, CollectError, CollectOutput
  <2>3. \A q \in Req \ {r} : val'[q] = val[q]
    BY <2>2
  <2>4. \A q \in Req \ {r} : \A j \in Rank : gen[j] # q => gen'[j] # q
    BY <2>1
  <2>5. QED
    BY <2>1, <2>3, <2>4
<1>5. ASSUME NEW k \in Rank, NEW x \in Outputs \cup {Bad}, GenEnd(k, x)
      PROVE NewRequestsLeaveNoTrace'
  <2>1. log'[k] = log[k] \cup {<<gen[k], x>>} /\ gen'[k] = NoReq
    BY <1>5 DEF GenEnd
  <2>2. \A j \in Rank \ {k} : log'[j] = log[j] /\ gen'[j] = gen[j]
    BY <1>5 DEF GenEnd
  <2>3. UNCHANGED <<stage, val, client>>
    BY <1>5 DEF GenEnd, jobVars
  <2>4. QED
    BY <2>1, <2>2, <2>3, NoReqAssumption
<1>6. ASSUME NEW k \in Rank, RankExit(k) \/ StopRank(k) \/ StartRank(k)
      PROVE NewRequestsLeaveNoTrace'
    BY <1>6, NoReqAssumption DEF RankExit, StopRank, StartRank, jobVars
<1>7. CASE CleanExit \/ ForcedExit \/ Crash
    BY <1>7 DEF CleanExit, ForcedExit, Crash, Vanish, rankVars
<1>8. QED
  <2>1. ASSUME NEW r \in Req,
               Refuse(r) \/ ReserveFails(r) \/ Respond(r) \/ Disconnect(r)
        PROVE /\ UNCHANGED <<stage, val, gen, log>>
              /\ \A q \in Req : client'[q] = "new" => client[q] = "new"
    BY <2>1 DEF Refuse, ReserveFails, Respond, Disconnect, jobVars, rankVars
  <2>2. ASSUME Start \/ Signal \/ GraceExpires
        PROVE UNCHANGED <<stage, val, gen, log, client>>
    BY <2>2 DEF Start, Signal, GraceExpires, jobVars, rankVars
  <2>3. ASSUME \/ MgmtLock \/ StopProven \/ ArchivePoison \/ RestartPair
               \/ StartFails \/ MgmtUnlock
        PROVE UNCHANGED <<stage, val, gen, log, client>>
    BY <2>3 DEF MgmtLock, StopProven, ArchivePoison, RestartPair, StartFails,
                MgmtUnlock, jobVars, rankVars
  <2> HIDE DEF IndInv, TypeOK, NewRequestsLeaveNoTrace, Rank
  <2>4. QED
    BY <1>1, <1>2, <1>3, <1>4, <1>5, <1>6, <1>7, <2>1, <2>2, <2>3
       DEF Next, vars, Manage, Admit

-----------------------------------------------------------------------------
(* The verdict of a job survives until its client is answered.             *)
LEMMA VerdictStep == IndInv /\ [Next]_vars => VerdictIsKept'
<1> SUFFICES ASSUME IndInv, [Next]_vars PROVE VerdictIsKept'
    OBVIOUS
<1> USE DEF IndInv, TypeOK, VerdictIsKept, Succeeded, Rank
<1>1. CASE UNCHANGED jobVars
    BY <1>1 DEF jobVars
<1>2. ASSUME NEW r \in Req, Reserve(r) PROVE VerdictIsKept'
    BY <1>2 DEF Reserve
<1>3. ASSUME NEW r \in Req, JobStep(r) PROVE VerdictIsKept'
  <2>1. CASE Deadline(r) \/ Disagree(r) \/ ClearRefused(r)
    BY <2>1 DEF Deadline, Disagree, ClearRefused
  <2>2. CASE Clear(r)
    BY <2>2 DEF Clear, Agreed
  <2>3. CASE Refail(r) \/ Publish(r) \/ Finish(r) \/ Release(r)
    BY <2>3 DEF Refail, Publish, Finish, Release
  <2>4. QED
    BY <1>3, <2>1, <2>2, <2>3 DEF JobStep
<1>4. ASSUME NEW r \in Req, NEW k \in Rank,
             \/ Dispatch(r, k) \/ CollectError(r, k)
             \/ \E o \in Outputs : CollectOutput(r, k, o)
      PROVE VerdictIsKept'
  <2>1. /\ stage[r] = "drain" /\ UNCHANGED <<stage, err, cleared>>
    BY <1>4 DEF Dispatch, CollectError, CollectOutput
  <2>2. \E w : val' = [val EXCEPT ![r][k] = w]
    BY <1>4 DEF Dispatch, CollectError, CollectOutput
  <2>3. \A q \in Req \ {r} : val'[q] = val[q]
    BY <2>2
  <2>4. QED
    BY <2>1, <2>3
<1>5. CASE CleanExit \/ ForcedExit \/ Crash
    BY <1>5 DEF CleanExit, ForcedExit, Crash, Vanish
<1>6. QED
  <2> HIDE DEF IndInv, TypeOK, VerdictIsKept, Succeeded, Rank
  <2>1. ASSUME NEW r \in Req, Admit(r) \/ Respond(r) \/ Disconnect(r)
        PROVE Reserve(r) \/ UNCHANGED jobVars
    BY <2>1 DEF Admit, Refuse, ReserveFails, Respond, Disconnect
  <2>2. ASSUME NEW k \in Rank,
               \/ \E x \in Outputs \cup {Bad} : GenEnd(k, x)
               \/ RankExit(k)
        PROVE UNCHANGED jobVars
    BY <2>2 DEF GenEnd, RankExit
  <2>3. ASSUME Start \/ Signal \/ GraceExpires PROVE UNCHANGED jobVars
    BY <2>3 DEF Start, Signal, GraceExpires
  <2>4. ASSUME Manage PROVE UNCHANGED jobVars
    BY <2>4 DEF Manage, MgmtLock, StopProven, ArchivePoison, RestartPair,
                StartFails, MgmtUnlock, StopRank, StartRank
  <2>5. QED
    BY <1>1, <1>2, <1>3, <1>4, <1>5, <2>1, <2>2, <2>3, <2>4
       DEF Next, vars, jobVars

-----------------------------------------------------------------------------
(* What the histories of the ranks say when a drained job finds its two    *)
(* outputs equal: the ranks are in sync, so the marker may go.             *)
LEMMA AgreementMeansSync ==
    ASSUME IndInv, NEW r \in Req, stage[r] = "drain", Agreed(r)
    PROVE  InSync
<1> USE DEF IndInv, TypeOK, Agreed, Rank
<1> DEFINE o == val[r][0]
<1>1. o \in Outputs /\ val[r][1] = o
    OBVIOUS
<1>2. o # Bad /\ o # Unsent
    BY <1>1, OutputsAssumption
<1>3. \A k \in Rank : <<r, o>> \in log[k] /\ gen[k] = NoReq
    BY <1>1, <1>2 DEF DrainingHistories, HistoryOf
<1>4. ASSUME \A k \in Rank : on[k]
      PROVE log[0] = log[1] /\ \A e \in log[0] : e[2] # Bad
  <2>1. Others(r, 0) = Others(r, 1) /\ \A e \in Others(r, 0) : e[2] # Bad
    BY <1>4 DEF DrainingHistories, InStepBut
  <2>2. \A k \in Rank : \A e \in log[k] : e[1] = r => e = <<r, o>>
    BY <1>3 DEF DrainingHistories, HistoryOf
  <2>3. log[0] = Others(r, 0) \cup {<<r, o>>}
    BY <1>3, <2>2 DEF Others
  <2>4. log[1] = Others(r, 1) \cup {<<r, o>>}
    BY <1>3, <2>2 DEF Others
  <2>5. QED
    BY <2>1, <2>3, <2>4, <1>2
<1>5. QED
    BY <1>3, <1>4 DEF InSync

(* The main invariant: only a generation in progress, which has its marker *)
(* already, can take the ranks out of step; only agreement or a stopped    *)
(* pair lets the marker go.                                                *)
LEMMA MarkedStep == IndInv /\ [Next]_vars => MarkedUnlessInSync'
<1> SUFFICES ASSUME IndInv, [Next]_vars PROVE MarkedUnlessInSync'
    OBVIOUS
<1> USE DEF IndInv, TypeOK, MarkedUnlessInSync, InSync, Rank
<1>1. CASE UNCHANGED rankVars /\ (marker = TRUE => marker' = TRUE)
    BY <1>1 DEF rankVars
<1>2. ASSUME NEW r \in Req, NEW k \in Rank, Dispatch(r, k)
      PROVE MarkedUnlessInSync'
    BY <1>2 DEF Dispatch, MarkerHasAReason
<1>3. ASSUME NEW k \in Rank, NEW x \in Outputs \cup {Bad}, GenEnd(k, x)
      PROVE MarkedUnlessInSync'
    BY <1>3 DEF GenEnd
<1>4. ASSUME NEW k \in Rank, RankExit(k) \/ StopRank(k)
      PROVE MarkedUnlessInSync'
    BY <1>4 DEF RankExit, StopRank
<1>5. ASSUME NEW k \in Rank, StartRank(k) PROVE MarkedUnlessInSync'
    BY <1>5 DEF StartRank, ManagedRanks
<1>6. ASSUME NEW r \in Req, Clear(r) PROVE MarkedUnlessInSync'
  <2>1. InSync
    BY <1>6, AgreementMeansSync DEF Clear
  <2>2. QED
    BY <1>6, <2>1 DEF Clear, rankVars
<1>7. CASE ArchivePoison
    BY <1>7 DEF ArchivePoison, ManagedRanks, rankVars
<1>8. QED
  <2> DEFINE Quiet == UNCHANGED rankVars /\ (marker = TRUE => marker' = TRUE)
  <2>1. ASSUME NEW r \in Req, Admit(r) \/ Respond(r) \/ Disconnect(r)
        PROVE Quiet
    BY <2>1 DEF Admit, Refuse, ReserveFails, Reserve, Respond, Disconnect
  <2>2. ASSUME NEW r \in Req, JobStep(r) PROVE Quiet \/ Clear(r)
    BY <2>2, FailPoisons DEF JobStep, Deadline, Disagree, ClearRefused,
       Refail, Publish, Finish, Release, procVars
  <2>3. ASSUME NEW r \in Req, NEW k \in Rank,
               \/ CollectError(r, k)
               \/ \E o \in Outputs : CollectOutput(r, k, o)
        PROVE Quiet
    BY <2>3, FailPoisons DEF CollectError, CollectOutput
  <2>4. ASSUME \/ Start \/ Signal \/ CleanExit \/ GraceExpires
               \/ ForcedExit \/ Crash
        PROVE Quiet
    BY <2>4, FailPoisons DEF Start, Signal, CleanExit, GraceExpires,
       ForcedExit, Crash, Vanish
  <2>5. ASSUME \/ MgmtLock \/ StopProven \/ RestartPair \/ StartFails
               \/ MgmtUnlock
        PROVE Quiet
    BY <2>5 DEF MgmtLock, StopProven, RestartPair, StartFails, MgmtUnlock,
       procVars
  <2>6. CASE UNCHANGED vars
    BY <2>6 DEF vars, rankVars
  <2> HIDE DEF IndInv, TypeOK, MarkedUnlessInSync, InSync, Rank
  <2>7. QED
    BY <1>1, <1>2, <1>3, <1>4, <1>5, <1>6, <1>7, <2>1, <2>2, <2>3, <2>4,
       <2>5, <2>6 DEF Next, Manage

-----------------------------------------------------------------------------
(* While a job drains, the histories of the ranks differ in it at most.    *)
LEMMA DrainStep == IndInv /\ [Next]_vars => DrainingHistories'
<1> SUFFICES ASSUME IndInv, [Next]_vars PROVE DrainingHistories'
    OBVIOUS
<1> USE DEF IndInv, TypeOK, Rank
<1>0. /\ NoReq \notin Req
      /\ Unsent \notin Outputs /\ Sent \notin Outputs /\ Err \notin Outputs
      /\ Unsent # Sent /\ Unsent # Err
    BY NoReqAssumption, OutputsAssumption DEF Unsent, Sent, Err
<1>1. CASE /\ UNCHANGED <<val, rankVars>>
           /\ \A q \in Req : stage'[q] = "drain" => stage[q] = "drain"
    BY <1>1 DEF rankVars, DrainingHistories, InStepBut, HistoryOf, Others
<1>2. ASSUME NEW r \in Req, Reserve(r) PROVE DrainingHistories'
  <2>1. \A q \in Req : stage'[q] = "drain" => q = r
    BY <1>2 DEF Reserve, MayReserve, JobsOwnTheBackend, InFlight
  <2>2. UNCHANGED <<val, gen, log, on>> /\ InSync /\ stage[r] = "new"
    BY <1>2 DEF Reserve, MarkedUnlessInSync, rankVars, NewRequestsLeaveNoTrace
  <2>6. \A k \in Rank : val[r][k] = Unsent /\ \A e \in log[k] : e[1] # r
    BY <2>2 DEF NewRequestsLeaveNoTrace
  <2>3. InStepBut(r)'
    BY <2>2 DEF InStepBut, InSync, Others
  <2>4. \A k \in Rank : HistoryOf(r, k)'
    BY <1>0, <2>2, <2>6 DEF HistoryOf, InSync
  <2>5. QED
    BY <2>1, <2>3, <2>4 DEF DrainingHistories
<1>3. ASSUME NEW r \in Req, NEW k \in Rank, NEW w,
             /\ stage[r] = "drain" /\ UNCHANGED <<stage, on, log>>
             /\ val' = [val EXCEPT ![r][k] = w]
             /\ \/ w = Sent /\ val[r][k] = Unsent /\ gen' = gen
                \/ w = Sent /\ val[r][k] = Unsent
                   /\ gen' = [gen EXCEPT ![k] = r]
                \/ w = Err /\ gen' = gen
                \/ w \in Outputs /\ <<r, w>> \in log[k] /\ gen' = gen
      PROVE DrainingHistories'
  <2>1. \A q \in Req : stage'[q] = "drain" => q = r
    BY <1>3 DEF JobsOwnTheBackend, Active, InFlight
  <2>2. InStepBut(r)'
    BY <1>3 DEF DrainingHistories, InStepBut, Others
  <2>3. val'[r][k] = w /\ \A j \in Rank \ {k} : val'[r][j] = val[r][j]
    BY <1>3
  <2>4. \A j \in Rank : HistoryOf(r, j)
    BY <1>3 DEF DrainingHistories
  <2>8. \A j \in Rank \ {k} : gen'[j] = gen[j] /\ log'[j] = log[j]
    BY <1>3
  <2>5. \A j \in Rank \ {k} : HistoryOf(r, j)'
    BY <2>3, <2>4, <2>8, SMTT(40) DEF HistoryOf
  <2>6. HistoryOf(r, k)'
    BY <1>0, <1>3, <2>3, <2>4, SMTT(40) DEF HistoryOf
  <2>7. QED
    BY <2>1, <2>2, <2>5, <2>6 DEF DrainingHistories
<1>4. ASSUME NEW r \in Req, NEW k \in Rank,
             \/ Dispatch(r, k) \/ CollectError(r, k)
             \/ \E o \in Outputs : CollectOutput(r, k, o)
      PROVE DrainingHistories'
  <2>1. CASE Dispatch(r, k)
    BY <1>3, <2>1 DEF Dispatch
  <2>2. CASE CollectError(r, k)
    BY <1>3, <2>2 DEF CollectError, rankVars
  <2>3. ASSUME NEW o \in Outputs, CollectOutput(r, k, o)
        PROVE DrainingHistories'
    BY <1>3, <2>3 DEF CollectOutput, rankVars
  <2>4. QED
    BY <1>4, <2>1, <2>2, <2>3
<1>5. ASSUME NEW k \in Rank, NEW x \in Outputs \cup {Bad}, GenEnd(k, x)
      PROVE DrainingHistories'
  <2> SUFFICES ASSUME NEW r \in Req, stage[r] = "drain"
               PROVE  InStepBut(r)' /\ \A j \in Rank : HistoryOf(r, j)'
    BY <1>5 DEF GenEnd, jobVars, DrainingHistories
  <2>1. InStepBut(r) /\ \A j \in Rank : HistoryOf(r, j)
    BY DEF DrainingHistories
  <2>2. gen[k] = r
    BY <1>5, <2>1 DEF GenEnd, HistoryOf
  <2>3. /\ UNCHANGED <<val, on>>
        /\ gen'[k] = NoReq /\ log'[k] = log[k] \cup {<<r, x>>}
        /\ \A j \in Rank \ {k} : gen'[j] = gen[j] /\ log'[j] = log[j]
    BY <1>5, <2>2 DEF GenEnd, jobVars
  <2>4. \A j \in Rank : Others(r, j)' = Others(r, j)
    BY <2>3 DEF Others
  <2>5. InStepBut(r)'
    BY <2>1, <2>3, <2>4 DEF InStepBut
  <2>6. HistoryOf(r, k)'
    BY <1>0, <2>1, <2>2, <2>3 DEF HistoryOf
  <2>7. \A j \in Rank \ {k} : HistoryOf(r, j)'
    BY <2>1, <2>3, SMTT(40) DEF HistoryOf
  <2>8. QED
    BY <2>5, <2>6, <2>7
<1>6. ASSUME NEW k \in Rank, RankExit(k) PROVE DrainingHistories'
  <2> SUFFICES ASSUME NEW r \in Req, stage[r] = "drain"
               PROVE  InStepBut(r)' /\ \A j \in Rank : HistoryOf(r, j)'
    BY <1>6 DEF RankExit, jobVars, DrainingHistories
  <2>1. InStepBut(r)'
    BY <1>6 DEF RankExit, InStepBut
  <2>2. /\ UNCHANGED <<val>> /\ gen'[k] = NoReq
        /\ log'[k] = {e \in log[k] : stage[e[1]] = "drain"}
        /\ \A j \in Rank \ {k} : gen'[j] = gen[j] /\ log'[j] = log[j]
    BY <1>6 DEF RankExit, jobVars
  <2>3. \A j \in Rank : HistoryOf(r, j)
    BY DEF DrainingHistories
  <2>4. HistoryOf(r, k)'
    BY <1>0, <2>2, <2>3 DEF HistoryOf
  <2>5. \A j \in Rank \ {k} : HistoryOf(r, j)'
    BY <2>2, <2>3 DEF HistoryOf
  <2>6. QED
    BY <2>1, <2>4, <2>5
<1>8. ASSUME NEW k \in Rank, StopRank(k) \/ StartRank(k)
      PROVE DrainingHistories'
  <2>1. mgmt # "none" /\ stage' = stage
    BY <1>8 DEF StopRank, StartRank, jobVars
  <2>2. \A q \in Req : stage[q] # "drain"
    BY <2>1 DEF JobsOwnTheBackend, InFlight
  <2>3. QED
    BY <2>1, <2>2 DEF DrainingHistories
<1>9. CASE CleanExit \/ ForcedExit \/ Crash
    BY <1>9 DEF CleanExit, ForcedExit, Crash, Vanish, DrainingHistories
<1>10. QED
  <2> DEFINE Quiet == /\ UNCHANGED <<val, rankVars>>
                      /\ \A q \in Req : stage'[q] = "drain" =>
                                           stage[q] = "drain"
  <2>1. ASSUME NEW r \in Req, Admit(r) \/ Respond(r) \/ Disconnect(r)
        PROVE Reserve(r) \/ Quiet
    BY <2>1 DEF Admit, Refuse, ReserveFails, Respond, Disconnect, jobVars
  <2>2. ASSUME NEW r \in Req, JobStep(r) PROVE Quiet
    BY <2>2 DEF JobStep, Deadline, Disagree, ClearRefused, Clear, Refail,
                Publish, Finish, Release
  <2>3. ASSUME Start \/ Signal \/ GraceExpires PROVE Quiet
    BY <2>3 DEF Start, Signal, GraceExpires, jobVars
  <2>4. ASSUME \/ MgmtLock \/ StopProven \/ ArchivePoison \/ RestartPair
               \/ StartFails \/ MgmtUnlock
        PROVE Quiet
    BY <2>4 DEF MgmtLock, StopProven, ArchivePoison, RestartPair, StartFails,
                MgmtUnlock, jobVars
  <2>5. CASE UNCHANGED vars
    BY <1>1, <2>5 DEF vars, rankVars
  <2> HIDE DEF IndInv, TypeOK, Rank
  <2>6. QED
    BY <1>1, <1>2, <1>4, <1>5, <1>6, <1>8, <1>9, <2>1, <2>2,
       <2>3, <2>4, <2>5 DEF Next, Manage

-----------------------------------------------------------------------------
(* The strengthening holds before the first start of the process.          *)
LEMMA InitInv == Init => IndInv
<1> SUFFICES ASSUME Init PROVE IndInv
    OBVIOUS
<1> USE DEF Init, Rank
<1>1. TypeOK
    BY DEF TypeOK, Stages, ClientStates, MgmtStates
<1>2. JobsOwnTheBackend /\ MarkerHasAReason /\ ManagedRanks
    BY DEF JobsOwnTheBackend, Active, InFlight, MarkerHasAReason,
           ManagedRanks
<1>3. DrainingHistories /\ NewRequestsLeaveNoTrace /\ VerdictIsKept
    BY NoReqAssumption
       DEF DrainingHistories, NewRequestsLeaveNoTrace, VerdictIsKept,
           Succeeded
<1>4. MarkedUnlessInSync
    BY DEF MarkedUnlessInSync, InSync
<1>5. QED
    BY <1>1, <1>2, <1>3, <1>4 DEF IndInv

(* IndInv holds in every reachable state of the coordinator, for any       *)
(* number of requests and any set of outputs.                              *)
THEOREM Invariance == Spec => []IndInv
<1>1. IndInv /\ [Next]_vars => IndInv'
    BY TypeStep, OwnershipStep, MarkerStep, ManagementStep, DrainStep,
       NewRequestStep, VerdictStep, MarkedStep DEF IndInv
<1>2. QED
    BY InitInv, <1>1, PTL DEF Spec

(* The types of the variables, and who may hold pair.lock.                 *)
THEOREM TypeCorrect == Spec => []TypeOK
<1>1. IndInv => TypeOK
    BY DEF IndInv
<1>2. QED
    BY Invariance, <1>1, PTL

(* Two ranks whose pasts may differ are always marked on disk.             *)
THEOREM AlwaysMarkedUnlessInSync == Spec => []MarkedUnlessInSync
<1>1. IndInv => MarkedUnlessInSync
    BY DEF IndInv
<1>2. QED
    BY Invariance, <1>1, PTL

(* A process that is idle and trusts its pair left no marker behind.       *)
THEOREM HealthyIdle == Spec => []HealthyIdleIsUnmarked
<1>1. IndInv => HealthyIdleIsUnmarked
    BY DEF IndInv, HealthyIdleIsUnmarked, MarkerHasAReason,
           JobsOwnTheBackend, Active, InFlight
<1>2. QED
    BY Invariance, <1>1, PTL

(* One generation at a time, and never together with management.           *)
THEOREM Exclusion == Spec => []GenerationExcludesManagement
<1>1. IndInv => GenerationExcludesManagement
    BY DEF IndInv, GenerationExcludesManagement, TypeOK, JobsOwnTheBackend,
           Active
<1>2. QED
    BY Invariance, <1>1, PTL

-----------------------------------------------------------------------------
(* The marker is removed for two reasons only.                             *)
THEOREM MarkerRemoval == Spec => MarkerRemovalJustified
<1>1. IndInv /\ [Next]_vars => [RemovalIsJustified]_vars
  <2> SUFFICES ASSUME IndInv, Next PROVE RemovalIsJustified
    OBVIOUS
  <2> USE DEF RemovalIsJustified
  <2>1. CASE marker = TRUE => marker' = TRUE
    BY <2>1 DEF IndInv, TypeOK
  <2>2. ASSUME NEW r \in Req, Clear(r) PROVE RemovalIsJustified
    BY <2>2 DEF Clear, MayClear, Agreed, IndInv, TypeOK, Rank
  <2>3. CASE ArchivePoison
    BY <2>3 DEF ArchivePoison, IndInv, ManagedRanks
  <2>4. \/ marker = TRUE => marker' = TRUE
        \/ \E r \in Req : Clear(r)
        \/ ArchivePoison
    <3>1. marker \in BOOLEAN
      BY DEF IndInv, TypeOK
    <3>2. ASSUME NEW r \in Req, JobStep(r)
          PROVE  Clear(r) \/ (marker = TRUE => marker' = TRUE)
      BY <3>1, <3>2, FailPoisons
         DEF JobStep, Deadline, Disagree, ClearRefused, Refail, Publish,
             Finish, Release
    <3>3. ASSUME NEW r \in Req,
                 \/ Admit(r) \/ Respond(r) \/ Disconnect(r)
                 \/ \E k \in Rank :
                       \/ Dispatch(r, k) \/ CollectError(r, k)
                       \/ \E o \in Outputs : CollectOutput(r, k, o)
          PROVE  marker = TRUE => marker' = TRUE
      BY <3>1, <3>3, FailPoisons
         DEF Admit, Refuse, ReserveFails, Reserve, Respond, Disconnect,
             Dispatch, CollectError, CollectOutput
    <3>4. ASSUME \/ \E k \in Rank :
                       \/ \E x \in Outputs \cup {Bad} : GenEnd(k, x)
                       \/ RankExit(k)
                 \/ Start \/ Signal \/ CleanExit \/ GraceExpires
                 \/ ForcedExit \/ Crash
          PROVE  marker = TRUE => marker' = TRUE
      BY <3>1, <3>4, FailPoisons
         DEF GenEnd, RankExit, Start, Signal, CleanExit, GraceExpires,
             ForcedExit, Crash, Vanish
    <3>5. ASSUME Manage
          PROVE  ArchivePoison \/ (marker = TRUE => marker' = TRUE)
      BY <3>1, <3>5
         DEF Manage, MgmtLock, StopProven, RestartPair, StartFails,
             MgmtUnlock, StopRank, StartRank
    <3>6. QED
      BY <3>2, <3>3, <3>4, <3>5 DEF Next
  <2>5. QED
    BY <2>1, <2>2, <2>3, <2>4
<1>2. QED
  BY Invariance, <1>1, PTL DEF Spec, MarkerRemovalJustified

(* "Complete" is said of generations on which the ranks agreed.            *)
THEOREM Completion == Spec => CompleteMeansAgreed
<1>1. IndInv /\ [Next]_vars => [CompletionIsAgreed]_vars
  <2> SUFFICES ASSUME IndInv, Next PROVE CompletionIsAgreed
    OBVIOUS
  <2>1. ASSUME NEW r \in Req, Respond(r) PROVE CompletionIsAgreed
    BY <2>1 DEF Respond, CompletionIsAgreed, IndInv, TypeOK, VerdictIsKept,
                Succeeded
  <2>2. CASE \A r \in Req : client'[r] = "complete" =>
                             client[r] = "complete"
    BY <2>2 DEF CompletionIsAgreed
  <2>3. \/ \E r \in Req : Respond(r)
        \/ \A r \in Req : client'[r] = "complete" => client[r] = "complete"
    <3> DEFINE Quiet ==
          \A r \in Req : client'[r] = "complete" => client[r] = "complete"
    <3>1. client \in [Req -> ClientStates]
      BY DEF IndInv, TypeOK
    <3>2. ASSUME NEW r \in Req, Admit(r) \/ JobStep(r) \/ Disconnect(r)
          PROVE  Quiet
      BY <3>1, <3>2
         DEF Admit, Refuse, ReserveFails, Reserve, Disconnect, JobStep,
             Deadline, Disagree, ClearRefused, Clear, Refail, Publish,
             Finish, Release
    <3>3. ASSUME NEW r \in Req, NEW k \in Rank,
                 \/ Dispatch(r, k) \/ CollectError(r, k)
                 \/ \E o \in Outputs : CollectOutput(r, k, o)
          PROVE  Quiet
      BY <3>3 DEF Dispatch, CollectError, CollectOutput
    <3>4. ASSUME NEW k \in Rank,
                 \/ \E x \in Outputs \cup {Bad} : GenEnd(k, x)
                 \/ RankExit(k)
          PROVE  Quiet
      BY <3>4 DEF GenEnd, RankExit
    <3>5. ASSUME \/ Start \/ Signal \/ CleanExit \/ GraceExpires
                 \/ ForcedExit \/ Crash
          PROVE  Quiet
      BY <3>5 DEF Start, Signal, CleanExit, GraceExpires, ForcedExit, Crash,
                  Vanish
    <3>6. ASSUME Manage PROVE Quiet
      BY <3>6 DEF Manage, MgmtLock, StopProven, ArchivePoison, RestartPair,
                  StartFails, MgmtUnlock, StopRank, StartRank
    <3>7. QED
      BY <3>2, <3>3, <3>4, <3>5, <3>6 DEF Next
  <2>4. QED
    BY <2>1, <2>2, <2>3
<1>2. QED
  BY Invariance, <1>1, PTL DEF Spec, CompleteMeansAgreed

(* A job starts to drain only when the pasts of the two ranks agree.       *)
THEOREM Admission == Spec => AdmissionFindsPairInSync
<1>1. IndInv /\ [Next]_vars => [ReservationFindsSync]_vars
  <2> SUFFICES ASSUME IndInv, Next PROVE ReservationFindsSync
    OBVIOUS
  <2> DEFINE Quiet ==
        \A r \in Req : stage[r] = "new" => stage'[r] # "drain"
  <2>1. ASSUME NEW r \in Req, Reserve(r) PROVE ReservationFindsSync
    BY <2>1 DEF Reserve, ReservationFindsSync, IndInv, MarkedUnlessInSync
  <2>2. CASE Quiet
    BY <2>2 DEF ReservationFindsSync
  <2>3. Quiet \/ \E r \in Req : Reserve(r)
    <3>1. stage \in [Req -> Stages]
      BY DEF IndInv, TypeOK
    <3>2. ASSUME NEW r \in Req, JobStep(r) PROVE Quiet
      BY <3>1, <3>2
         DEF JobStep, Deadline, Disagree, ClearRefused, Clear, Refail,
             Publish, Finish, Release
    <3>3. ASSUME NEW r \in Req,
                 \/ Refuse(r) \/ ReserveFails(r) \/ Respond(r)
                 \/ Disconnect(r)
                 \/ \E k \in Rank :
                       \/ Dispatch(r, k) \/ CollectError(r, k)
                       \/ \E o \in Outputs : CollectOutput(r, k, o)
          PROVE  Quiet
      BY <3>3
         DEF Refuse, ReserveFails, Respond, Disconnect, Dispatch,
             CollectError, CollectOutput, jobVars
    <3>4. ASSUME \/ \E k \in Rank :
                       \/ \E x \in Outputs \cup {Bad} : GenEnd(k, x)
                       \/ RankExit(k)
                 \/ Start \/ Signal \/ GraceExpires
          PROVE  Quiet
      BY <3>4 DEF GenEnd, RankExit, Start, Signal, GraceExpires, jobVars
    <3>5. ASSUME CleanExit \/ ForcedExit \/ Crash PROVE Quiet
      BY <3>5 DEF CleanExit, ForcedExit, Crash, Vanish
    <3>6. ASSUME Manage PROVE Quiet
      BY <3>6
         DEF Manage, MgmtLock, StopProven, ArchivePoison, RestartPair,
             StartFails, MgmtUnlock, StopRank, StartRank, jobVars
    <3>7. QED
      BY <3>2, <3>3, <3>4, <3>5, <3>6 DEF Next, Admit
  <2>4. QED
    BY <2>1, <2>2, <2>3
<1>2. QED
  BY Invariance, <1>1, PTL DEF Spec, AdmissionFindsPairInSync

-----------------------------------------------------------------------------
(* Refinement.  The abstract variables depend on the marker, the poison,   *)
(* the draining job, and on what was cleared and answered.                 *)
LEMMA HolderIsTheDrainingJob ==
    IndInv => \A r \in Req : stage[r] = "drain" /\ ~poison =>
                  LeaseHolder = r /\ LeaseMode = "leased"
<1> SUFFICES ASSUME IndInv, NEW r \in Req, stage[r] = "drain", ~poison
             PROVE  LeaseHolder = r /\ LeaseMode = "leased"
    OBVIOUS
<1>1. marker /\ Leasing(r)
    BY DEF IndInv, MarkerHasAReason, Leasing
<1>2. \A q \in Req : Leasing(q) => q = r
    BY DEF IndInv, JobsOwnTheBackend, Active, InFlight, Leasing
<1>3. QED
    BY <1>1, <1>2 DEF LeaseHolder, LeaseMode

(* Without a draining job that is trusted, the abstract lease has no       *)
(* holder, whatever the marker says.                                       *)
LEMMA NobodyLeases ==
    (\A r \in Req : ~Leasing(r)) =>
        /\ LeaseHolder = NoReq
        /\ LeaseMode = IF marker THEN "distrusted" ELSE "free"
BY DEF LeaseHolder, LeaseMode

(* Every step of the coordinator that leaves certified and answered alone  *)
(* moves the mode as the abstract lease allows.                            *)
LEMMA ModeStep ==
    ASSUME IndInv, IndInv', UNCHANGED <<Certified, Answered>>,
           \/ /\ UNCHANGED marker
              /\ \A r \in Req : Leasing(r)' <=> Leasing(r)
           \/ /\ \A r \in Req : ~Leasing(r)'
              /\ \/ marker /\ marker'
                 \/ ~marker
           \/ \A r \in Req : ~Leasing(r) /\ ~Leasing(r)'
           \/ /\ \A r \in Req : ~Leasing(r)
              /\ ~marker /\ \E r \in Req : Leasing(r)'
    PROVE  [Lease!LeaseNext]_(Lease!leaseVars)
<1> USE DEF Lease!LeaseNext, Lease!leaseVars, Lease!Lease, Lease!Distrust,
            Lease!Rehabilitate
<1>1. \A r \in Req : Leasing(r) => LeaseHolder = r /\ LeaseMode = "leased"
    BY HolderIsTheDrainingJob DEF Leasing
<1>2. (\A r \in Req : Leasing(r) => LeaseHolder = r /\ LeaseMode = "leased")'
  <2>1. (IndInv => \A r \in Req : stage[r] = "drain" /\ ~poison =>
                      LeaseHolder = r /\ LeaseMode = "leased")'
    BY HolderIsTheDrainingJob, PTL
  <2>2. QED
    BY <2>1 DEF Leasing
<1>3. (\A r \in Req : ~Leasing(r)) =>
          /\ LeaseHolder = NoReq
          /\ LeaseMode = IF marker THEN "distrusted" ELSE "free"
    BY NobodyLeases
<1>4. ((\A r \in Req : ~Leasing(r)) =>
          /\ LeaseHolder = NoReq
          /\ LeaseMode = IF marker THEN "distrusted" ELSE "free")'
    BY NobodyLeases, PTL
<1>5. CASE UNCHANGED marker /\ \A r \in Req : Leasing(r)' <=> Leasing(r)
  <2>1. CASE \E r \in Req : Leasing(r)
    BY <1>1, <1>2, <1>5, <2>1
  <2>2. CASE \A r \in Req : ~Leasing(r)
    BY <1>3, <1>4, <1>5, <2>2
  <2>3. QED
    BY <2>1, <2>2
<1>6. CASE /\ \A r \in Req : ~Leasing(r)'
           /\ \/ marker /\ marker'
              \/ ~marker
  <2>1. CASE \E r \in Req : Leasing(r)
    <3>1. marker
      BY <2>1 DEF IndInv, MarkerHasAReason, Leasing
    <3>2. QED
      BY <1>1, <1>4, <1>6, <2>1, <3>1
  <2>2. CASE \A r \in Req : ~Leasing(r)
    BY <1>3, <1>4, <1>6, <2>2
  <2>3. QED
    BY <2>1, <2>2
<1>7. CASE \A r \in Req : ~Leasing(r) /\ ~Leasing(r)'
    BY <1>3, <1>4, <1>7
<1>8. CASE /\ \A r \in Req : ~Leasing(r)
           /\ ~marker /\ \E r \in Req : Leasing(r)'
    BY <1>2, <1>3, <1>8
<1>9. QED
    BY <1>5, <1>6, <1>7, <1>8

(* The two steps that do change certified or answered.                     *)
LEMMA ClearCertifies ==
    ASSUME IndInv, IndInv', NEW r \in Req, Clear(r) PROVE Lease!Certify
<1> USE DEF Clear
<1>1. LeaseHolder = r /\ LeaseMode = "leased"
    BY HolderIsTheDrainingJob DEF MayClear
<1>2. \A q \in Req : stage'[q] # "drain"
    BY DEF IndInv, TypeOK, JobsOwnTheBackend, Active, InFlight
<1>3. LeaseHolder' = NoReq /\ LeaseMode' = "free"
    BY <1>2 DEF LeaseHolder, LeaseMode, Leasing
<1>4. Certified' = Certified \cup {r} /\ Answered' = Answered
    BY DEF Certified, Answered, IndInv, TypeOK
<1>5. QED
    BY <1>1, <1>3, <1>4 DEF Lease!Certify

(* ServeHTTP answers "complete" only for what run had cleared.             *)
LEMMA RespondAnswers ==
    ASSUME IndInv, IndInv', NEW r \in Req, Respond(r)
    PROVE  [Lease!LeaseNext]_(Lease!leaseVars)
<1> USE DEF Respond
<1>1. /\ LeaseHolder' = LeaseHolder /\ LeaseMode' = LeaseMode
      /\ Certified' = Certified
    BY DEF LeaseHolder, LeaseMode, Leasing, Certified, procVars, jobVars
<1>2. CASE err[r]
    <2>1. Answered' = Answered
      BY <1>2 DEF Answered, IndInv, TypeOK
    <2>2. QED
      BY <1>1, <2>1 DEF Lease!leaseVars
<1>3. CASE ~err[r]
    <2>1. r \in Certified
      BY <1>3 DEF IndInv, VerdictIsKept, Succeeded, Certified
    <2>2. Answered' = Answered \cup {r}
      BY <1>3 DEF Answered, IndInv, TypeOK
    <2>3. QED
      BY <1>1, <2>1, <2>2 DEF Lease!Answer, Lease!LeaseNext
<1>4. QED
    BY <1>2, <1>3

(* The coordinator, with its locks, threads, crashes and managers, is a    *)
(* lease of the pair: it certifies, distrusts, rehabilitates and answers   *)
(* as PairLease does.                                                      *)
THEOREM Refinement == Spec => ImplementsLease
<1>1. Init => Lease!LeaseInit
    BY DEF Init, Lease!LeaseInit, LeaseMode, LeaseHolder, Certified,
           Answered
<1>2. IndInv /\ IndInv' /\ [Next]_vars => [Lease!LeaseNext]_(Lease!leaseVars)
  <2> SUFFICES ASSUME IndInv, IndInv', [Next]_vars
               PROVE  [Lease!LeaseNext]_(Lease!leaseVars)
    OBVIOUS
  <2> DEFINE Same == UNCHANGED <<Certified, Answered>>
             Still == /\ UNCHANGED marker
                      /\ \A r \in Req : Leasing(r)' <=> Leasing(r)
             Drop == /\ \A r \in Req : ~Leasing(r)'
                     /\ \/ marker /\ marker'
                        \/ ~marker
             Idle == \A r \in Req : ~Leasing(r) /\ ~Leasing(r)'
             Take == /\ \A r \in Req : ~Leasing(r)
                     /\ ~marker /\ \E r \in Req : Leasing(r)'
  <2>0. /\ marker \in BOOLEAN /\ stage \in [Req -> Stages]
        /\ client \in [Req -> ClientStates] /\ cleared \in [Req -> BOOLEAN]
    BY DEF IndInv, TypeOK
  <2>1. ASSUME NEW r \in Req, Admit(r) \/ Disconnect(r)
        PROVE  Same /\ (Still \/ Idle \/ Take)
    <3>1. Same
      <4>1. Certified' = Certified
        BY <2>1 DEF Admit, Refuse, ReserveFails, Reserve, Disconnect,
           Certified, jobVars
      <4>2. client[r] # "complete" /\ \E c \in {"error", "waiting", "gone"} :
                client' = [client EXCEPT ![r] = c]
        BY <2>1 DEF Admit, Refuse, ReserveFails, Reserve, Disconnect
      <4>3. \A q \in Req : client'[q] = "complete" <=> client[q] = "complete"
        BY <2>0, <4>2
      <4>4. QED
        BY <4>1, <4>3 DEF Answered
    <3>2. CASE Refuse(r) \/ Disconnect(r)
      BY <3>1, <3>2 DEF Refuse, Disconnect, procVars, jobVars, Leasing
    <3>3. CASE ReserveFails(r) \/ Reserve(r)
      <4>1. \A q \in Req : stage[q] # "drain"
        BY <3>3 DEF ReserveFails, Reserve, MayReserve, IndInv,
           JobsOwnTheBackend, Active, InFlight
      <4>2. CASE ReserveFails(r)
        BY <3>1, <4>1, <4>2 DEF ReserveFails, jobVars, Leasing
      <4>3. CASE Reserve(r)
        BY <2>0, <3>1, <4>1, <4>3 DEF Reserve, MayReserve, Leasing
      <4>4. QED
        BY <3>3, <4>2, <4>3
    <3>4. QED
      BY <2>1, <3>1, <3>2, <3>3 DEF Admit
  <2>2. ASSUME NEW r \in Req, JobStep(r)
        PROVE  Clear(r) \/ (Same /\ (Still \/ Drop \/ Idle))
    <3>1. CASE Deadline(r) \/ Disagree(r) \/ Refail(r)
      BY <2>0, <3>1, FailPoisons
         DEF Deadline, Disagree, Refail, Certified, Answered, Leasing
    <3>2. CASE ClearRefused(r)
      <4>1. \A q \in Req : ~Leasing(q)'
        BY <2>0, <3>2 DEF ClearRefused, IndInv, JobsOwnTheBackend, Active,
           InFlight, Leasing
      <4>2. QED
        BY <2>0, <3>2, <4>1 DEF ClearRefused, Certified, Answered, procVars
    <3>3. CASE Publish(r) \/ Finish(r) \/ Release(r)
      BY <2>0, <3>3 DEF Publish, Finish, Release, procVars, Leasing,
         Certified, Answered
    <3>4. QED
      BY <2>2, <3>1, <3>2, <3>3 DEF JobStep
  <2>3. ASSUME NEW r \in Req, NEW k \in Rank,
               \/ Dispatch(r, k) \/ CollectError(r, k)
               \/ \E o \in Outputs : CollectOutput(r, k, o)
        PROVE  Same /\ (Still \/ Drop)
    <3>1. Same
      BY <2>3 DEF Dispatch, CollectError, CollectOutput, Certified, Answered
    <3>2. CASE CollectError(r, k)
      BY <2>0, <3>1, <3>2, FailPoisons DEF CollectError, Leasing
    <3>3. CASE Dispatch(r, k) \/ \E o \in Outputs : CollectOutput(r, k, o)
      <4>1. UNCHANGED <<stage, poison, marker>>
        BY <3>3 DEF Dispatch, CollectOutput, procVars
      <4>2. QED
        BY <3>1, <4>1 DEF Leasing
    <3>4. QED
      BY <2>3, <3>2, <3>3
  <2>4. ASSUME NEW k \in Rank,
               \/ \E x \in Outputs \cup {Bad} : GenEnd(k, x)
               \/ RankExit(k)
        PROVE  Same /\ Still
    BY <2>4 DEF GenEnd, RankExit, procVars, jobVars, Certified, Answered,
       Leasing
  <2>5. ASSUME \/ Start \/ Signal \/ GraceExpires
        PROVE  Same /\ (Still \/ Drop \/ Idle)
    <3>1. CASE Start
      <4>1. \A r \in Req : stage[r] # "drain" /\ stage' = stage
        BY <3>1 DEF Start, jobVars, IndInv, JobsOwnTheBackend, Active,
           InFlight
      <4>2. Same
        BY <3>1 DEF Start, jobVars, Certified, Answered
      <4>3. QED
        BY <4>1, <4>2 DEF Leasing
    <3>2. CASE Signal
      BY <3>2 DEF Signal, jobVars, Certified, Answered, Leasing
    <3>3. CASE GraceExpires
      BY <2>0, <3>3, FailPoisons
         DEF GraceExpires, jobVars, Certified, Answered, Leasing
    <3>4. QED
      BY <2>5, <3>1, <3>2, <3>3
  <2>6. ASSUME CleanExit \/ ForcedExit \/ Crash PROVE Same /\ (Drop \/ Idle)
    <3>1. \A r \in Req : ~Leasing(r)' /\ UNCHANGED marker
      BY <2>6 DEF CleanExit, ForcedExit, Crash, Vanish, Leasing
    <3>2. Same
      BY <2>0, <2>6 DEF CleanExit, ForcedExit, Crash, Vanish, Certified,
         Answered, ClientStates
    <3>3. QED
      BY <2>0, <3>1, <3>2
  <2>7. ASSUME Manage PROVE Same /\ (Still \/ Idle)
    <3>1. CASE ArchivePoison
      <4>1. \A r \in Req : stage[r] # "drain" /\ stage' = stage
        BY <3>1 DEF ArchivePoison, jobVars, IndInv, TypeOK,
           JobsOwnTheBackend, InFlight
      <4>2. QED
        BY <3>1, <4>1 DEF ArchivePoison, jobVars, Certified, Answered,
           Leasing
    <3>2. CASE MgmtLock \/ StopProven \/ RestartPair \/ StartFails
               \/ MgmtUnlock
      BY <3>2 DEF MgmtLock, StopProven, RestartPair, StartFails, MgmtUnlock,
         procVars, jobVars, Certified, Answered, Leasing
    <3>3. ASSUME NEW k \in Rank, StopRank(k) \/ StartRank(k)
          PROVE  Same /\ Still
      BY <3>3 DEF StopRank, StartRank, procVars, jobVars, Certified,
         Answered, Leasing
    <3>4. QED
      BY <2>7, <3>1, <3>2, <3>3 DEF Manage
  <2>8. CASE UNCHANGED vars
    <3>1. Same /\ Still
      BY <2>8 DEF vars, Certified, Answered, Leasing
    <3>2. QED
      BY <3>1, ModeStep
  <2>9. ASSUME Same /\ (Still \/ Drop \/ Idle \/ Take)
        PROVE  [Lease!LeaseNext]_(Lease!leaseVars)
    BY <2>9, ModeStep
  <2>10. ASSUME NEW r \in Req, Clear(r)
         PROVE  [Lease!LeaseNext]_(Lease!leaseVars)
    BY <2>10, ClearCertifies DEF Lease!LeaseNext
  <2>11. ASSUME NEW r \in Req, Respond(r)
         PROVE  [Lease!LeaseNext]_(Lease!leaseVars)
    BY <2>11, RespondAnswers
  <2> HIDE DEF Same, Still, Drop, Idle, Take
  <2>12. QED
    BY <2>1, <2>2, <2>3, <2>4, <2>5, <2>6, <2>7, <2>8, <2>9, <2>10, <2>11
       DEF Next
<1>3. QED
  BY <1>1, <1>2, Invariance, PTL DEF Spec, ImplementsLease, Lease!LeaseSpec

=============================================================================
