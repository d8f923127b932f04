----------------------------- MODULE PairLease -----------------------------
(***************************************************************************)
(* What the paired coordinator promises, without locks, markers, threads   *)
(* or processes: a pair of inference ranks is leased to one request at a   *)
(* time; the lease of a request ends either by certifying that both ranks  *)
(* produced the same output, or by distrusting the pair; a distrusted pair *)
(* accepts nothing until it has been rehabilitated as a whole; and only a  *)
(* certified request may ever be answered as complete.                     *)
(***************************************************************************)
CONSTANTS Req,      \* client requests, each submitted once
          NoReq     \* "no request"

VARIABLES mode,       \* "free", "leased" or "distrusted"
          holder,     \* the request that leases the pair, or NoReq
          certified,  \* requests whose two rank outputs were found equal
          answered    \* requests answered as complete

leaseVars == <<mode, holder, certified, answered>>

LeaseInit ==
    /\ mode = "free"
    /\ holder = NoReq
    /\ certified = {}
    /\ answered = {}

Lease(r) ==
    /\ mode = "free"
    /\ mode' = "leased"
    /\ holder' = r
    /\ UNCHANGED <<certified, answered>>

Certify ==
    /\ mode = "leased"
    /\ mode' = "free"
    /\ holder' = NoReq
    /\ certified' = certified \cup {holder}
    /\ UNCHANGED answered

Distrust ==
    /\ mode # "distrusted"
    /\ mode' = "distrusted"
    /\ holder' = NoReq
    /\ UNCHANGED <<certified, answered>>

Rehabilitate ==
    /\ mode = "distrusted"
    /\ mode' = "free"
    /\ UNCHANGED <<holder, certified, answered>>

Answer(r) ==
    /\ r \in certified
    /\ answered' = answered \cup {r}
    /\ UNCHANGED <<mode, holder, certified>>

LeaseNext ==
    \/ \E r \in Req : Lease(r) \/ Answer(r)
    \/ Certify
    \/ Distrust
    \/ Rehabilitate

LeaseSpec == LeaseInit /\ [][LeaseNext]_leaseVars
=============================================================================
