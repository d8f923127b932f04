-------------------------- MODULE MCLegacyMigration --------------------------
EXTENDS LegacyMigration

MCPath == {1}

Ordinary == \A k \in Rank : unit'[k] \in {Off, Unit(1, 1), Unit(2, 1)}

(* Bound: beside an old pair the new one is started once, and stopped once *)
(* faults have ceased; the other model, poison, commands by hand, restart  *)
(* and launches in flight are examined without an old pair.  While an      *)
(* operation holds the locks, the pair that it is not about keeps still.   *)
Beside ==
    oldOwner.state # "absent" =>
        /\ poison' = poison /\ late' = late /\ Ordinary
        /\ shared'.owner # "DS41" /\ op' # "restart" /\ o'.epoch <= 1
        /\ op = "none" /\ op' # "none" /\ owner.epoch > 0 => ~faulty
        /\ op # "none" => UNCHANGED oldVars
        /\ job # "none" => UNCHANGED vars

(* Bound: one launch of the first start may be in flight, on the peer.     *)
OneInFlight == late'[0] = {} /\ late'[1] \subseteq {1}

(* Bound: poison, commands by hand and launches in flight are examined one *)
(* at a time.                                                              *)
OneAtATime ==
    /\ poison' => Ordinary
    /\ late'[1] \cup overlooked' # {} => Ordinary /\ ~poison /\ ~poison'

BoundedSpec ==
    /\ WholeInit /\ [][WholeNext /\ Beside /\ OneInFlight /\ OneAtATime]_allVars
    /\ Fairness /\ WF_jobVars(Migration)
=============================================================================
