---------------------------- MODULE MCOperations ----------------------------
(***************************************************************************)
(* Two operations of the gateway: a download twice, a coding run beside    *)
(* requests for what is not on the list, or the same with a measurement.   *)
(***************************************************************************)
EXTENDS Operations, TLC

CONSTANTS j1, j2

MCKinds ==
    {(j1 :> "download") @@ (j2 :> "download"),
     (j1 :> "coding") @@ (j2 :> "unlisted"),
     (j1 :> "model") @@ (j2 :> "unlisted")}
=============================================================================
