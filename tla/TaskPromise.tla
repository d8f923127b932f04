---------------------------- MODULE TaskPromise -----------------------------
(***************************************************************************)
(* What a coding task is to those who submit it and wait on Task.done: a   *)
(* task lives until it is over with one result, it can be told to stop,    *)
(* and only one that was told to stop ends as CANCELLED.                   *)
(***************************************************************************)
CONSTANT Task

VARIABLES life,    \* [Task -> "none", "live" or "over"]
          result,  \* [Task -> the status of a task that is over]
          told     \* [Task -> BOOLEAN]: Task.cancel was called

promise == <<life, result, told>>

Result == {"PASS", "FAIL", "BLOCKED", "CANCELLED", "INCOMPLETE"}

PromiseInit ==
    /\ life = [t \in Task |-> "none"]
    /\ result = [t \in Task |-> "none"]
    /\ told = [t \in Task |-> FALSE]

Born(t) ==
    /\ life[t] = "none" /\ life' = [life EXCEPT ![t] = "live"]
    /\ UNCHANGED <<result, told>>

Tell(S) ==
    /\ \A t \in S : life[t] # "none"
    /\ told' = [t \in Task |-> told[t] \/ t \in S]
    /\ UNCHANGED <<life, result>>

Over(t) ==
    /\ life[t] = "live" /\ life' = [life EXCEPT ![t] = "over"]
    /\ \E s \in Result :
          /\ s = "CANCELLED" => told[t]
          /\ result' = [result EXCEPT ![t] = s]
    /\ UNCHANGED told

(* The process ends: nobody knows the tasks any more.                      *)
Forgotten ==
    /\ life' = [t \in Task |-> "none"]
    /\ result' = [t \in Task |-> "none"]
    /\ told' = [t \in Task |-> FALSE]

PromiseNext ==
    \/ \E t \in Task : Born(t) \/ Over(t)
    \/ \E S \in SUBSET Task : Tell(S)
    \/ Forgotten

PromiseSafety == PromiseInit /\ [][PromiseNext]_promise

PromiseFairness == \A t \in Task : WF_promise(Over(t))

PromiseSpec == PromiseSafety /\ PromiseFairness
=============================================================================
