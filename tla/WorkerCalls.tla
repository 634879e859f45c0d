---------------------------- MODULE WorkerCalls ----------------------------
(***************************************************************************)
(* What the worker client promises its callers (platform/workerClient.ts): *)
(* a call is waiting only while the worker it was posted to is up; the end *)
(* of that worker, whatever its cause, rejects all of its calls at once;   *)
(* nothing comes up again after close.                                     *)
(***************************************************************************)
CONSTANT Callers

VARIABLES
  status, \* "up", "down" (restarting, or failed) or "closed"
  call    \* by caller, its last call: "none", "waiting", "answered", "rejected"

Init == status = "up" /\ call = [c \in Callers |-> "none"]

Calls(c) ==
  /\ call[c] # "waiting"
  /\ \/ status = "up" /\ call' = [call EXCEPT ![c] = "waiting"]
     \/ call' = [call EXCEPT ![c] = "rejected"]
  /\ UNCHANGED status

Answers(c) ==
  /\ status = "up" /\ call[c] = "waiting"
  /\ \E r \in {"answered", "rejected"} : call' = [call EXCEPT ![c] = r]
  /\ UNCHANGED status

GoesDown ==
  /\ status # "closed"
  /\ status' \in {"down", "closed"}
  /\ call' = [c \in Callers |-> IF call[c] = "waiting" THEN "rejected" ELSE call[c]]

ComesUp == status = "down" /\ status' = "up" /\ UNCHANGED call

Next == GoesDown \/ ComesUp \/ \E c \in Callers : Calls(c) \/ Answers(c)

Spec == Init /\ [][Next]_<<status, call>>
=============================================================================
