-------------------------- MODULE AtomicRetirement --------------------------
(***************************************************************************)
(* What retiring a worker promises its callers (worker-retirement.ts:1-21, *)
(* worker-lifetime.ts:274-289): the decision and the end of the process    *)
(* are one step, taken while no accepted request is unanswered, and a      *)
(* request that is refused was never acted on, so that it may be retried.  *)
(* WorkerRetirement, with its pipe, fence, leases and timeouts, implements *)
(* this.                                                                   *)
(***************************************************************************)
CONSTANT Requests

VARIABLES
  status,  \* request -> what its caller may rely on
  alive    \* the process has not ended

Init ==
  /\ status = [r \in Requests |-> "new"]
  /\ alive = TRUE

Move(r, from, to) ==
  /\ status[r] = from
  /\ status' = [status EXCEPT ![r] = to]
  /\ UNCHANGED alive

Accept(r) == alive /\ Move(r, "new", "accepted")
Answer(r) == alive /\ Move(r, "accepted", "answered")
Refuse(r) == Move(r, "new", "refused")

Retire ==
  /\ alive
  /\ \A r \in Requests : status[r] # "accepted"
  /\ alive' = FALSE
  /\ UNCHANGED status

Next ==
  \/ \E r \in Requests : Accept(r) \/ Answer(r) \/ Refuse(r)
  \/ Retire

Spec == Init /\ [][Next]_<<status, alive>>

=============================================================================
