---------------------------- MODULE BatchPromises ----------------------------
(***************************************************************************)
(* What a batch client promises (AdtClientBatch, AdtRuntimeClientBatch):   *)
(* every request made on it gives a promise, and a batch settles all the   *)
(* promises that are pending, at once and for good - each one fulfilled    *)
(* with the response to its own request, or rejected.  reset() drops the   *)
(* pending ones, which then never settle.                                  *)
(***************************************************************************)
CONSTANT Request    \* the requests callers make on the client

VARIABLE fate       \* what has become of the promise of each request

Settled == {"fulfilled", "rejected"}

Init == fate = [r \in Request |-> "unmade"]

Make(r) ==
  /\ fate[r] = "unmade"
  /\ fate' = [fate EXCEPT ![r] = "pending"]

Batch ==
  /\ \E r \in Request : fate[r] = "pending"
  /\ \E verdict \in [Request -> Settled] :
       fate' = [r \in Request |->
                  IF fate[r] = "pending" THEN verdict[r] ELSE fate[r]]

Drop ==
  fate' = [r \in Request |-> IF fate[r] = "pending" THEN "dropped" ELSE fate[r]]

Next == (\E r \in Request : Make(r)) \/ Batch \/ Drop

Spec == Init /\ [][Next]_fate
=============================================================================
