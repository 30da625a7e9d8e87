----------------------------- MODULE RequestBook -----------------------------
(***************************************************************************)
(* What the permission part of a session's agentState promises: one book   *)
(* of open and completed requests that only ever changes by a whole        *)
(* operation of a permission handler, applied to the book as it is.        *)
(***************************************************************************)
CONSTANT Requests

VARIABLES
    requests,   \* the open requests
    completed   \* how each request was completed: "no", "answered", "canceled"

Init ==
    /\ requests = {}
    /\ completed = [r \in Requests |-> "no"]

\* addPendingRequest
Register(r) ==
    /\ requests' = requests \cup {r}
    /\ UNCHANGED completed

\* finalizeRequest: a request that is not open is left alone.
Finish(r) ==
    /\ r \in requests
    /\ requests' = requests \ {r}
    /\ completed' = [completed EXCEPT ![r] = "answered"]

\* autoApprove: completed without ever having been open.
Approve(r) ==
    /\ completed' = [completed EXCEPT ![r] = "answered"]
    /\ UNCHANGED requests

\* cancelPendingRequests: everything that is open, whoever opened it.
CancelAll ==
    /\ requests' = {}
    /\ completed' = [r \in Requests |->
                        IF r \in requests THEN "canceled" ELSE completed[r]]

Next ==
    \/ \E r \in Requests : Register(r) \/ Finish(r) \/ Approve(r)
    \/ CancelAll

Spec == Init /\ [][Next]_<<requests, completed>>
==============================================================================
