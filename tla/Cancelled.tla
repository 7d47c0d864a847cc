----------------------------- MODULE Cancelled ------------------------------
(***************************************************************************)
(* Module Assignment, watched: which of the calls that look for a          *)
(* cancellation before they go to work were overtaken by one.              *)
(*                                                                         *)
(* UpdateStatus and ProviderCancelService refuse a cancelled booking, then *)
(* talk to Redis, and at last overwrite the status by id.                  *)
(***************************************************************************)
EXTENDS Assignment

VARIABLE overtaken  \* history: requests whose booking was cancelled after they had looked

\* after the look, before the write
Looked == {"withdraw_release", "withdraw_reopen",
           "journey_settle", "journey_free", "journey_unlock", "journey_write"}

\* the step cancels the booking of the request
Overtakes(r) ==
    /\ req[r].pc \in Looked
    /\ status[req[r].s] # "cancelled" /\ status'[req[r].s] = "cancelled"

WatchedVars == <<vars, overtaken>>

WatchedInit == Init /\ overtaken = {}

WatchedNext ==
    /\ Next
    /\ overtaken' = {r \in Request : /\ r \in overtaken \/ Overtakes(r)
                                     /\ req'[r].pc \in Looked}

WatchedSpec == WatchedInit /\ [][WatchedNext]_WatchedVars

\* "End states", as far as it is true: what brings a cancelled booking back is a payment, or
\* the late write of a call that had found the booking alive and was overtaken by the
\* cancellation. None of the calls, workers and searches that come after the cancellation
\* does, whatever keys, locks and status tests they rely on.
CancelledStays ==
    [][\A s \in Service :
          status[s] = "cancelled" /\ status'[s] # "cancelled"
              => \/ PaymentFailure(s) \/ \E r \in Request : PaymentSuccess(r, s)
                 \/ \E r \in overtaken :
                       /\ req[r].s = s
                       /\ UpdateStatusWrite(r) \/ ProviderCancelReopen(r)]_WatchedVars
=============================================================================
