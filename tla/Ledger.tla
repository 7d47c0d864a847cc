------------------------------- MODULE Ledger -------------------------------
(***************************************************************************)
(* What payments promise, without webhooks, jobs, locks, workers, retries  *)
(* or crashes: every entry follows a verdict of the gateway on that        *)
(* transaction.  A transaction is entered once and then shown as the       *)
(* gateway judged it, a booking as one of its transactions was judged, and *)
(* an invoice is noted once, for a captured transaction shown as paid.     *)
(***************************************************************************)
CONSTANTS Txn, Booking, BookingOf

VARIABLES
    captured, declined,     \* the verdicts; a declined transaction may be captured yet
    txn,                    \* "none", "pending", "paid" or "failed"
    payment,                \* of each booking: "pending", "paid" or "failed"
    invoiced                \* transactions with an invoice

verdicts == <<captured, declined>>
vars     == <<verdicts, txn, payment, invoiced>>

Init ==
    /\ captured = {} /\ declined = {} /\ invoiced = {}
    /\ txn = [t \in Txn |-> "none"]
    /\ payment = [b \in Booking |-> "pending"]

\* what may be shown of a transaction that was judged
Shown(t) == {st \in {"paid", "failed"} : t \in IF st = "paid" THEN captured ELSE declined}

Create(t) ==
    /\ txn[t] = "none"
    /\ txn' = [txn EXCEPT ![t] = "pending"]
    /\ UNCHANGED <<verdicts, payment, invoiced>>

Capture(t) ==
    /\ txn[t] # "none" /\ t \notin captured
    /\ captured' = captured \union {t}
    /\ UNCHANGED <<declined, txn, payment, invoiced>>

Decline(t) ==
    /\ txn[t] # "none" /\ t \notin captured \union declined
    /\ declined' = declined \union {t}
    /\ UNCHANGED <<captured, txn, payment, invoiced>>

Record(t) ==
    /\ txn[t] # "none"
    /\ \E st \in Shown(t) : txn' = [txn EXCEPT ![t] = st]
    /\ UNCHANGED <<verdicts, payment, invoiced>>

Tell(t) ==
    /\ \E st \in Shown(t) : payment' = [payment EXCEPT ![BookingOf[t]] = st]
    /\ UNCHANGED <<verdicts, txn, invoiced>>

Invoice(t) ==
    /\ t \in captured \ invoiced /\ txn[t] = "paid"
    /\ invoiced' = invoiced \union {t}
    /\ UNCHANGED <<verdicts, txn, payment>>

Next ==
    \E t \in Txn : \/ Create(t) \/ Capture(t) \/ Decline(t)
                   \/ Record(t) \/ Tell(t) \/ Invoice(t)

Spec == Init /\ [][Next]_vars
=============================================================================
