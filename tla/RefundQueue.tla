----------------------------- MODULE RefundQueue -----------------------------
(***************************************************************************)
(* What becomes of the money when a paid booking is cancelled.             *)
(*                                                                         *)
(* CancelService claims the refund with the Redis key refund:lock:M, pushes*)
(* a job to the list refund:queue and then inserts the refund document.    *)
(* The single goroutine RefundWorker pops the jobs, calls the payment      *)
(* gateway, and pushes a failed job back, MaxRetries times, before it moves it   *)
(* to refund:dlq.  Neither the pop nor the three steps of CancelService    *)
(* are atomic, and every error of the two stores is ignored.               *)
(***************************************************************************)
EXTENDS Integers, Sequences, FiniteSets

CONSTANTS
    Payment,        \* mihpayid: a payment as the gateway names it
    Request,        \* calls of CancelService in flight at one time
    None,           \* no payment
    Faults,         \* what may go wrong: "StoreError", "LostReply", "Crash", "Expiry"
    MaxRetries,     \* how often a failed job is pushed back (5)
    Report,         \* what the gateway's webhook may say
    MaxExpiries     \* bound: how often refund:lock of a payment expires

ASSUME RefundAssumption ==
    None \notin Payment /\ IsFiniteSet(Request) /\ MaxRetries \in Nat /\ MaxExpiries \in Nat

VARIABLES
    paid,       \* payments whose transaction has status "paid" and a mihpayid
    lock,       \* payments with key refund:lock
    queue,      \* refund:queue
    dlq,        \* refund:dlq
    refund,     \* the refund documents of a payment, oldest first: their status
    webhooks,   \* collection refund_webhooks: what the gateway reported
    call,       \* CancelService calls in flight
    worker,     \* RefundWorker
    accepted,   \* gateway: how often it has refunded the payment
    failures,   \* history: attempts that the worker took for failed
    repeats,    \* history: refunds that the worker took for failed
    expired,    \* history: expiries of the lock
    dropped     \* history: payments with a job lost to a crash or to a failed push

store   == <<paid, lock, refund, webhooks>>
lists   == <<queue, dlq>>
history == <<failures, repeats, expired, dropped>>
vars    == <<store, lists, call, worker, accepted, history>>

Fault(f) == f \in Faults

-----------------------------------------------------------------------------
(* Jobs and documents *)

Job == [pay: Payment, retries: 0..MaxRetries]

Call == [pc: {"idle", "claim", "push", "create"}, pay: Payment \union {None}]
Idle == [pc |-> "idle", pay |-> None]

Worker == [pc: {"idle", "mark", "refund", "report", "retry", "close"},
           pay: Payment \union {None}, retries: 0..MaxRetries]
Resting == [pc |-> "idle", pay |-> None, retries |-> 0]

RefundStatus == {"pending", "processing", "queued", "failed"}

\* UpdateByMihPayID: the oldest document of the payment, or nothing when there is none
Marked(m, st) == IF refund[m] = <<>> THEN refund ELSE [refund EXCEPT ![m][1] = st]

TypeOK ==
    /\ paid     \subseteq Payment
    /\ lock     \subseteq Payment
    /\ queue    \in Seq(Job)
    /\ dlq      \in Seq(Job)
    /\ refund   \in [Payment -> Seq(RefundStatus)]
    /\ webhooks \in [Payment -> SUBSET Report]
    /\ call     \in [Request -> Call] /\ \A c \in Request : call[c].pc # "idle" => call[c].pay # None
    /\ worker   \in Worker /\ (worker.pc # "idle" => worker.pay # None)
    /\ accepted \in [Payment -> Nat]
    /\ failures \in [Payment -> Nat]
    /\ repeats  \in [Payment -> Nat]
    /\ expired  \in [Payment -> 0..MaxExpiries]
    /\ dropped  \subseteq Payment

Init ==
    /\ paid     = {}
    /\ lock     = {}
    /\ queue    = <<>>
    /\ dlq      = <<>>
    /\ refund   = [m \in Payment |-> <<>>]
    /\ webhooks = [m \in Payment |-> {}]
    /\ call     = [c \in Request |-> Idle]
    /\ worker   = Resting
    /\ accepted = [m \in Payment |-> 0]
    /\ failures = [m \in Payment |-> 0]
    /\ repeats  = [m \in Payment |-> 0]
    /\ expired  = [m \in Payment |-> 0]
    /\ dropped  = {}

-----------------------------------------------------------------------------
(* Transactions, as ProcessWebhook leaves them (module Payment) *)

\* the success webhook, or a failure webhook that follows it and overwrites "paid"
ProcessWebhook(m) ==
    /\ \/ m \notin paid /\ paid' = paid \union {m}
       \/ paid' = paid \ {m}
    /\ UNCHANGED <<lock, refund, webhooks, lists, call, worker, accepted, history>>

-----------------------------------------------------------------------------
(* CancelService, after it has cancelled the booking *)

At(c, label) == call[c].pc = label
Goto(c, label) == call' = [call EXCEPT ![c].pc = label]
Return(c) == call' = [call EXCEPT ![c] = Idle]

\* "refund skipped - payment not completed" unless the transaction is paid
CancelService(c, m) ==
    /\ At(c, "idle")
    /\ m \in paid
    /\ call' = [call EXCEPT ![c] = [pc |-> "claim", pay |-> m]]
    /\ UNCHANGED <<store, lists, worker, accepted, history>>

\* mutation: the result of SetNX is not looked at
ClaimAlways(c) ==
    /\ At(c, "claim")
    /\ lock' = lock \union {call[c].pay}
    /\ Goto(c, "push")
    /\ UNCHANGED <<paid, refund, webhooks, lists, worker, accepted, history>>

\* SetNX; an error counts as "taken", whether the key was set or not
Claim(c) ==
    LET m == call[c].pay IN
    /\ At(c, "claim")
    /\ \/ m \notin lock /\ lock' = lock \union {m} /\ Goto(c, "push")
       \/ m \in lock /\ UNCHANGED lock /\ Return(c)
       \/ Fault("StoreError") /\ lock' \in {lock, lock \union {m}} /\ Return(c)
    /\ UNCHANGED <<paid, refund, webhooks, lists, worker, accepted, history>>

Push(c) ==
    LET m == call[c].pay IN
    /\ At(c, "push")
    /\ \/ queue' = Append(queue, [pay |-> m, retries |-> 0]) /\ UNCHANGED dropped
       \/ Fault("StoreError") /\ dropped' = dropped \union {m} /\ UNCHANGED queue
    /\ Goto(c, "create")
    /\ UNCHANGED <<store, dlq, worker, accepted, failures, repeats, expired>>

\* the worker may have finished the job before its document exists
Create(c) ==
    LET m == call[c].pay IN
    /\ At(c, "create")
    /\ \/ refund' = [refund EXCEPT ![m] = Append(@, "pending")]
       \/ Fault("StoreError") /\ UNCHANGED refund
    /\ Return(c)
    /\ UNCHANGED <<paid, lock, webhooks, lists, worker, accepted, history>>

-----------------------------------------------------------------------------
(* RefundWorker.process *)

Busy(label) == worker.pc = label
Proceed(label) == worker' = [worker EXCEPT !.pc = label]

\* BLPop: from here on the job exists in the worker's memory only
Take ==
    /\ Busy("idle") /\ queue # <<>>
    /\ worker' = [pc |-> "mark", pay |-> Head(queue).pay, retries |-> Head(queue).retries]
    /\ queue' = Tail(queue)
    /\ UNCHANGED <<store, dlq, call, accepted, history>>

MarkProcessing ==
    /\ Busy("mark")
    /\ \/ refund' = Marked(worker.pay, "processing")
       \/ Fault("StoreError") /\ UNCHANGED refund
    /\ Proceed("refund")
    /\ UNCHANGED <<paid, lock, webhooks, lists, call, accepted, history>>

\* The gateway refunds whatever it is asked to: refundID, which could tell a repetition
\* from a new refund, holds the time of the call.
ProcessRefund ==
    /\ Busy("refund")
    /\ accepted' = [accepted EXCEPT ![worker.pay] = @ + 1]
    /\ Proceed("report")
    /\ UNCHANGED <<store, lists, call, history>>

\* refused, or the request did not arrive
ProcessRefundFails ==
    /\ Busy("refund")
    /\ failures' = [failures EXCEPT ![worker.pay] = @ + 1]
    /\ Proceed("retry")
    /\ UNCHANGED <<store, lists, call, accepted, repeats, expired, dropped>>

\* refunded, but the reply is lost or unreadable, or the update of the transaction fails
ProcessRefundUnknown ==
    LET m == worker.pay IN
    /\ Fault("LostReply")
    /\ Busy("refund")
    /\ accepted' = [accepted EXCEPT ![m] = @ + 1]
    /\ failures' = [failures EXCEPT ![m] = @ + 1]
    /\ repeats' = [repeats EXCEPT ![m] = @ + 1]
    /\ Proceed("retry")
    /\ UNCHANGED <<store, lists, call, expired, dropped>>

ReportQueued ==
    /\ Busy("report")
    /\ \/ refund' = Marked(worker.pay, "queued")
       \/ Fault("StoreError") /\ UNCHANGED refund
    /\ worker' = Resting
    /\ UNCHANGED <<paid, lock, webhooks, lists, call, accepted, history>>

\* mutations: one attempt less, one attempt more
ExhaustedEarly(n) == n >= MaxRetries - 1
ExhaustedLate(n) == n > MaxRetries

Exhausted(n) == n >= MaxRetries

\* mutation: the job is counted up, but not pushed
RetryForgotten ==
    /\ Busy("retry")
    /\ ~Exhausted(worker.retries)
    /\ worker' = Resting
    /\ UNCHANGED <<store, lists, call, accepted, history>>

\* after a pause, which the jobs behind it sit out too
Retry ==
    LET m == worker.pay IN
    /\ Busy("retry")
    /\ ~Exhausted(worker.retries)
    /\ \/ /\ queue' = Append(queue, [pay |-> m, retries |-> worker.retries + 1])
          /\ UNCHANGED dropped
       \/ Fault("StoreError") /\ dropped' = dropped \union {m} /\ UNCHANGED queue
    /\ worker' = Resting
    /\ UNCHANGED <<store, dlq, call, accepted, failures, repeats, expired>>

GiveUp ==
    LET m == worker.pay IN
    /\ Busy("retry")
    /\ Exhausted(worker.retries)
    /\ \/ dlq' = Append(dlq, [pay |-> m, retries |-> worker.retries]) /\ UNCHANGED dropped
       \/ Fault("StoreError") /\ dropped' = dropped \union {m} /\ UNCHANGED dlq
    /\ Proceed("close")
    /\ UNCHANGED <<store, queue, call, accepted, failures, repeats, expired>>

ReportFailed ==
    /\ Busy("close")
    /\ \/ refund' = Marked(worker.pay, "failed")
       \/ Fault("StoreError") /\ UNCHANGED refund
    /\ worker' = Resting
    /\ UNCHANGED <<paid, lock, webhooks, lists, call, accepted, history>>

-----------------------------------------------------------------------------
(* The gateway's webhook, expiry and crashes *)

\* The payload is saved.  The update of the refund document has no operator ($set), so the
\* driver rejects it, and the handler ignores the error.
RefundWebhook(m, st) ==
    /\ accepted[m] > 0
    /\ webhooks' = [webhooks EXCEPT ![m] = @ \union {st}]
    /\ UNCHANGED <<paid, lock, refund, lists, call, worker, accepted, history>>

\* after 24 hours
LockExpires(m) ==
    /\ Fault("Expiry")
    /\ m \in lock /\ expired[m] < MaxExpiries
    /\ lock' = lock \ {m}
    /\ expired' = [expired EXCEPT ![m] = @ + 1]
    /\ UNCHANGED <<paid, refund, webhooks, lists, call, worker, accepted,
                   failures, repeats, dropped>>

\* the worker has a job of m whose refund is not reported yet; call c is about to push one
InHand(m) == worker.pay = m /\ worker.pc \in {"mark", "refund", "retry"}
Pushing(c, m) == At(c, "push") /\ call[c].pay = m

\* the server dies with its requests and with the job in the worker's hands
Crash ==
    /\ Fault("Crash")
    /\ dropped' = dropped \union {m \in Payment : InHand(m) \/ \E c \in Request : Pushing(c, m)}
    /\ call' = [c \in Request |-> Idle]
    /\ worker' = Resting
    /\ UNCHANGED <<store, lists, accepted, failures, repeats, expired>>

-----------------------------------------------------------------------------
(* Specification *)

Continue(c) == Claim(c) \/ Push(c) \/ Create(c)

Work ==
    \/ Take \/ MarkProcessing \/ ProcessRefund \/ ProcessRefundFails \/ ProcessRefundUnknown
    \/ ReportQueued \/ Retry \/ GiveUp \/ ReportFailed

Next ==
    \/ \E c \in Request : Continue(c) \/ \E m \in Payment : CancelService(c, m)
    \/ Work
    \/ \E m \in Payment : ProcessWebhook(m) \/ LockExpires(m) \/ \E st \in Report : RefundWebhook(m, st)
    \/ Crash

Spec == Init /\ [][Next]_vars

\* A call goes on as long as the process lives, and the worker loops forever.
FairSpec == Spec /\ WF_vars(Work) /\ \A c \in Request : WF_vars(Continue(c))

-----------------------------------------------------------------------------
(* Properties *)

\* However many calls of CancelService and attempts of the worker there are, a payment is
\* refunded once, but for the replies that were lost and for the expiries of refund:lock.
RefundedOnce == \A m \in Payment : accepted[m] <= 1 + repeats[m] + expired[m]

\* A refund shown as queued was accepted by the gateway; one shown as failed has been tried
\* MaxRetries + 1 times, also when the document was created long after its job had been pushed.
ShownIsTrue ==
    \A m \in Payment : \A i \in DOMAIN refund[m] :
        /\ refund[m][i] = "queued" => accepted[m] > 0
        /\ refund[m][i] = "failed" => failures[m] > MaxRetries

\* What a refund document says last stays: it changes again only after refund:lock has expired
\* and a second claim has put another job of the payment into the queue. No retry, crash, late
\* document or second cancellation takes "queued" or "failed" back.
Final == {"queued", "failed"}
ShownIsFinal ==
    [][\A m \in Payment : \A i \in DOMAIN refund[m] :
          refund[m][i] \in Final /\ expired[m] = 0 => refund'[m][i] = refund[m][i]]_vars

\* A refund that CancelService has claimed is accepted by the gateway or lies in the dead
\* letter queue at last, unless a crash or a failed push has lost its job.
GivenUp(m) == \E i \in DOMAIN dlq : dlq[i].pay = m
RefundSettles ==
    \A m \in Payment :
        (\E c \in Request : Pushing(c, m))
            ~> (accepted[m] > 0 \/ GivenUp(m) \/ m \in dropped)
=============================================================================
