------------------------------ MODULE Payment ------------------------------
(***************************************************************************)
(* From the gateway's verdict on a transaction to its consequences: the    *)
(* booking is marked paid or failed, and an invoice is made.               *)
(*                                                                         *)
(* The verdict comes by webhook, any number of times, or is asked for by   *)
(* VerifyPayment.  The webhook puts a job into a channel in memory, from   *)
(* which a few goroutines take it, under the Redis lock payment:job:lock:T;*)
(* VerifyPayment draws the consequences in a goroutine of its own, without *)
(* lock or retry.  Invoices are made by one more goroutine from the Redis  *)
(* list invoice:queue.                                                     *)
(*                                                                         *)
(* An action is one call to a store or to the gateway, or one operation on *)
(* the channel.  Amounts, coupons and messages to the apps are left out.   *)
(***************************************************************************)
EXTENDS Integers, Sequences, FiniteSets

CONSTANTS
    Txn,            \* txnid: each is created at most once
    Booking,
    BookingOf,      \* the booking of each transaction
    Worker,         \* goroutines paymentWorker (5)
    Request,        \* handlers in flight at one time
    Verifier,       \* goroutines of VerifyPayment in flight at one time
    NoTxn,          \* no transaction
    Attempts,       \* how often a worker tries a job (3)
    Capacity,       \* of the channel of jobs (1000)
    InvoiceRetries, \* how often an invoice job is pushed back (5)
    MaxFaults       \* bound: store errors, expired locks and crashes, all told

ASSUME PaymentAssumption ==
    /\ BookingOf \in [Txn -> Booking]
    /\ NoTxn \notin Txn
    /\ Worker \intersect Request = {}
    /\ Verifier \intersect (Worker \union Request) = {}
    /\ IsFiniteSet(Worker) /\ IsFiniteSet(Verifier)
    /\ Attempts \in Nat \ {0}
    /\ Capacity \in Nat \ {0}
    /\ InvoiceRetries \in Nat
    /\ MaxFaults \in Nat

VARIABLES
    captured,   \* gateway: transactions whose money it has
    declined,   \* gateway: transactions it has declined, perhaps before it captured them
    txn,        \* payment_transactions: status, "none" before the insert
    invoiced,   \* payment_transactions: invoiceGenerated
    payment,    \* acceptedservices: paymentStatus
    invoices,   \* number of documents in invoices that the jobs of a transaction made, without
                \* those whose attempt failed before it marked the transaction
    reserve,    \* bookings with key payment:reserve
    lock,       \* transactions with key payment:job:lock
    jobs,       \* the channel
    act,        \* what workers, requests and verifiers are at
    invq,       \* invoice:queue
    inv,        \* the invoice worker
    runs,       \* history: how often afterPaymentSuccess came to its end
    verified,   \* history: how often VerifyPayment has started it
    expired,    \* history: expiries of the lock
    lost,       \* history: transactions with a success job lost to a fault
    faults      \* how many there were

gateway == <<captured, declined>>
docs    == <<txn, invoiced, payment, invoices>>
keys    == <<reserve, lock>>
billing == <<invq, inv>>
history == <<runs, verified, expired, lost>>
vars    == <<gateway, docs, keys, jobs, act, billing, history, faults>>

-----------------------------------------------------------------------------
(* Jobs and runners *)

Outcome == {"success", "failed"}

Job == [txn: Txn, to: Outcome]
InvoiceJob == [txn: Txn, retry: 0..InvoiceRetries]

\* workers and verifiers run afterPaymentSuccess and afterPaymentFailed
Runner == Worker \union Verifier
Process == Runner \union Request

After == {"paid_load", "paid_write", "paid_publish", "failed_write"}
Task == [pc: {"idle", "create", "hook_note", "hook_enqueue", "hook_write",
              "verify_ask", "verify_write", "lock"} \union After,
         txn: Txn \union {NoTxn}, to: Outcome, tries: 0..(Attempts - 1)]

Idle == [pc |-> "idle", txn |-> NoTxn, to |-> "success", tries |-> 0]

InvoiceTask == [pc: {"idle", "fetch", "generate", "mark", "retry"},
                txn: Txn \union {NoTxn}, retry: 0..InvoiceRetries]
Resting == [pc |-> "idle", txn |-> NoTxn, retry |-> 0]

At(x, label) == act[x].pc = label
Goto(x, label) == act' = [act EXCEPT ![x].pc = label]
Return(x) == act' = [act EXCEPT ![x] = Idle]
Enter(x, label, t, to) == act' = [act EXCEPT ![x] = [pc |-> label, txn |-> t, to |-> to, tries |-> 0]]

\* where the consequences of an outcome begin
Begin(to) == IF to = "success" THEN "paid_load" ELSE "failed_write"

\* a success job is lost, a failure job forgotten
Lose(t, to) == lost' = IF to = "success" THEN lost \union {t} ELSE lost

Status(to) == IF to = "success" THEN "paid" ELSE "failed"

TypeOK ==
    /\ captured \subseteq Txn /\ declined \subseteq Txn
    /\ txn      \in [Txn -> {"none", "pending", "paid", "failed"}]
    /\ invoiced \subseteq Txn
    /\ payment  \in [Booking -> {"pending", "paid", "failed"}]
    /\ invoices \in [Txn -> Nat]
    /\ reserve  \subseteq Booking
    /\ lock     \subseteq Txn
    /\ jobs     \in Seq(Job) /\ Len(jobs) <= Capacity
    /\ act      \in [Process -> Task] /\ \A x \in Process : act[x].pc # "idle" => act[x].txn # NoTxn
    /\ invq     \in Seq(InvoiceJob)
    /\ inv      \in InvoiceTask /\ (inv.pc # "idle" => inv.txn # NoTxn)
    /\ runs     \in [Txn -> Nat]
    /\ verified \in [Txn -> Nat]
    /\ expired  \in [Txn -> Nat]
    /\ lost     \subseteq Txn
    /\ faults   \in 0..MaxFaults

Init ==
    /\ captured = {} /\ declined = {}
    /\ txn      = [t \in Txn |-> "none"]
    /\ invoiced = {}
    /\ payment  = [b \in Booking |-> "pending"]
    /\ invoices = [t \in Txn |-> 0]
    /\ reserve  = {} /\ lock = {}
    /\ jobs     = <<>>
    /\ act      = [x \in Process |-> Idle]
    /\ invq     = <<>>
    /\ inv      = Resting
    /\ runs     = [t \in Txn |-> 0]
    /\ verified = [t \in Txn |-> 0]
    /\ expired  = [t \in Txn |-> 0]
    /\ lost     = {}
    /\ faults   = 0

-----------------------------------------------------------------------------
(* InitiatePayment *)

\* Lua: "payment already in progress" unless the key is free (that the mechanic is online is
\* in module Assignment)
InitiatePayment(r, t) ==
    /\ At(r, "idle")
    /\ txn[t] = "none" /\ \A q \in Request : ~(At(q, "create") /\ act[q].txn = t)
    /\ BookingOf[t] \notin reserve
    /\ reserve' = reserve \union {BookingOf[t]}
    /\ Enter(r, "create", t, "success")
    /\ UNCHANGED <<gateway, docs, lock, jobs, billing, history>>

CreateTransaction(r) ==
    /\ At(r, "create")
    /\ txn' = [txn EXCEPT ![act[r].txn] = "pending"]
    /\ Return(r)
    /\ UNCHANGED <<gateway, invoiced, payment, invoices, keys, jobs, billing, history>>

\* an error of the deletion is ignored
CreateFails(r) ==
    /\ At(r, "create")
    /\ reserve' \in {reserve, reserve \ {BookingOf[act[r].txn]}}
    /\ Return(r)
    /\ UNCHANGED <<gateway, docs, lock, jobs, billing, history>>

\* after 120 seconds
ReserveExpires(b) ==
    /\ b \in reserve
    /\ reserve' = reserve \ {b}
    /\ UNCHANGED <<gateway, docs, lock, jobs, act, billing, history>>

-----------------------------------------------------------------------------
(* The gateway: it may capture a payment that it has reported as declined *)

Capture(t) ==
    /\ txn[t] # "none" /\ t \notin captured
    /\ captured' = captured \union {t}
    /\ UNCHANGED <<declined, docs, keys, jobs, act, billing, history>>

Decline(t) ==
    /\ txn[t] # "none" /\ t \notin captured \union declined
    /\ declined' = declined \union {t}
    /\ UNCHANGED <<captured, docs, keys, jobs, act, billing, history>>

-----------------------------------------------------------------------------
(* ProcessWebhook *)

\* a webhook arrives, not for the first time perhaps, and not in order
ProcessWebhook(r, t, to) ==
    /\ At(r, "idle")
    /\ t \in IF to = "success" THEN captured ELSE declined
    /\ ~(txn[t] = "paid" /\ to = "success")
    /\ Enter(r, IF to = "success" THEN "hook_enqueue" ELSE "hook_note", t, to)
    /\ UNCHANGED <<gateway, docs, keys, jobs, billing, history>>

\* a failure is written with its reason before the job is queued
WebhookNote(r) ==
    /\ At(r, "hook_note")
    /\ txn' = [txn EXCEPT ![act[r].txn] = "failed"]
    /\ Goto(r, "hook_enqueue")
    /\ UNCHANGED <<gateway, invoiced, payment, invoices, keys, jobs, billing, history>>

\* a full channel drops the job
WebhookEnqueue(r) ==
    /\ At(r, "hook_enqueue")
    /\ \/ /\ Len(jobs) < Capacity
          /\ jobs' = Append(jobs, [txn |-> act[r].txn, to |-> act[r].to])
          /\ UNCHANGED lost
       \/ /\ Len(jobs) >= Capacity
          /\ Lose(act[r].txn, act[r].to)
          /\ UNCHANGED jobs
    /\ Goto(r, "hook_write")
    /\ UNCHANGED <<gateway, docs, keys, billing, runs, verified, expired>>

\* only now is a success written, whatever the status is by now; the reservation goes before
WebhookWrite(r) ==
    LET t == act[r].txn IN
    /\ At(r, "hook_write")
    /\ reserve' = reserve \ {BookingOf[t]}
    /\ txn' = [txn EXCEPT ![t] = Status(act[r].to)]
    /\ Return(r)
    /\ UNCHANGED <<gateway, invoiced, payment, invoices, lock, jobs, billing, history>>

\* an update fails: the first one is ignored, the second one ends the handler
WebhookFails(r) ==
    /\ \/ At(r, "hook_note") /\ Goto(r, "hook_enqueue") /\ UNCHANGED reserve
       \/ /\ At(r, "hook_write")
          /\ reserve' = reserve \ {BookingOf[act[r].txn]}
          /\ Return(r)
    /\ UNCHANGED <<gateway, docs, lock, jobs, billing, history>>

-----------------------------------------------------------------------------
(* VerifyPayment *)

VerifyPayment(r, t) ==
    /\ At(r, "idle")
    /\ txn[t] = "pending"
    /\ Enter(r, "verify_ask", t, "success")
    /\ UNCHANGED <<gateway, docs, keys, jobs, billing, history>>

\* mutation: what is not a failure is taken for a success
VerdictOptimist(t) == IF t \in declined \ captured THEN "failed" ELSE "success"

\* the gateway's answer
Verdict(t) ==
    IF t \in captured THEN "success" ELSE IF t \in declined THEN "failed" ELSE "pending"

VerifyAsk(r) ==
    LET answer == Verdict(act[r].txn) IN
    /\ At(r, "verify_ask")
    /\ \/ /\ answer \in Outcome
          /\ act' = [act EXCEPT ![r].pc = "verify_write", ![r].to = answer]
       \/ answer = "pending" /\ Return(r)
    /\ UNCHANGED <<gateway, docs, keys, jobs, billing, history>>

\* a goroutine draws the consequences
VerifyWrite(r, v) ==
    LET t == act[r].txn  to == act[r].to IN
    /\ At(r, "verify_write") /\ At(v, "idle")
    /\ txn' = [txn EXCEPT ![t] = Status(to)]
    /\ act' = [act EXCEPT ![r] = Idle, ![v] = [pc |-> Begin(to), txn |-> t, to |-> to, tries |-> 0]]
    /\ verified' = IF to = "success" THEN [verified EXCEPT ![t] = @ + 1] ELSE verified
    /\ UNCHANGED <<gateway, invoiced, payment, invoices, keys, jobs, billing, runs, expired, lost>>

\* no answer; or the update fails, or its reply is lost: no consequences
VerifyFails(r) ==
    /\ \/ At(r, "verify_ask") /\ UNCHANGED txn
       \/ /\ At(r, "verify_write")
          /\ txn' \in {txn, [txn EXCEPT ![act[r].txn] = Status(act[r].to)]}
    /\ Return(r)
    /\ UNCHANGED <<gateway, invoiced, payment, invoices, keys, jobs, billing, history>>

-----------------------------------------------------------------------------
(* paymentWorker *)

Take(w) ==
    /\ At(w, "idle") /\ jobs # <<>>
    /\ Enter(w, "lock", Head(jobs).txn, Head(jobs).to)
    /\ jobs' = Tail(jobs)
    /\ UNCHANGED <<gateway, docs, keys, billing, history>>

\* mutation: the result of SetNX is not looked at
LockAlways(w) ==
    /\ At(w, "lock")
    /\ lock' = lock \union {act[w].txn}
    /\ Goto(w, Begin(act[w].to))
    /\ UNCHANGED <<gateway, docs, reserve, jobs, billing, history>>

\* SetNX; the key stays for five minutes, for jobs of both outcomes
Lock(w) ==
    /\ At(w, "lock") /\ act[w].txn \notin lock
    /\ lock' = lock \union {act[w].txn}
    /\ Goto(w, Begin(act[w].to))
    /\ UNCHANGED <<gateway, docs, reserve, jobs, billing, history>>

\* "already processed", perhaps with the other outcome
Skip(w) ==
    /\ At(w, "lock") /\ act[w].txn \in lock
    /\ Return(w)
    /\ UNCHANGED <<gateway, docs, keys, jobs, billing, history>>

\* an error of SetNX, which may have set the key, is taken for "already processed"
LockFails(w) ==
    LET t == act[w].txn IN
    /\ At(w, "lock")
    /\ lock' \in {lock, lock \union {t}}
    /\ Lose(t, act[w].to)
    /\ Return(w)
    /\ UNCHANGED <<gateway, docs, reserve, jobs, billing, runs, verified, expired>>

\* a worker is done with a success within the life of its key (3 attempts of 12 seconds)
Acting(w, t) == act[w].txn = t /\ act[w].pc \in {"paid_load", "paid_write", "paid_publish"}

LockExpires(t) ==
    /\ t \in lock /\ ~\E w \in Worker : Acting(w, t)
    /\ lock' = lock \ {t}
    /\ expired' = [expired EXCEPT ![t] = @ + 1]
    /\ UNCHANGED <<gateway, docs, reserve, jobs, act, billing, runs, verified, lost>>

-----------------------------------------------------------------------------
(* afterPaymentSuccess and afterPaymentFailed, in a worker or a verifier *)

\* mutation: a transaction that is not paid yet is left alone
PaidLoadStrict(x) ==
    LET t == act[x].txn IN
    /\ At(x, "paid_load")
    /\ IF t \in invoiced \/ txn[t] # "paid" THEN Return(x) ELSE Goto(x, "paid_write")
    /\ UNCHANGED <<gateway, docs, keys, jobs, billing, history>>

\* nothing is left to do when there is an invoice
PaidLoad(x) ==
    /\ At(x, "paid_load")
    /\ IF act[x].txn \in invoiced THEN Return(x) ELSE Goto(x, "paid_write")
    /\ UNCHANGED <<gateway, docs, keys, jobs, billing, history>>

\* UpdatePaymentStatus: also after a failure
PaidWrite(x) ==
    /\ At(x, "paid_write")
    /\ payment' = [payment EXCEPT ![BookingOf[act[x].txn]] = "paid"]
    /\ Goto(x, "paid_publish")
    /\ UNCHANGED <<gateway, txn, invoiced, invoices, keys, jobs, billing, history>>

\* the booking is read again, then the invoice job is pushed
PaidPublish(x) ==
    LET t == act[x].txn IN
    /\ At(x, "paid_publish")
    /\ invq' = Append(invq, [txn |-> t, retry |-> 0])
    /\ runs' = [runs EXCEPT ![t] = @ + 1]
    /\ Return(x)
    /\ UNCHANGED <<gateway, docs, keys, jobs, inv, verified, expired, lost>>

\* UpdatePaymentStatus: also after a success
FailedWrite(x) ==
    /\ At(x, "failed_write")
    /\ payment' = [payment EXCEPT ![BookingOf[act[x].txn]] = "failed"]
    /\ Return(x)
    /\ UNCHANGED <<gateway, txn, invoiced, invoices, keys, jobs, billing, history>>

\* errors that are ignored: of the push, and of the update after a failure
ErrorIgnored(x) ==
    LET t == act[x].txn IN
    /\ \/ At(x, "paid_publish") /\ runs' = [runs EXCEPT ![t] = @ + 1]
       \/ At(x, "failed_write") /\ UNCHANGED runs
    /\ Return(x)
    /\ UNCHANGED <<gateway, docs, keys, jobs, billing, verified, expired, lost>>

\* mutation: one attempt too many
LastLate(n) == n >= Attempts

Last(n) == n + 1 >= Attempts

\* an attempt fails; the update of the booking may have been applied.  A worker tries again.
AttemptFails(x) ==
    LET t == act[x].txn  to == act[x].to IN
    /\ act[x].pc \in After
    /\ \/ UNCHANGED payment
       \/ At(x, "paid_write") /\ payment' = [payment EXCEPT ![BookingOf[t]] = "paid"]
    /\ \/ /\ x \in Worker /\ ~Last(act[x].tries)
          /\ act' = [act EXCEPT ![x].pc = Begin(to), ![x].tries = @ + 1]
          /\ UNCHANGED lost
       \/ /\ x \in Verifier \/ Last(act[x].tries)
          /\ Return(x)
          /\ Lose(t, to)
    /\ UNCHANGED <<gateway, txn, invoiced, invoices, keys, jobs, billing,
                   runs, verified, expired>>

-----------------------------------------------------------------------------
(* The invoice worker *)

Proceed(label) == inv' = [inv EXCEPT !.pc = label]

\* BRPop: from here on the job exists in the worker's memory only
InvoiceTake ==
    /\ inv.pc = "idle" /\ invq # <<>>
    /\ inv' = [pc |-> "fetch", txn |-> Head(invq).txn, retry |-> Head(invq).retry]
    /\ invq' = Tail(invq)
    /\ UNCHANGED <<gateway, docs, keys, jobs, act, history>>

\* mutation: the flag is not looked at
InvoiceFetchBlind ==
    /\ inv.pc = "fetch"
    /\ Proceed("generate")
    /\ UNCHANGED <<gateway, docs, keys, jobs, act, invq, history>>

\* "invoice already generated"
InvoiceFetch ==
    /\ inv.pc = "fetch"
    /\ IF inv.txn \in invoiced THEN inv' = Resting ELSE Proceed("generate")
    /\ UNCHANGED <<gateway, docs, keys, jobs, act, invq, history>>

\* GetLatestPaidTransactionByServiceID, of this transaction or another one
SomePaid(b) == \E t \in Txn : BookingOf[t] = b /\ txn[t] = "paid"

\* GenerateInvoice: insert the document, render it and upload it
InvoiceGenerate ==
    LET t == inv.txn IN
    /\ inv.pc = "generate"
    /\ SomePaid(BookingOf[t])
    /\ invoices' = [invoices EXCEPT ![t] = @ + 1]
    /\ Proceed("mark")
    /\ UNCHANGED <<gateway, txn, invoiced, payment, keys, jobs, act, invq, history>>

\* "invoice cannot be generated without successful payment"
InvoiceRefused ==
    /\ inv.pc = "generate"
    /\ ~SomePaid(BookingOf[inv.txn])
    /\ Proceed("retry")
    /\ UNCHANGED <<gateway, docs, keys, jobs, act, invq, history>>

\* the invoice of the job in hand remains unmarked
Disown == invoices' = [invoices EXCEPT ![inv.txn] = @ - 1]

\* mutation: the filter of the update looks at the flag alone
InvoiceMarkUnpaid ==
    /\ inv.pc = "mark" /\ inv.txn \notin invoiced
    /\ invoiced' = invoiced \union {inv.txn}
    /\ inv' = Resting
    /\ UNCHANGED <<gateway, txn, payment, invoices, keys, jobs, act, invq, history>>

\* MarkInvoiceGenerated: under a condition on the flag and the status
InvoiceMark ==
    LET t == inv.txn IN
    /\ inv.pc = "mark"
    /\ t \notin invoiced /\ txn[t] = "paid"
    /\ invoiced' = invoiced \union {t}
    /\ inv' = Resting
    /\ UNCHANGED <<gateway, txn, payment, invoices, keys, jobs, act, invq, history>>

\* "already marked by another worker", in truth not paid any more
InvoiceUnmarked ==
    LET t == inv.txn IN
    /\ inv.pc = "mark"
    /\ t \in invoiced \/ txn[t] # "paid"
    /\ Disown
    /\ inv' = Resting
    /\ UNCHANGED <<gateway, txn, invoiced, payment, keys, jobs, act, invq, history>>

\* push the job back, five times at most
InvoiceRetry ==
    /\ inv.pc = "retry"
    /\ invq' = IF inv.retry < InvoiceRetries
               THEN Append(invq, [txn |-> inv.txn, retry |-> inv.retry + 1]) ELSE invq
    /\ inv' = Resting
    /\ UNCHANGED <<gateway, docs, keys, jobs, act, history>>

\* a call fails, or the upload, or only the reply of the insert or of the mark is lost; when
\* it is the push that fails, the job is lost
InvoiceFails ==
    /\ \/ inv.pc \in {"fetch", "generate"} /\ UNCHANGED <<invoices, invoiced>>
       \/ inv.pc = "mark" /\ Disown /\ UNCHANGED invoiced
       \/ /\ inv.pc = "mark" /\ txn[inv.txn] = "paid"
          /\ invoiced' = invoiced \union {inv.txn}
          /\ UNCHANGED invoices
    /\ Proceed("retry")
    /\ UNCHANGED <<gateway, txn, payment, keys, jobs, act, invq, history>>

InvoicePushFails ==
    /\ inv.pc = "retry"
    /\ inv' = Resting
    /\ UNCHANGED <<gateway, docs, keys, jobs, act, invq, history>>

-----------------------------------------------------------------------------
(* Crashes *)

\* a success job of t that exists in memory only
InMemory(t) ==
    \/ \E i \in DOMAIN jobs : jobs[i] = [txn |-> t, to |-> "success"]
    \/ \E x \in Process : /\ act[x].txn = t /\ act[x].to = "success"
                          /\ act[x].pc \in {"hook_enqueue", "lock"} \union After

\* the process dies with its channel, its goroutines and the invoice job in hand
Crash ==
    /\ lost' = lost \union {t \in Txn : InMemory(t)}
    /\ IF inv.pc = "mark" THEN Disown ELSE UNCHANGED invoices
    /\ jobs' = <<>>
    /\ act' = [x \in Process |-> Idle]
    /\ inv' = Resting
    /\ UNCHANGED <<gateway, txn, invoiced, payment, keys, invq, runs, verified, expired>>

\* the customer cannot be read: a nil dereference, from which a worker recovers and drops
\* its job, while in the goroutine of VerifyPayment it ends the process
Panic(x) ==
    /\ At(x, "paid_publish")
    /\ \/ /\ x \in Worker
          /\ Return(x)
          /\ Lose(act[x].txn, "success")
          /\ UNCHANGED <<gateway, docs, keys, jobs, billing, runs, verified, expired>>
       \/ x \in Verifier /\ Crash

-----------------------------------------------------------------------------
(* Specification *)

Consequences(x) ==
    PaidLoad(x) \/ PaidWrite(x) \/ PaidPublish(x) \/ FailedWrite(x)

Continue(r) ==
    \/ CreateTransaction(r)
    \/ WebhookNote(r) \/ WebhookEnqueue(r) \/ WebhookWrite(r)
    \/ VerifyAsk(r) \/ \E v \in Verifier : VerifyWrite(r, v)

Work(w) == Take(w) \/ Lock(w) \/ Skip(w)

Bill ==
    \/ InvoiceTake \/ InvoiceFetch \/ InvoiceGenerate \/ InvoiceRefused
    \/ InvoiceMark \/ InvoiceUnmarked \/ InvoiceRetry

Proper ==
    \/ \E r \in Request :
          \/ Continue(r)
          \/ \E t \in Txn : \/ InitiatePayment(r, t) \/ VerifyPayment(r, t)
                            \/ \E to \in Outcome : ProcessWebhook(r, t, to)
    \/ \E w \in Worker : Work(w)
    \/ \E x \in Runner : Consequences(x)
    \/ \E t \in Txn : Capture(t) \/ Decline(t)
    \/ \E b \in Booking : ReserveExpires(b)
    \/ Bill

Fault ==
    \/ \E r \in Request : CreateFails(r) \/ WebhookFails(r) \/ VerifyFails(r)
    \/ \E w \in Worker : LockFails(w)
    \/ \E x \in Runner : AttemptFails(x) \/ ErrorIgnored(x) \/ Panic(x)
    \/ \E t \in Txn : LockExpires(t)
    \/ InvoiceFails \/ InvoicePushFails
    \/ Crash

Next ==
    \/ Proper /\ UNCHANGED faults
    \/ Fault /\ faults < MaxFaults /\ faults' = faults + 1

Spec == Init /\ [][Next]_vars

\* Handlers and goroutines go on as long as the process lives; customers, the gateway and
\* the faults get no fairness.
FairSpec ==
    /\ Spec
    /\ \A r \in Request : WF_vars(Continue(r) /\ UNCHANGED faults)
    /\ \A w \in Worker : WF_vars((Work(w) \/ Consequences(w)) /\ UNCHANGED faults)
    /\ \A v \in Verifier : WF_vars(Consequences(v) /\ UNCHANGED faults)
    /\ WF_vars(Bill /\ UNCHANGED faults)

-----------------------------------------------------------------------------
(* Properties *)

\* What the documents say has happened at the gateway: no booking counts as paid, and no
\* transaction as paid or failed, on account of a job, a retry or an answer that is not the
\* gateway's verdict; and an invoice is marked only where one exists.
Grounded ==
    /\ \A t \in Txn : /\ txn[t] = "paid" => t \in captured
                      /\ txn[t] = "failed" => t \in declined
                      /\ t \in invoiced => invoices[t] > 0 /\ t \in captured
    /\ \A b \in Booking : payment[b] = "paid" => \E t \in captured : BookingOf[t] = b

\* However often the webhook arrives, the consequences of a success are drawn once, but for
\* the runs that VerifyPayment starts and for the expiries of payment:job:lock.
ConfirmedOnce == \A t \in Txn : runs[t] <= 1 + verified[t] + expired[t]

\* "invoice already generated": a transaction gets one invoice, however many jobs there are
\* for it, but for attempts that failed between the insert and the mark.
InvoicedOnce == \A t \in Txn : invoices[t] <= 1

\* The documents as a ledger of the gateway's verdicts (module Ledger): whatever the channel, the
\* workers, the goroutines of VerifyPayment, the invoice worker, retries and crashes do, each
\* step enters at most one fact, and only one that the gateway has decided. A transaction never
\* goes back to pending, a booking is told the verdict on a transaction of its own, and an
\* invoice is noted once, while its transaction is shown as paid.
Abstract == INSTANCE Ledger
LedgerRefined == Abstract!Spec

\* A success that the webhook queues has its consequences, although its job starts before the
\* transaction is paid: unless the same transaction was declined before, which leaves the
\* lock behind, or a fault has lost the job.
SuccessConfirmed ==
    \A t \in Txn :
        (\E r \in Request : At(r, "hook_enqueue") /\ act[r].txn = t /\ act[r].to = "success")
            ~> (runs[t] > 0 \/ t \in declined \/ t \in lost)
=============================================================================
