------------------------- MODULE RefundQueue_proofs -------------------------
(***************************************************************************)
(* Proofs about module RefundQueue, for any number of payments and calls,  *)
(* any number of retries, and any combination of faults.                   *)
(***************************************************************************)
EXTENDS RefundQueue, FunctionTheorems, FiniteSetTheorems, TLAPS

-----------------------------------------------------------------------------
(* Types *)

LEMMA AppendElements ==
    ASSUME NEW S, NEW s \in Seq(S), NEW e \in S
    PROVE  /\ Append(s, e) \in Seq(S)
           /\ DOMAIN Append(s, e) = DOMAIN s \union {Len(s) + 1}
           /\ Len(s) + 1 \notin DOMAIN s
           /\ \A i \in DOMAIN s : Append(s, e)[i] = s[i]
           /\ Append(s, e)[Len(s) + 1] = e
OBVIOUS

LEMMA MarkedType ==
    ASSUME refund \in [Payment -> Seq(RefundStatus)], NEW m \in Payment, NEW st \in RefundStatus
    PROVE  /\ Marked(m, st) \in [Payment -> Seq(RefundStatus)]
           /\ \A n \in Payment : \A i \in DOMAIN Marked(m, st)[n] :
                 /\ i \in DOMAIN refund[n]
                 /\ Marked(m, st)[n][i] = refund[n][i] \/ (n = m /\ Marked(m, st)[n][i] = st)
BY DEF Marked

CallsOK == call \in [Request -> Call] /\ \A c \in Request : call[c].pc # "idle" => call[c].pay # None
WorkerOK == worker \in Worker /\ (worker.pc # "idle" => worker.pay # None)
ListsOK == queue \in Seq(Job) /\ dlq \in Seq(Job)
DocsOK == refund \in [Payment -> Seq(RefundStatus)]
RestOK ==
    /\ paid     \subseteq Payment
    /\ lock     \subseteq Payment
    /\ webhooks \in [Payment -> SUBSET Report]
    /\ accepted \in [Payment -> Nat]
    /\ failures \in [Payment -> Nat]
    /\ repeats  \in [Payment -> Nat]
    /\ expired  \in [Payment -> 0..MaxExpiries]
    /\ dropped  \subseteq Payment

LEMMA Parts == TypeOK <=> CallsOK /\ WorkerOK /\ ListsOK /\ DocsOK /\ RestOK
BY DEF TypeOK, CallsOK, WorkerOK, ListsOK, DocsOK, RestOK

LEMMA CallsStep ==
    ASSUME CallsOK, [Next]_vars
    PROVE  CallsOK'
<1>1. ASSUME NEW c \in Request, NEW m \in Payment, CancelService(c, m) PROVE CallsOK'
    BY <1>1, RefundAssumption DEF CallsOK, Call, CancelService
<1>2. ASSUME NEW c \in Request, Continue(c) PROVE CallsOK'
    BY <1>2 DEF CallsOK, Call, Continue, Claim, Push, Create, Goto, Return, Idle, At
<1>3. CASE Work \/ \E m \in Payment : ProcessWebhook(m) \/ LockExpires(m)
                                    \/ \E st \in Report : RefundWebhook(m, st)
    BY <1>3 DEF CallsOK, Work, Take, MarkProcessing, ProcessRefund, ProcessRefundFails,
                ProcessRefundUnknown, ReportQueued, Retry, GiveUp, ReportFailed,
                ProcessWebhook, LockExpires, RefundWebhook
<1>4. CASE Crash
    BY <1>4 DEF CallsOK, Call, Crash, Idle
<1>5. CASE UNCHANGED vars
    BY <1>5 DEF CallsOK, vars
<1> QED BY <1>1, <1>2, <1>3, <1>4, <1>5 DEF Next

LEMMA WorkerStep ==
    ASSUME WorkerOK, ListsOK, [Next]_vars
    PROVE  WorkerOK'
<1>. USE RefundAssumption
<1>1. CASE Take
  <2>1. Head(queue) \in Job
    BY <1>1 DEF Take, ListsOK
  <2> QED BY <1>1, <2>1 DEF Take, WorkerOK, Worker, Job
<1>2. CASE MarkProcessing \/ ProcessRefund \/ ProcessRefundFails \/ ProcessRefundUnknown \/ GiveUp
    BY <1>2 DEF MarkProcessing, ProcessRefund, ProcessRefundFails, ProcessRefundUnknown, GiveUp,
                Busy, Proceed, WorkerOK, Worker
<1>3. CASE ReportQueued \/ Retry \/ ReportFailed \/ Crash
    BY <1>3 DEF ReportQueued, Retry, ReportFailed, Crash, Resting, WorkerOK, Worker
<1>4. CASE \/ \E c \in Request : Continue(c) \/ \E m \in Payment : CancelService(c, m)
           \/ \E m \in Payment : \/ ProcessWebhook(m) \/ LockExpires(m)
                                 \/ \E st \in Report : RefundWebhook(m, st)
           \/ UNCHANGED vars
    BY <1>4 DEF WorkerOK, Continue, Claim, Push, Create, CancelService, ProcessWebhook,
                LockExpires, RefundWebhook, vars
<1> QED BY <1>1, <1>2, <1>3, <1>4 DEF Next, Work

LEMMA ListsStep ==
    ASSUME CallsOK, WorkerOK, ListsOK, [Next]_vars
    PROVE  ListsOK'
<1>. USE RefundAssumption
<1>1. ASSUME NEW c \in Request, Push(c) PROVE ListsOK'
  <2>1. [pay |-> call[c].pay, retries |-> 0] \in Job
    BY <1>1 DEF Push, At, CallsOK, Call, Job
  <2> QED BY <1>1, <2>1 DEF Push, ListsOK
<1>2. CASE Take
    BY <1>2 DEF Take, ListsOK
<1>3. CASE Retry
  <2>1. [pay |-> worker.pay, retries |-> worker.retries + 1] \in Job
    BY <1>3 DEF Retry, Busy, Exhausted, WorkerOK, Worker, Job
  <2> QED BY <1>3, <2>1 DEF Retry, ListsOK
<1>4. CASE GiveUp
  <2>1. [pay |-> worker.pay, retries |-> worker.retries] \in Job
    BY <1>4 DEF GiveUp, Busy, WorkerOK, Worker, Job
  <2> QED BY <1>4, <2>1 DEF GiveUp, ListsOK
<1>5. CASE \/ \E c \in Request : Claim(c) \/ Create(c) \/ \E m \in Payment : CancelService(c, m)
           \/ MarkProcessing \/ ProcessRefund \/ ProcessRefundFails \/ ProcessRefundUnknown
           \/ ReportQueued \/ ReportFailed \/ Crash
           \/ \E m \in Payment : \/ ProcessWebhook(m) \/ LockExpires(m)
                                 \/ \E st \in Report : RefundWebhook(m, st)
           \/ UNCHANGED vars
    BY <1>5 DEF ListsOK, lists, Claim, Create, CancelService, MarkProcessing, ProcessRefund,
                ProcessRefundFails, ProcessRefundUnknown, ReportQueued, ReportFailed, Crash,
                ProcessWebhook, LockExpires, RefundWebhook, vars
<1> QED BY <1>1, <1>2, <1>3, <1>4, <1>5 DEF Next, Work, Continue

LEMMA DocsStep ==
    ASSUME CallsOK, WorkerOK, DocsOK, [Next]_vars
    PROVE  DocsOK'
<1>1. ASSUME NEW c \in Request, Create(c) PROVE DocsOK'
  <2>1. call[c].pay \in Payment /\ "pending" \in RefundStatus
    BY <1>1 DEF Create, At, CallsOK, Call, RefundStatus
  <2>2. Append(refund[call[c].pay], "pending") \in Seq(RefundStatus)
    BY <2>1 DEF DocsOK
  <2>3. CASE refund' = [refund EXCEPT ![call[c].pay] = Append(@, "pending")]
    BY <2>2, <2>3 DEF DocsOK
  <2> QED BY <1>1, <2>3 DEF Create, DocsOK
<1>2. CASE MarkProcessing \/ ReportQueued \/ ReportFailed
  <2>1. worker.pay \in Payment
    BY <1>2 DEF MarkProcessing, ReportQueued, ReportFailed, Busy, WorkerOK, Worker
  <2>2. \A st \in {"processing", "queued", "failed"} :
           Marked(worker.pay, st) \in [Payment -> Seq(RefundStatus)]
    BY <2>1, MarkedType DEF DocsOK, RefundStatus
  <2> QED BY <1>2, <2>2 DEF MarkProcessing, ReportQueued, ReportFailed, DocsOK
<1>3. CASE \/ \E c \in Request : Claim(c) \/ Push(c) \/ \E m \in Payment : CancelService(c, m)
           \/ Take \/ ProcessRefund \/ ProcessRefundFails \/ ProcessRefundUnknown
           \/ Retry \/ GiveUp \/ Crash
           \/ \E m \in Payment : \/ ProcessWebhook(m) \/ LockExpires(m)
                                 \/ \E st \in Report : RefundWebhook(m, st)
           \/ UNCHANGED vars
    BY <1>3 DEF DocsOK, store, Claim, Push, CancelService, Take, ProcessRefund,
                ProcessRefundFails, ProcessRefundUnknown, Retry, GiveUp, Crash,
                ProcessWebhook, LockExpires, RefundWebhook, vars
<1> QED BY <1>1, <1>2, <1>3 DEF Next, Work, Continue

LEMMA RestStep ==
    ASSUME CallsOK, WorkerOK, RestOK, [Next]_vars
    PROVE  RestOK'
<1>. USE RefundAssumption DEF RestOK
<1>1. ASSUME NEW c \in Request, Claim(c) \/ Push(c) PROVE RestOK'
  <2>1. call[c].pay \in Payment
    BY <1>1 DEF Claim, Push, At, CallsOK, Call
  <2> QED BY <1>1, <2>1 DEF Claim, Push, store, history
<1>2. CASE ProcessRefund \/ ProcessRefundFails \/ ProcessRefundUnknown \/ Retry \/ GiveUp
  <2>1. worker.pay \in Payment
    BY <1>2 DEF ProcessRefund, ProcessRefundFails, ProcessRefundUnknown, Retry, GiveUp, Busy,
                WorkerOK, Worker
  <2>2. CASE ProcessRefund
    BY <2>1, <2>2 DEF ProcessRefund, store, history
  <2>3. CASE ProcessRefundFails
    BY <2>1, <2>3 DEF ProcessRefundFails, store
  <2>4. CASE ProcessRefundUnknown
    BY <2>1, <2>4 DEF ProcessRefundUnknown, store
  <2>5. CASE Retry \/ GiveUp
    BY <2>1, <2>5 DEF Retry, GiveUp, store
  <2> QED BY <1>2, <2>2, <2>3, <2>4, <2>5
<1>3. ASSUME NEW m \in Payment, ProcessWebhook(m) PROVE RestOK'
    BY <1>3 DEF ProcessWebhook, history
<1>4. ASSUME NEW m \in Payment, LockExpires(m) PROVE RestOK'
    BY <1>4 DEF LockExpires
<1>5. ASSUME NEW m \in Payment, NEW st \in Report, RefundWebhook(m, st) PROVE RestOK'
    BY <1>5 DEF RefundWebhook, history
<1>6. CASE Crash
    BY <1>6 DEF Crash, store
<1>7. CASE \/ \E c \in Request : Create(c) \/ \E m \in Payment : CancelService(c, m)
           \/ Take \/ MarkProcessing \/ ReportQueued \/ ReportFailed \/ UNCHANGED vars
    BY <1>7 DEF Create, CancelService, Take, MarkProcessing, ReportQueued, ReportFailed,
                store, history, vars
<1> QED BY <1>1, <1>2, <1>3, <1>4, <1>5, <1>6, <1>7 DEF Next, Work, Continue

LEMMA StepType == TypeOK /\ [Next]_vars => TypeOK'
<1>. SUFFICES ASSUME TypeOK, [Next]_vars PROVE TypeOK'
    OBVIOUS
<1>1. CallsOK /\ WorkerOK /\ ListsOK /\ DocsOK /\ RestOK
    BY Parts
<1>2. (CallsOK /\ WorkerOK /\ ListsOK /\ DocsOK /\ RestOK)'
    BY <1>1, CallsStep, WorkerStep, ListsStep, DocsStep, RestStep
<1> QED BY <1>2 DEF TypeOK, CallsOK, WorkerOK, ListsOK, DocsOK, RestOK

\* A job is never counted beyond MaxRetries, and every job, call and document in the system
\* belongs to a payment.
THEOREM RefundTypeCorrect == Spec => []TypeOK
<1>1. Init => TypeOK
    BY RefundAssumption DEF Init, TypeOK, Idle, Resting, Call, Worker
<1> QED BY <1>1, StepType, PTL DEF Spec

-----------------------------------------------------------------------------
(* What a refund document shows *)

\* A job has failed at least as often as it was pushed back, and the worker remembers it.
TriesOK ==
    /\ \A i \in DOMAIN queue : failures[queue[i].pay] >= queue[i].retries
    /\ worker.pc \in {"mark", "refund", "report"} => failures[worker.pay] >= worker.retries
    /\ worker.pc = "retry"  => failures[worker.pay] > worker.retries
    /\ worker.pc = "close"  => failures[worker.pay] > MaxRetries
    /\ worker.pc = "report" => accepted[worker.pay] > 0

\* The history never forgets an attempt.
LEMMA HistoryGrows ==
    ASSUME TypeOK, [Next]_vars
    PROVE  \A m \in Payment : failures'[m] >= failures[m] /\ accepted'[m] >= accepted[m]
<1>1. CASE ProcessRefund
    BY <1>1 DEF ProcessRefund, history, TypeOK
<1>2. CASE ProcessRefundFails
    BY <1>2 DEF ProcessRefundFails, TypeOK
<1>3. CASE ProcessRefundUnknown
    BY <1>3 DEF ProcessRefundUnknown, TypeOK
<1>4. CASE UNCHANGED <<failures, accepted>>
    BY <1>4 DEF TypeOK
<1>5. ProcessRefund \/ ProcessRefundFails \/ ProcessRefundUnknown \/ UNCHANGED <<failures, accepted>>
    BY DEF Next, Work, Continue, Claim, Push, Create, CancelService, Take, MarkProcessing,
           ReportQueued, ReportFailed, Retry, GiveUp, Crash, ProcessWebhook, LockExpires,
           RefundWebhook, vars, history
<1> QED BY <1>1, <1>2, <1>3, <1>4, <1>5

LEMMA TriesStep ==
    ASSUME TypeOK, TypeOK', TriesOK, [Next]_vars
    PROVE  TriesOK'
<1>. USE RefundAssumption
<1>1. \A m \in Payment : /\ failures[m] \in Nat /\ failures'[m] \in Nat /\ failures'[m] >= failures[m]
                         /\ accepted[m] \in Nat /\ accepted'[m] \in Nat /\ accepted'[m] >= accepted[m]
    BY HistoryGrows DEF TypeOK
<1>2. \A i \in DOMAIN queue : queue[i] \in Job
    BY DEF TypeOK
<1>3. worker.pc # "idle" => worker.pay \in Payment /\ worker.retries \in Nat
    BY DEF TypeOK, Worker
<1>4. ASSUME NEW c \in Request, Push(c) PROVE TriesOK'
  <2>1. call[c].pay \in Payment
    BY <1>4 DEF Push, At, TypeOK, Call
  <2>2. \A i \in DOMAIN queue' : \/ i \in DOMAIN queue /\ queue'[i] = queue[i]
                                 \/ queue'[i] = [pay |-> call[c].pay, retries |-> 0]
    <3>1. queue \in Seq(Job) /\ [pay |-> call[c].pay, retries |-> 0] \in Job
      BY <2>1 DEF TypeOK, Job
    <3> QED BY <1>4, <3>1, AppendElements DEF Push
  <2> QED BY <1>1, <1>2, <1>4, <2>1, <2>2 DEF Push, TriesOK, Job
<1>5. CASE Take
  <2>1. /\ worker' = [pc |-> "mark", pay |-> queue[1].pay, retries |-> queue[1].retries]
        /\ 1 \in DOMAIN queue
        /\ \A i \in DOMAIN queue' : i + 1 \in DOMAIN queue /\ queue'[i] = queue[i + 1]
    BY <1>5 DEF Take, TypeOK
  <2>2. UNCHANGED <<failures, accepted>>
    BY <1>5 DEF Take, history
  <2> QED BY <1>2, <2>1, <2>2 DEF TriesOK, Job
<1>6. CASE MarkProcessing \/ ProcessRefund \/ ProcessRefundFails \/ ProcessRefundUnknown
  <2>1. /\ worker.pay \in Payment /\ worker.retries \in Nat /\ worker \in Worker
        /\ failures[worker.pay] >= worker.retries
    BY <1>3, <1>6 DEF MarkProcessing, ProcessRefund, ProcessRefundFails, ProcessRefundUnknown,
                      Busy, TriesOK, TypeOK
  <2>2. UNCHANGED queue
    BY <1>6 DEF MarkProcessing, ProcessRefund, ProcessRefundFails, ProcessRefundUnknown, lists
  <2>3. \A i \in DOMAIN queue' : failures'[queue'[i].pay] >= queue'[i].retries
    BY <1>1, <1>2, <2>2 DEF TriesOK, Job
  <2>4. CASE MarkProcessing
    BY <2>1, <2>3, <2>4 DEF MarkProcessing, Proceed, Worker, TriesOK, history
  <2>5. CASE ProcessRefund
    BY <1>1, <2>1, <2>3, <2>5 DEF ProcessRefund, Proceed, Worker, TriesOK, history, TypeOK
  <2>6. CASE ProcessRefundFails \/ ProcessRefundUnknown
    <3>1. failures'[worker.pay] = failures[worker.pay] + 1
      BY <2>1, <2>6 DEF ProcessRefundFails, ProcessRefundUnknown, TypeOK
    <3>2. worker' = [worker EXCEPT !.pc = "retry"]
      BY <2>6 DEF ProcessRefundFails, ProcessRefundUnknown, Proceed
    <3> QED BY <1>1, <2>1, <2>3, <3>1, <3>2 DEF Worker, TriesOK
  <2> QED BY <1>6, <2>4, <2>5, <2>6
<1>7. CASE Retry
  <2>1. /\ worker.pay \in Payment /\ worker.retries \in Nat /\ failures[worker.pay] >= worker.retries + 1
        /\ worker' = Resting /\ UNCHANGED <<failures, accepted>>
    BY <1>1, <1>3, <1>7 DEF Retry, Busy, TriesOK
  <2>2. \A i \in DOMAIN queue' : \/ i \in DOMAIN queue /\ queue'[i] = queue[i]
                                 \/ queue'[i] = [pay |-> worker.pay, retries |-> worker.retries + 1]
    <3>1. queue \in Seq(Job) /\ [pay |-> worker.pay, retries |-> worker.retries + 1] \in Job
      <4>1. worker.retries \in 0..MaxRetries /\ ~(worker.retries >= MaxRetries)
        BY <1>7 DEF TypeOK, Worker, Retry, Exhausted, Busy
      <4>2. worker.retries + 1 \in 0..MaxRetries
        BY <4>1
      <4> QED BY <2>1, <4>2 DEF TypeOK, Job
    <3> QED BY <1>7, <3>1, AppendElements DEF Retry
  <2> QED BY <2>1, <2>2 DEF TriesOK, Resting
<1>8. CASE GiveUp
  <2>1. failures[worker.pay] > MaxRetries
    BY <1>1, <1>3, <1>8 DEF GiveUp, Busy, Exhausted, TriesOK
  <2>2. worker' = [worker EXCEPT !.pc = "close"] /\ UNCHANGED <<queue, failures, accepted>>
    BY <1>8 DEF GiveUp, Proceed
  <2> QED BY <2>1, <2>2 DEF TriesOK, TypeOK, Worker
<1>9. CASE ReportQueued \/ ReportFailed \/ Crash
    BY <1>9 DEF ReportQueued, ReportFailed, Crash, Resting, TriesOK, lists, history
<1>10. CASE \/ \E c \in Request : Claim(c) \/ Create(c) \/ \E m \in Payment : CancelService(c, m)
            \/ \E m \in Payment : \/ ProcessWebhook(m) \/ LockExpires(m)
                                  \/ \E st \in Report : RefundWebhook(m, st)
            \/ UNCHANGED vars
    BY <1>10 DEF Claim, Create, CancelService, ProcessWebhook, LockExpires, RefundWebhook, vars,
                 TriesOK, lists, history
<1> QED BY <1>4, <1>5, <1>6, <1>7, <1>8, <1>9, <1>10 DEF Next, Work, Continue

LEMMA ShownStep ==
    ASSUME TypeOK, TypeOK', TriesOK, ShownIsTrue, [Next]_vars
    PROVE  ShownIsTrue'
<1>. USE RefundAssumption
<1>1. \A m \in Payment : /\ failures[m] \in Nat /\ failures'[m] \in Nat /\ failures'[m] >= failures[m]
                         /\ accepted[m] \in Nat /\ accepted'[m] \in Nat /\ accepted'[m] >= accepted[m]
    BY HistoryGrows DEF TypeOK
<1>2. ASSUME \A m \in Payment : \A i \in DOMAIN refund'[m] :
                \/ i \in DOMAIN refund[m] /\ refund'[m][i] = refund[m][i]
                \/ refund'[m][i] \in {"pending", "processing"}
                \/ refund'[m][i] = "queued" /\ accepted[m] > 0
                \/ refund'[m][i] = "failed" /\ failures[m] > MaxRetries
      PROVE  ShownIsTrue'
  <2>1. SUFFICES ASSUME NEW m \in Payment, NEW i \in DOMAIN refund'[m]
                 PROVE  /\ refund'[m][i] = "queued" => accepted'[m] > 0
                        /\ refund'[m][i] = "failed" => failures'[m] > MaxRetries
    BY DEF ShownIsTrue
  <2>2. CASE i \in DOMAIN refund[m] /\ refund'[m][i] = refund[m][i]
    BY <1>1, <2>2 DEF ShownIsTrue
  <2> QED BY <1>1, <1>2, <2>2
<1>3. ASSUME NEW c \in Request, Create(c) PROVE ShownIsTrue'
  <2>1. \A m \in Payment : \A i \in DOMAIN refund'[m] :
           \/ i \in DOMAIN refund[m] /\ refund'[m][i] = refund[m][i]
           \/ refund'[m][i] = "pending"
    <3>1. /\ call[c].pay \in Payment /\ "pending" \in RefundStatus
          /\ \A m \in Payment : refund[m] \in Seq(RefundStatus)
          /\ DOMAIN refund = Payment
      BY <1>3 DEF Create, At, TypeOK, Call, RefundStatus
    <3>2. \A m \in Payment : refund'[m] \in {refund[m], Append(refund[m], "pending")}
      BY <1>3, <3>1 DEF Create
    <3> QED BY <3>1, <3>2, AppendElements
  <2> QED BY <1>2, <2>1
<1>4. ASSUME NEW st \in RefundStatus, worker.pay \in Payment,
             refund' = Marked(worker.pay, st) \/ UNCHANGED refund,
             st # "pending",
             st = "queued" => accepted[worker.pay] > 0,
             st = "failed" => failures[worker.pay] > MaxRetries
      PROVE  ShownIsTrue'
  <2>1. refund \in [Payment -> Seq(RefundStatus)]
    BY DEF TypeOK
  <2>2. \A m \in Payment : \A i \in DOMAIN refund'[m] :
           \/ i \in DOMAIN refund[m] /\ refund'[m][i] = refund[m][i]
           \/ m = worker.pay /\ refund'[m][i] = st
    <3>1. CASE UNCHANGED refund
      BY <3>1
    <3>2. CASE refund' = Marked(worker.pay, st)
      <4>1. \A m \in Payment : \A i \in DOMAIN Marked(worker.pay, st)[m] :
               /\ i \in DOMAIN refund[m]
               /\ \/ Marked(worker.pay, st)[m][i] = refund[m][i]
                  \/ m = worker.pay /\ Marked(worker.pay, st)[m][i] = st
        BY <1>4, <2>1, MarkedType
      <4> QED BY <3>2, <4>1
    <3> QED BY <1>4, <3>1, <3>2
  <2>3. st \in {"processing", "queued", "failed"}
    BY <1>4 DEF RefundStatus
  <2> QED BY <1>2, <1>4, <2>2, <2>3
<1>5. CASE MarkProcessing \/ ReportQueued \/ ReportFailed
  <2>1. worker.pay \in Payment
    BY <1>5 DEF MarkProcessing, ReportQueued, ReportFailed, Busy, TypeOK, Worker
  <2>2. {"processing", "queued", "failed"} \subseteq RefundStatus
    BY DEF RefundStatus
  <2>3. CASE MarkProcessing
    BY <1>4, <2>1, <2>2, <2>3 DEF MarkProcessing
  <2>4. CASE ReportQueued
    BY <1>4, <2>1, <2>2, <2>4 DEF ReportQueued, Busy, TriesOK
  <2>5. CASE ReportFailed
    BY <1>4, <2>1, <2>2, <2>5 DEF ReportFailed, Busy, TriesOK
  <2> QED BY <1>5, <2>3, <2>4, <2>5
<1>6. CASE UNCHANGED refund
    BY <1>2, <1>6
<1> QED BY <1>3, <1>5, <1>6 DEF Next, Work, Continue, Claim, Push, CancelService, Take,
        ProcessRefund, ProcessRefundFails, ProcessRefundUnknown, Retry, GiveUp, Crash,
        ProcessWebhook, LockExpires, RefundWebhook, vars, store

\* The status that the customer's refund document shows is never ahead of the gateway: "queued"
\* only after the gateway has accepted, "failed" only after MaxRetries + 1 failed attempts, for
\* any number of cancellations of the same payment and any order of push, creation and work.
THEOREM ShownIsTrueAlways == Spec => []ShownIsTrue
<1>1. Init => TypeOK /\ TriesOK /\ ShownIsTrue
    BY RefundAssumption DEF Init, TypeOK, Idle, Resting, Call, Worker, TriesOK, ShownIsTrue
<1>2. TypeOK /\ TriesOK /\ ShownIsTrue /\ [Next]_vars => (TypeOK /\ TriesOK /\ ShownIsTrue)'
  <2>1. SUFFICES ASSUME TypeOK, TriesOK, ShownIsTrue, [Next]_vars
                 PROVE  (TypeOK /\ TriesOK /\ ShownIsTrue)'
    OBVIOUS
  <2>2. TypeOK'
    BY <2>1, StepType
  <2> QED BY <2>1, <2>2, TriesStep, ShownStep
<1> QED BY <1>1, <1>2, PTL DEF Spec

-----------------------------------------------------------------------------
(* How often the gateway refunds *)

Jobs(q, m) == Cardinality({i \in DOMAIN q : q[i].pay = m})
Claims(m) == Cardinality({c \in Request : Pushing(c, m)})
Hand(m) == IF InHand(m) THEN 1 ELSE 0
Free(m) == IF m \in lock THEN 0 ELSE 1

\* What may still ask the gateway for a refund without being in the worker's hands: jobs of
\* the list, claims about to push one, and the lock when it is free to be claimed.
Outstanding(m) == Jobs(queue, m) + Claims(m) + Free(m)

\* Every refund still to be asked for has a claim, a job in the list or a job in the worker's
\* hands; the lock lets one of them come into being, and each expiry one more.
Counted ==
    \A m \in Payment :
        accepted[m] + Outstanding(m) + Hand(m) <= 1 + repeats[m] + expired[m]

LEMMA SwapOne ==
    ASSUME NEW R, IsFiniteSet(R), NEW P \in SUBSET R, NEW Q \in SUBSET R, NEW c \in R,
           P \ {c} = Q \ {c}
    PROVE  /\ Cardinality(P) \in Nat /\ Cardinality(Q) \in Nat
           /\ Cardinality(Q) = Cardinality(P) - (IF c \in P THEN 1 ELSE 0)
                                              + (IF c \in Q THEN 1 ELSE 0)
<1>1. IsFiniteSet(P) /\ IsFiniteSet(Q)
    BY FS_Subset
<1>2. Cardinality(P) \in Nat /\ Cardinality(Q) \in Nat
    BY <1>1, FS_CardinalityType
<1>3. Cardinality(P \ {c}) = IF c \in P THEN Cardinality(P) - 1 ELSE Cardinality(P)
    BY <1>1, FS_RemoveElement
<1>4. Cardinality(Q \ {c}) = IF c \in Q THEN Cardinality(Q) - 1 ELSE Cardinality(Q)
    BY <1>1, FS_RemoveElement
<1>5. Cardinality(P \ {c}) = Cardinality(Q \ {c})
    OBVIOUS
<1> QED BY <1>2, <1>3, <1>4, <1>5

LEMMA JobsFinite ==
    ASSUME NEW q \in Seq(Job), NEW m
    PROVE  /\ IsFiniteSet({i \in DOMAIN q : q[i].pay = m})
           /\ Jobs(q, m) \in Nat
<1>1. IsFiniteSet(1..Len(q))
    BY FS_Interval
<1>2. {i \in DOMAIN q : q[i].pay = m} \in SUBSET (1..Len(q))
    OBVIOUS
<1>3. IsFiniteSet({i \in DOMAIN q : q[i].pay = m})
    BY <1>1, <1>2, FS_Subset
<1> QED BY <1>3, FS_CardinalityType DEF Jobs

LEMMA JobsAppend ==
    ASSUME NEW q \in Seq(Job), NEW j \in Job, NEW m
    PROVE  Jobs(Append(q, j), m) = Jobs(q, m) + (IF j.pay = m THEN 1 ELSE 0)
<1>. DEFINE P == {i \in DOMAIN q : q[i].pay = m}
            Q == {i \in DOMAIN Append(q, j) : Append(q, j)[i].pay = m}
            n == Len(q) + 1
<1>1. Q = IF j.pay = m THEN P \union {n} ELSE P
    BY AppendElements
<1>2. n \notin P
    BY AppendElements
<1>3. IsFiniteSet(P) /\ Cardinality(P) \in Nat
    BY JobsFinite DEF Jobs
<1>4. Cardinality(P \union {n}) = Cardinality(P) + 1
    BY <1>2, <1>3, FS_AddElement
<1>5. Jobs(q, m) = Cardinality(P) /\ Jobs(Append(q, j), m) = Cardinality(Q)
    BY DEF Jobs
<1>6. Cardinality(Q) = IF j.pay = m THEN Cardinality(P \union {n}) ELSE Cardinality(P)
    BY <1>1
<1> HIDE DEF P, Q
<1> QED BY <1>3, <1>4, <1>5, <1>6

LEMMA JobsTail ==
    ASSUME NEW q \in Seq(Job), q # <<>>, NEW m
    PROVE  Jobs(Tail(q), m) = Jobs(q, m) - (IF Head(q).pay = m THEN 1 ELSE 0)
<1>. DEFINE P == {i \in DOMAIN q : q[i].pay = m}
            Q == {i \in DOMAIN Tail(q) : Tail(q)[i].pay = m}
            F == [i \in Q |-> i + 1]
<1>1. /\ Tail(q) \in Seq(Job) /\ Head(q) = q[1] /\ 1 \in DOMAIN q
      /\ \A i \in DOMAIN Tail(q) : i \in Nat /\ i # 0 /\ i + 1 \in DOMAIN q /\ Tail(q)[i] = q[i + 1]
      /\ \A i \in DOMAIN q : i # 1 => i - 1 \in DOMAIN Tail(q) /\ i \in Nat
    OBVIOUS
<1>2. F \in [Q -> P \ {1}]
    BY <1>1
<1>3. \A a, b \in Q : F[a] = F[b] => a = b
    BY <1>1
<1>4. \A t \in P \ {1} : \E i \in Q : F[i] = t
  <2>1. SUFFICES ASSUME NEW t \in P \ {1} PROVE \E i \in Q : F[i] = t
    OBVIOUS
  <2>2. t - 1 \in Q /\ F[t - 1] = t
    BY <1>1
  <2> QED BY <2>2
<1>5. ExistsBijection(Q, P \ {1})
  <2>1. F \in Bijection(Q, P \ {1})
    BY <1>2, <1>3, <1>4, Fun_IsBij
  <2> QED BY <2>1 DEF ExistsBijection
<1>6. IsFiniteSet(P) /\ IsFiniteSet(Q) /\ Cardinality(P) \in Nat
    BY <1>1, JobsFinite DEF Jobs
<1>7. Cardinality(Q) = Cardinality(P \ {1})
    BY <1>5, <1>6, FS_Bijection
<1>8. Cardinality(P \ {1}) = IF 1 \in P THEN Cardinality(P) - 1 ELSE Cardinality(P)
    BY <1>6, FS_RemoveElement
<1>9. 1 \in P <=> Head(q).pay = m
    BY <1>1
<1>10. Jobs(q, m) = Cardinality(P) /\ Jobs(Tail(q), m) = Cardinality(Q)
    BY DEF Jobs
<1> HIDE DEF P, Q
<1> QED BY <1>6, <1>7, <1>8, <1>9, <1>10

LEMMA ClaimsType ==
    ASSUME NEW m
    PROVE  Claims(m) \in Nat
<1>1. IsFiniteSet({c \in Request : Pushing(c, m)})
    BY RefundAssumption, FS_Subset
<1> QED BY <1>1, FS_CardinalityType DEF Claims

LEMMA ClaimsChange ==
    ASSUME NEW c \in Request, \A d \in Request \ {c} : call'[d] = call[d], NEW m
    PROVE  Claims(m)' = Claims(m) - (IF Pushing(c, m) THEN 1 ELSE 0)
                                  + (IF Pushing(c, m)' THEN 1 ELSE 0)
<1>. DEFINE P == {d \in Request : Pushing(d, m)}
            Q == {d \in Request : call'[d].pc = "push" /\ call'[d].pay = m}
<1>2. P \ {c} = Q \ {c}
    BY DEF Pushing, At
<1>3. /\ c \in P <=> Pushing(c, m)
      /\ c \in Q <=> Pushing(c, m)'
    BY DEF Pushing, At
<1>4. Claims(m) = Cardinality(P) /\ Claims(m)' = Cardinality(Q)
    BY DEF Claims, Pushing, At
<1>5. P \in SUBSET Request /\ Q \in SUBSET Request /\ IsFiniteSet(Request)
    BY RefundAssumption
<1> HIDE DEF P, Q
<1>6. Cardinality(Q) = Cardinality(P) - (IF c \in P THEN 1 ELSE 0) + (IF c \in Q THEN 1 ELSE 0)
    BY <1>2, <1>5, SwapOne
<1> QED BY <1>3, <1>4, <1>6

LEMMA ClaimsSame ==
    ASSUME UNCHANGED call, NEW m
    PROVE  Claims(m)' = Claims(m)
BY DEF Claims, Pushing, At

LEMMA OutstandingType ==
    ASSUME TypeOK, NEW m \in Payment
    PROVE  /\ Jobs(queue, m) \in Nat /\ Claims(m) \in Nat /\ Free(m) \in 0..1
           /\ accepted[m] \in Nat /\ repeats[m] \in Nat /\ expired[m] \in Nat
<1>1. Jobs(queue, m) \in Nat /\ Claims(m) \in Nat
    BY JobsFinite, ClaimsType DEF TypeOK
<1>2. accepted[m] \in Nat /\ repeats[m] \in Nat /\ expired[m] \in Nat
    BY RefundAssumption DEF TypeOK
<1>3. Free(m) \in 0..1
    BY DEF Free
<1> QED BY <1>1, <1>2, <1>3

LEMMA OutstandingTypeAfter ==
    ASSUME TypeOK', NEW m \in Payment
    PROVE  /\ Outstanding(m)' \in Nat
           /\ accepted'[m] \in Nat /\ repeats'[m] \in Nat /\ expired'[m] \in Nat
<1>1. queue' \in Seq(Job)
    BY DEF TypeOK
<1>2. Jobs(queue', m) \in Nat
    BY <1>1, JobsFinite
<1>3. Claims(m)' \in Nat
  <2>1. {c \in Request : Pushing(c, m)'} \in SUBSET Request /\ IsFiniteSet(Request)
    BY RefundAssumption
  <2>2. IsFiniteSet({c \in Request : Pushing(c, m)'})
    BY <2>1, FS_Subset
  <2> QED BY <2>2, FS_CardinalityType DEF Claims
<1>4. accepted'[m] \in Nat /\ repeats'[m] \in Nat /\ expired'[m] \in Nat
    BY RefundAssumption DEF TypeOK
<1>5. Free(m)' \in 0..1
    BY DEF Free
<1>6. Outstanding(m)' = Jobs(queue', m) + Claims(m)' + Free(m)'
    BY DEF Outstanding, Jobs
<1> QED BY <1>2, <1>3, <1>4, <1>5, <1>6

\* the steps that are not the worker's
Outside ==
    \/ \E c \in Request : Continue(c) \/ \E n \in Payment : CancelService(c, n)
    \/ \E n \in Payment : ProcessWebhook(n) \/ LockExpires(n) \/ \E st \in Report : RefundWebhook(n, st)
    \/ UNCHANGED vars

\* They bring no more into being than an expiry of the lock allows.
LEMMA OutsideMoves ==
    ASSUME TypeOK, TypeOK', NEW m \in Payment, Outside
    PROVE  /\ Outstanding(m)' + expired[m] <= Outstanding(m) + expired'[m]
           /\ UNCHANGED <<worker, accepted, repeats>>
<1>1. /\ Jobs(queue, m) \in Nat /\ Claims(m) \in Nat /\ Free(m) \in 0..1
      /\ accepted[m] \in Nat /\ repeats[m] \in Nat /\ expired[m] \in Nat
    BY OutstandingType
<1>2. Free(m)' \in 0..1 /\ (UNCHANGED lock => Free(m)' = Free(m))
    BY DEF Free
<1>3. Outstanding(m) = Jobs(queue, m) + Claims(m) + Free(m)
    BY DEF Outstanding
<1>4. Outstanding(m)' = Jobs(queue', m) + Claims(m)' + Free(m)'
    BY DEF Outstanding, Jobs, Claims, Free
<1>5. UNCHANGED call => Claims(m)' = Claims(m)
    BY ClaimsSame
<1>6. ASSUME NEW c \in Request, \/ \E n \in Payment : CancelService(c, n)
                                \/ Create(c)
      PROVE  Outstanding(m)' + expired[m] <= Outstanding(m) + expired'[m]
  <2>1. Claims(m)' = Claims(m)
    <3>1. ~Pushing(c, m) /\ ~Pushing(c, m)' /\ \A d \in Request \ {c} : call'[d] = call[d]
      <4>1. CASE \E n \in Payment : CancelService(c, n)
        BY <4>1 DEF CancelService, Pushing, At, TypeOK
      <4>2. CASE Create(c)
        BY <4>2 DEF Create, Return, Idle, Pushing, At, TypeOK
      <4> QED BY <1>6, <4>1, <4>2
    <3> QED BY <1>1, <3>1, ClaimsChange
  <2>2. UNCHANGED <<lock, queue, expired>>
    BY <1>6 DEF CancelService, Create, store, lists, history
  <2> QED BY <1>1, <1>2, <1>3, <1>4, <2>1, <2>2
<1>7. ASSUME NEW c \in Request, Claim(c)
      PROVE  Outstanding(m)' + expired[m] <= Outstanding(m) + expired'[m]
  <2>. DEFINE n == call[c].pay
  <2>1. ~Pushing(c, m) /\ UNCHANGED <<queue, expired>>
    BY <1>7 DEF Claim, Pushing, At, lists, history
  <2>2. CASE n \notin lock /\ lock' = lock \union {n} /\ Goto(c, "push")
    <3>1. /\ Pushing(c, m)' <=> n = m
          /\ \A d \in Request \ {c} : call'[d] = call[d]
      BY <2>2 DEF Goto, Pushing, At, TypeOK, Call
    <3>2. Claims(m)' = Claims(m) + (IF n = m THEN 1 ELSE 0)
      BY <1>1, <2>1, <3>1, ClaimsChange
    <3>3. Free(m)' = Free(m) - (IF n = m THEN 1 ELSE 0)
      BY <2>2 DEF Free
    <3> QED BY <1>1, <1>3, <1>4, <2>1, <3>2, <3>3
  <2>3. CASE lock' \in {lock, lock \union {n}} /\ Return(c)
    <3>1. Claims(m)' = Claims(m)
      <4>1. ~Pushing(c, m)' /\ \A d \in Request \ {c} : call'[d] = call[d]
        BY <2>3 DEF Return, Idle, Pushing, At, TypeOK
      <4> QED BY <1>1, <2>1, <4>1, ClaimsChange
    <3>2. Free(m)' <= Free(m)
      BY <2>3 DEF Free
    <3> QED BY <1>1, <1>2, <1>3, <1>4, <2>1, <3>1, <3>2
  <2> QED BY <1>7, <2>2, <2>3 DEF Claim
<1>8. ASSUME NEW c \in Request, Push(c)
      PROVE  Outstanding(m)' + expired[m] <= Outstanding(m) + expired'[m]
  <2>. DEFINE n == call[c].pay
              j == [pay |-> n, retries |-> 0]
  <2>1. /\ n \in Payment /\ j \in Job /\ queue \in Seq(Job)
        /\ Pushing(c, m) <=> n = m
        /\ UNCHANGED <<lock, expired>>
    BY <1>8, RefundAssumption DEF Push, Pushing, At, TypeOK, Call, Job, store
  <2>2. ~Pushing(c, m)' /\ \A d \in Request \ {c} : call'[d] = call[d]
    BY <1>8 DEF Push, Goto, Pushing, At, TypeOK, Call
  <2>3. Claims(m)' = Claims(m) - (IF n = m THEN 1 ELSE 0)
    BY <1>1, <2>1, <2>2, ClaimsChange
  <2>4. Jobs(Append(queue, j), m) = Jobs(queue, m) + (IF n = m THEN 1 ELSE 0)
    BY <2>1, JobsAppend
  <2>5. queue' \in {queue, Append(queue, j)}
    BY <1>8 DEF Push
  <2> HIDE DEF n, j
  <2>6. Jobs(queue', m) \in {Jobs(queue, m), Jobs(queue, m) + (IF n = m THEN 1 ELSE 0)}
    BY <2>4, <2>5
  <2> QED BY <1>1, <1>2, <1>3, <1>4, <2>1, <2>3, <2>6
<1>9. ASSUME NEW n \in Payment, LockExpires(n)
      PROVE  Outstanding(m)' + expired[m] <= Outstanding(m) + expired'[m]
  <2>1. UNCHANGED <<call, queue>>
    BY <1>9 DEF LockExpires, lists
  <2>2. Free(m)' = Free(m) + (IF n = m THEN 1 ELSE 0)
    BY <1>9 DEF LockExpires, Free
  <2>3. expired'[m] = expired[m] + (IF n = m THEN 1 ELSE 0)
    <3>1. expired \in [Payment -> 0..MaxExpiries] /\ expired' = [expired EXCEPT ![n] = @ + 1]
      BY <1>9 DEF LockExpires, TypeOK
    <3> QED BY <1>1, <3>1
  <2> QED BY <1>1, <1>3, <1>4, <1>5, <2>1, <2>2, <2>3
<1>10. ASSUME UNCHANGED <<call, queue, lock, expired>>
       PROVE  Outstanding(m)' + expired[m] <= Outstanding(m) + expired'[m]
    BY <1>1, <1>2, <1>3, <1>4, <1>5, <1>10
<1>11. UNCHANGED <<worker, accepted, repeats>>
    BY DEF Outside, Continue, Claim, Push, Create, CancelService, ProcessWebhook, LockExpires,
           RefundWebhook, vars, store, history
<1> QED BY <1>6, <1>7, <1>8, <1>9, <1>10, <1>11
        DEF Outside, Continue, ProcessWebhook, RefundWebhook, vars, store, lists, history

\* The worker takes one job from the list, or puts the one it has back.
LEMMA WorkMoves ==
    ASSUME TypeOK, TypeOK', NEW m \in Payment, Work
    PROVE  /\ expired' = expired
           /\ Outstanding(m)' \in Int /\ Outstanding(m) \in Int
           /\ Outstanding(m)' <= Outstanding(m)
                   + (IF Retry /\ worker.pay = m THEN 1 ELSE 0)
                   - (IF Take /\ Head(queue).pay = m THEN 1 ELSE 0)
<1>1. Jobs(queue, m) \in Nat /\ Claims(m) \in Nat /\ Free(m) \in 0..1
    BY OutstandingType
<1>2. UNCHANGED <<call, lock, expired>>
    BY DEF Work, Take, MarkProcessing, ProcessRefund, ProcessRefundFails, ProcessRefundUnknown,
           ReportQueued, Retry, GiveUp, ReportFailed, store, history
<1>3. Claims(m)' = Claims(m) /\ Free(m)' = Free(m)
    BY <1>2, ClaimsSame DEF Free
<1>4. /\ Outstanding(m) = Jobs(queue, m) + Claims(m) + Free(m)
      /\ Outstanding(m)' = Jobs(queue', m) + Claims(m) + Free(m)
    BY <1>3 DEF Outstanding, Jobs
<1>5. CASE Take
  <2>1. queue \in Seq(Job) /\ queue # <<>> /\ queue' = Tail(queue) /\ worker.pc = "idle"
    BY <1>5 DEF Take, Busy, TypeOK
  <2>2. Jobs(queue', m) = Jobs(queue, m) - (IF Head(queue).pay = m THEN 1 ELSE 0)
    BY <2>1, JobsTail
  <2>3. ~Retry
    BY <2>1 DEF Retry, Busy
  <2> QED BY <1>1, <1>2, <1>4, <1>5, <2>2, <2>3
<1>6. CASE Retry
  <2>. DEFINE j == [pay |-> worker.pay, retries |-> worker.retries + 1]
  <2>1. j \in Job /\ queue \in Seq(Job) /\ queue' \in {queue, Append(queue, j)} /\ ~Take
    <3>1. worker.pay \in Payment /\ worker.retries \in 0..MaxRetries /\ ~(worker.retries >= MaxRetries)
      BY <1>6 DEF TypeOK, Worker, Retry, Exhausted, Busy
    <3>2. worker.retries + 1 \in 0..MaxRetries
      BY <3>1, RefundAssumption
    <3>3. queue \in Seq(Job) /\ queue' \in {queue, Append(queue, j)} /\ ~Take
      BY <1>6 DEF TypeOK, Retry, Take, Busy
    <3> QED BY <3>1, <3>2, <3>3 DEF Job
  <2>2. Jobs(Append(queue, j), m) = Jobs(queue, m) + (IF worker.pay = m THEN 1 ELSE 0)
    BY <2>1, JobsAppend
  <2> HIDE DEF j
  <2>3. Jobs(queue', m) \in {Jobs(queue, m), Jobs(queue, m) + (IF worker.pay = m THEN 1 ELSE 0)}
    BY <2>1, <2>2
  <2> QED BY <1>1, <1>2, <1>4, <1>6, <2>1, <2>3
<1>7. CASE ~Take /\ ~Retry
  <2>1. queue' = queue
    BY <1>7 DEF Work, MarkProcessing, ProcessRefund, ProcessRefundFails, ProcessRefundUnknown,
                ReportQueued, GiveUp, ReportFailed, lists
  <2> QED BY <1>1, <1>2, <1>4, <1>7, <2>1
<1> QED BY <1>5, <1>6, <1>7

\* a crash loses what it does not keep
LEMMA CrashMoves ==
    ASSUME TypeOK, NEW m \in Payment, Crash
    PROVE  /\ Outstanding(m)' \in Int /\ Outstanding(m) \in Int /\ Outstanding(m)' <= Outstanding(m)
           /\ UNCHANGED <<accepted, repeats, expired, refund>> /\ worker' = Resting
<1>1. Jobs(queue, m) \in Nat /\ Claims(m) \in Nat /\ Free(m) \in 0..1
    BY OutstandingType
<1>2. UNCHANGED <<accepted, lock, queue, repeats, expired, refund>> /\ worker' = Resting
    BY DEF Crash, store, lists
<1>3. {c \in Request : call'[c].pc = "push" /\ call'[c].pay = m} = {}
    BY DEF Crash, Idle
<1>4. Claims(m)' = 0 /\ Free(m)' = Free(m)
    BY <1>2, <1>3, FS_EmptySet DEF Claims, Pushing, At, Free
<1>5. /\ Outstanding(m) = Jobs(queue, m) + Claims(m) + Free(m)
      /\ Outstanding(m)' = Jobs(queue, m) + 0 + Free(m)
    BY <1>2, <1>4 DEF Outstanding, Jobs
<1> QED BY <1>1, <1>2, <1>5

LEMMA CountedStep ==
    ASSUME TypeOK, TypeOK', Counted, [Next]_vars
    PROVE  Counted'
<1>. SUFFICES ASSUME NEW m \in Payment
              PROVE  accepted'[m] + Outstanding(m)' + Hand(m)' <= 1 + repeats'[m] + expired'[m]
    BY DEF Counted
<1>1. /\ accepted[m] \in Nat /\ repeats[m] \in Nat /\ expired[m] \in Nat
      /\ accepted'[m] \in Nat /\ repeats'[m] \in Nat /\ expired'[m] \in Nat
      /\ Outstanding(m) \in Nat /\ Outstanding(m)' \in Nat
    BY OutstandingType, OutstandingTypeAfter DEF Outstanding
<1>2. accepted[m] + Outstanding(m) + Hand(m) <= 1 + repeats[m] + expired[m]
    BY DEF Counted
<1>3. Hand(m) \in 0..1 /\ Hand(m)' \in 0..1
    BY DEF Hand
<1>4. CASE Outside
  <2>1. Hand(m)' = Hand(m) /\ accepted'[m] = accepted[m] /\ repeats'[m] = repeats[m]
    BY <1>4, OutsideMoves DEF Hand, InHand
  <2> QED BY <1>1, <1>2, <1>3, <1>4, <2>1, OutsideMoves
<1>5. CASE Crash
  <2>1. Hand(m)' = 0
    BY <1>5, CrashMoves DEF Resting, Hand, InHand
  <2> QED BY <1>1, <1>2, <1>3, <1>5, <2>1, CrashMoves
<1>6. CASE Work
  <2>1. /\ expired'[m] = expired[m]
        /\ Outstanding(m)' <= Outstanding(m) + (IF Retry /\ worker.pay = m THEN 1 ELSE 0)
                                             - (IF Take /\ Head(queue).pay = m THEN 1 ELSE 0)
    BY <1>6, WorkMoves
  <2>2. CASE Take
    <3>1. Hand(m) = 0 /\ Hand(m)' = IF Head(queue).pay = m THEN 1 ELSE 0
      BY <2>2 DEF Take, Busy, Hand, InHand
    <3>2. ~Retry /\ accepted'[m] = accepted[m] /\ repeats'[m] = repeats[m]
      BY <2>2 DEF Take, Retry, Busy, history
    <3> QED BY <1>1, <1>2, <2>1, <2>2, <3>1, <3>2
  <2>3. CASE Retry
    <3>1. Hand(m) = (IF worker.pay = m THEN 1 ELSE 0) /\ Hand(m)' = 0
      BY <2>3 DEF Retry, Busy, Hand, InHand, Resting
    <3>2. ~Take /\ accepted'[m] = accepted[m] /\ repeats'[m] = repeats[m]
      BY <2>3 DEF Take, Retry, Busy
    <3> QED BY <1>1, <1>2, <2>1, <2>3, <3>1, <3>2
  <2>4. CASE MarkProcessing \/ ProcessRefundFails
    <3>1. Hand(m)' = Hand(m) /\ accepted'[m] = accepted[m] /\ repeats'[m] = repeats[m] /\ ~Take /\ ~Retry
      BY <2>4 DEF MarkProcessing, ProcessRefundFails, Take, Retry, Busy, Proceed, Hand, InHand,
                  TypeOK, Worker, history
    <3> QED BY <1>1, <1>2, <1>3, <2>1, <3>1
  <2>5. CASE ProcessRefund
    <3>1. Hand(m) = (IF worker.pay = m THEN 1 ELSE 0) /\ Hand(m)' = 0
      BY <2>5 DEF ProcessRefund, Busy, Proceed, Hand, InHand, TypeOK, Worker
    <3>2. ~Take /\ ~Retry /\ repeats'[m] = repeats[m]
      BY <2>5 DEF ProcessRefund, Take, Retry, Busy, history
    <3>3. accepted'[m] = accepted[m] + (IF worker.pay = m THEN 1 ELSE 0)
      <4>1. accepted \in [Payment -> Nat] /\ accepted' = [accepted EXCEPT ![worker.pay] = @ + 1]
        BY <2>5 DEF ProcessRefund, TypeOK
      <4> QED BY <1>1, <4>1
    <3> QED BY <1>1, <1>2, <2>1, <3>1, <3>2, <3>3
  <2>6. CASE ProcessRefundUnknown
    <3>1. Hand(m)' = Hand(m) /\ ~Take /\ ~Retry
      BY <2>6 DEF ProcessRefundUnknown, Take, Retry, Busy, Proceed, Hand, InHand, TypeOK, Worker
    <3>2. /\ accepted'[m] = accepted[m] + (IF worker.pay = m THEN 1 ELSE 0)
          /\ repeats'[m] = repeats[m] + (IF worker.pay = m THEN 1 ELSE 0)
      <4>1. /\ accepted \in [Payment -> Nat] /\ accepted' = [accepted EXCEPT ![worker.pay] = @ + 1]
            /\ repeats \in [Payment -> Nat] /\ repeats' = [repeats EXCEPT ![worker.pay] = @ + 1]
        BY <2>6 DEF ProcessRefundUnknown, TypeOK
      <4> QED BY <1>1, <4>1
    <3> QED BY <1>1, <1>2, <1>3, <2>1, <3>1, <3>2
  <2>7. CASE ReportQueued \/ ReportFailed \/ GiveUp
    <3>1. worker'.pc \notin {"mark", "refund", "retry"}
      <4>1. CASE ReportQueued
        BY <4>1 DEF ReportQueued, Resting
      <4>2. CASE ReportFailed
        BY <4>2 DEF ReportFailed, Resting
      <4>3. CASE GiveUp
        BY <4>3 DEF GiveUp, Proceed, TypeOK, Worker
      <4> QED BY <2>7, <4>1, <4>2, <4>3
    <3>2. Hand(m)' = 0
      BY <3>1 DEF Hand, InHand
    <3>3. accepted'[m] = accepted[m] /\ repeats'[m] = repeats[m] /\ ~Take
      BY <2>7 DEF ReportQueued, ReportFailed, GiveUp, Take, Busy, history
    <3>4. Retry => Hand(m) = IF worker.pay = m THEN 1 ELSE 0
      BY DEF Retry, Busy, Hand, InHand
    <3> QED BY <1>1, <1>2, <1>3, <2>1, <3>2, <3>3, <3>4
  <2> QED BY <1>6, <2>2, <2>3, <2>4, <2>5, <2>6, <2>7 DEF Work
<1> QED BY <1>4, <1>5, <1>6 DEF Next, Outside

LEMMA CountedInit == Init => Counted
<1>. SUFFICES ASSUME Init, NEW m \in Payment
              PROVE  accepted[m] + Outstanding(m) + Hand(m) <= 1 + repeats[m] + expired[m]
    BY DEF Counted
<1>1. {i \in DOMAIN queue : queue[i].pay = m} = {} /\ {c \in Request : Pushing(c, m)} = {}
    BY DEF Init, Pushing, At, Idle
<1>2. Jobs(queue, m) = 0 /\ Claims(m) = 0
    BY <1>1, FS_EmptySet DEF Jobs, Claims
<1>3. Hand(m) = 0 /\ Free(m) = 1 /\ accepted[m] = 0 /\ repeats[m] = 0 /\ expired[m] = 0
    BY DEF Init, Hand, InHand, Free, Resting
<1> QED BY <1>2, <1>3 DEF Outstanding

\* A payment is refunded at most once more than the replies lost and the locks expired explain,
\* however many calls cancel its booking and however the worker, its retries and crashes meet.
THEOREM RefundedOnceAlways == Spec => []RefundedOnce
<1>1. Init => TypeOK /\ Counted
    BY CountedInit, RefundAssumption DEF Init, TypeOK, Idle, Resting, Call, Worker
<1>2. TypeOK /\ Counted /\ [Next]_vars => (TypeOK /\ Counted)'
  <2>1. SUFFICES ASSUME TypeOK, Counted, [Next]_vars PROVE TypeOK' /\ Counted'
    OBVIOUS
  <2>2. TypeOK'
    BY <2>1, StepType
  <2> QED BY <2>1, <2>2, CountedStep
<1>3. TypeOK /\ Counted => RefundedOnce
  <2>1. SUFFICES ASSUME TypeOK, Counted, NEW m \in Payment
                 PROVE  accepted[m] <= 1 + repeats[m] + expired[m]
    BY DEF RefundedOnce
  <2>2. /\ Outstanding(m) \in Nat /\ Hand(m) \in 0..1
        /\ accepted[m] \in Nat /\ repeats[m] \in Nat /\ expired[m] \in Nat
    BY <2>1, OutstandingType DEF Outstanding, Hand
  <2>3. accepted[m] + Outstanding(m) + Hand(m) <= 1 + repeats[m] + expired[m]
    BY <2>1 DEF Counted
  <2> QED BY <2>2, <2>3
<1> QED BY <1>1, <1>2, <1>3, PTL DEF Spec

-----------------------------------------------------------------------------
(* What a refund document says last *)

InWorker(m) == IF worker.pay = m /\ worker.pc # "idle" THEN 1 ELSE 0
Told(m) == IF \E i \in DOMAIN refund[m] : refund[m][i] \in Final THEN 1 ELSE 0

\* A payment whose document is final has no claim, job or attempt left, and its lock is taken;
\* each expiry of the lock lets one more claim come into being.
Settled ==
    \A m \in Payment : Outstanding(m) + InWorker(m) + Told(m) <= 1 + expired[m]

\* Documents of a payment are added, or the worker that has a job of it writes to one.
LEMMA DocMoves ==
    ASSUME TypeOK, [Next]_vars, NEW m \in Payment
    PROVE  \/ /\ \A i \in DOMAIN refund[m] : i \in DOMAIN refund'[m] /\ refund'[m][i] = refund[m][i]
              /\ \A i \in DOMAIN refund'[m] : i \in DOMAIN refund[m] \/ refund'[m][i] = "pending"
           \/ /\ worker.pay = m /\ MarkProcessing
              /\ \A i \in DOMAIN refund'[m] :
                    i \in DOMAIN refund[m] /\ refund'[m][i] \in {refund[m][i], "processing"}
           \/ worker.pay = m /\ (ReportQueued \/ ReportFailed)
<1>1. CASE UNCHANGED refund
    BY <1>1
<1>2. ASSUME NEW c \in Request, Create(c), refund' # refund
      PROVE  /\ \A i \in DOMAIN refund[m] : i \in DOMAIN refund'[m] /\ refund'[m][i] = refund[m][i]
             /\ \A i \in DOMAIN refund'[m] : i \in DOMAIN refund[m] \/ refund'[m][i] = "pending"
  <2>1. refund' = [refund EXCEPT ![call[c].pay] = Append(@, "pending")]
    BY <1>2 DEF Create
  <2>2. refund \in [Payment -> Seq(RefundStatus)] /\ "pending" \in RefundStatus
    BY DEF TypeOK, RefundStatus
  <2>3. refund'[m] \in {refund[m], Append(refund[m], "pending")} /\ refund[m] \in Seq(RefundStatus)
    BY <2>1, <2>2
  <2> QED BY <2>2, <2>3, AppendElements
<1>3. ASSUME NEW st \in RefundStatus, refund' = Marked(worker.pay, st), worker.pay \in Payment
      PROVE  /\ worker.pay # m => refund'[m] = refund[m]
             /\ \A i \in DOMAIN refund'[m] : i \in DOMAIN refund[m] /\ refund'[m][i] \in {refund[m][i], st}
  <2>1. refund \in [Payment -> Seq(RefundStatus)]
    BY DEF TypeOK
  <2>2. worker.pay # m => refund'[m] = refund[m]
    BY <1>3, <2>1 DEF Marked
  <2>3. \A i \in DOMAIN Marked(worker.pay, st)[m] :
           /\ i \in DOMAIN refund[m]
           /\ \/ Marked(worker.pay, st)[m][i] = refund[m][i]
              \/ m = worker.pay /\ Marked(worker.pay, st)[m][i] = st
    BY <1>3, <2>1, MarkedType
  <2> QED BY <1>3, <2>2, <2>3
<1>4. CASE MarkProcessing
  <2>1. worker.pay \in Payment /\ "processing" \in RefundStatus
    BY <1>4 DEF MarkProcessing, Busy, TypeOK, Worker, RefundStatus
  <2>2. refund' = Marked(worker.pay, "processing") \/ UNCHANGED refund
    BY <1>4 DEF MarkProcessing
  <2> QED BY <1>1, <1>3, <1>4, <2>1, <2>2
<1>5. CASE ReportQueued \/ ReportFailed
  <2>1. worker.pay \in Payment /\ {"queued", "failed"} \subseteq RefundStatus
    BY <1>5 DEF ReportQueued, ReportFailed, Busy, TypeOK, Worker, RefundStatus
  <2>2. \/ \E st \in {"queued", "failed"} : refund' = Marked(worker.pay, st)
        \/ UNCHANGED refund
    BY <1>5 DEF ReportQueued, ReportFailed
  <2> QED BY <1>1, <1>3, <1>5, <2>1, <2>2
<1>6. \/ UNCHANGED refund \/ MarkProcessing \/ ReportQueued \/ ReportFailed
      \/ \E c \in Request : Create(c)
    BY DEF Next, Work, Continue, Claim, Push, CancelService, Take, ProcessRefund,
           ProcessRefundFails, ProcessRefundUnknown, Retry, GiveUp, Crash, ProcessWebhook,
           LockExpires, RefundWebhook, vars, store
<1> QED BY <1>1, <1>2, <1>4, <1>5, <1>6

LEMMA ToldMoves ==
    ASSUME TypeOK, [Next]_vars, NEW m \in Payment
    PROVE  /\ Told(m) \in 0..1 /\ Told(m)' \in 0..1
           /\ Told(m)' <= Told(m) \/ (worker.pay = m /\ (ReportQueued \/ ReportFailed))
<1>1. Told(m) \in 0..1 /\ Told(m)' \in 0..1
    BY DEF Told
<1>2. ASSUME ~(worker.pay = m /\ (ReportQueued \/ ReportFailed)),
             NEW i \in DOMAIN refund'[m], refund'[m][i] \in Final
      PROVE  i \in DOMAIN refund[m] /\ refund[m][i] \in Final
    BY <1>2, DocMoves DEF Final
<1> QED BY <1>1, <1>2 DEF Told

LEMMA SettledStep ==
    ASSUME TypeOK, TypeOK', Settled, [Next]_vars
    PROVE  Settled'
<1>. SUFFICES ASSUME NEW m \in Payment
              PROVE  Outstanding(m)' + InWorker(m)' + Told(m)' <= 1 + expired'[m]
    BY DEF Settled
<1>1. /\ expired[m] \in Nat /\ expired'[m] \in Nat
      /\ Outstanding(m) \in Nat /\ Outstanding(m)' \in Nat
      /\ Told(m) \in 0..1 /\ Told(m)' \in 0..1
    BY OutstandingType, OutstandingTypeAfter, ToldMoves DEF Outstanding
<1>2. Outstanding(m) + InWorker(m) + Told(m) <= 1 + expired[m]
    BY DEF Settled
<1>3. InWorker(m) \in 0..1 /\ InWorker(m)' \in 0..1
    BY DEF InWorker
<1>4. CASE Outside
  <2>1. InWorker(m)' = InWorker(m)
    BY <1>4, OutsideMoves DEF InWorker
  <2>2. Told(m)' <= Told(m)
    <3>1. (~ReportQueued /\ ~ReportFailed) \/ UNCHANGED refund
      BY <1>4, OutsideMoves DEF ReportQueued, ReportFailed, Busy, Resting
    <3> QED BY <1>1, <3>1, ToldMoves DEF Told
  <2> QED BY <1>1, <1>2, <1>3, <1>4, <2>1, <2>2, OutsideMoves
<1>5. CASE Crash
  <2>1. InWorker(m)' = 0 /\ Told(m)' = Told(m) /\ expired'[m] = expired[m]
    BY <1>5, CrashMoves DEF Resting, InWorker, Told
  <2> QED BY <1>1, <1>2, <1>3, <1>5, <2>1, CrashMoves
<1>6. CASE Work
  <2>1. /\ expired'[m] = expired[m]
        /\ Outstanding(m)' <= Outstanding(m) + (IF Retry /\ worker.pay = m THEN 1 ELSE 0)
                                             - (IF Take /\ Head(queue).pay = m THEN 1 ELSE 0)
    BY <1>6, WorkMoves
  <2>2. CASE Take
    <3>1. InWorker(m) = 0 /\ InWorker(m)' = IF Head(queue).pay = m THEN 1 ELSE 0
      BY <2>2 DEF Take, Busy, InWorker
    <3>2. ~Retry /\ Told(m)' = Told(m)
      BY <2>2 DEF Take, Retry, Busy, store, Told
    <3> QED BY <1>1, <1>2, <2>1, <2>2, <3>1, <3>2
  <2>3. CASE Retry
    <3>1. InWorker(m) = (IF worker.pay = m THEN 1 ELSE 0) /\ InWorker(m)' = 0
      BY <2>3 DEF Retry, Busy, InWorker, Resting
    <3>2. ~Take /\ Told(m)' = Told(m)
      BY <2>3 DEF Take, Retry, Busy, store, Told
    <3> QED BY <1>1, <1>2, <2>1, <2>3, <3>1, <3>2
  <2>4. CASE ReportQueued \/ ReportFailed
    <3>1. InWorker(m) = (IF worker.pay = m THEN 1 ELSE 0) /\ InWorker(m)' = 0
      BY <2>4 DEF ReportQueued, ReportFailed, Busy, InWorker, Resting
    <3>2. ~Take /\ ~Retry
      BY <2>4 DEF ReportQueued, ReportFailed, Take, Retry, Busy
    <3>3. worker.pay # m => Told(m)' <= Told(m)
      BY ToldMoves
    <3> QED BY <1>1, <1>2, <2>1, <3>1, <3>2, <3>3
  <2>5. CASE \/ MarkProcessing \/ ProcessRefund \/ ProcessRefundFails \/ ProcessRefundUnknown
             \/ GiveUp
    <3>1. worker'.pay = worker.pay /\ worker.pc # "idle" /\ worker'.pc # "idle"
      BY <2>5 DEF MarkProcessing, ProcessRefund, ProcessRefundFails, ProcessRefundUnknown, GiveUp,
                  Busy, Proceed, TypeOK, Worker
    <3>2. InWorker(m)' = InWorker(m)
      BY <3>1 DEF InWorker
    <3>3. ~Take /\ ~Retry /\ ~ReportQueued /\ ~ReportFailed
      BY <2>5 DEF MarkProcessing, ProcessRefund, ProcessRefundFails, ProcessRefundUnknown, GiveUp,
                  Take, Retry, ReportQueued, ReportFailed, Busy
    <3>4. Told(m)' <= Told(m)
      BY <3>3, ToldMoves
    <3> QED BY <1>1, <1>2, <1>3, <2>1, <3>2, <3>3, <3>4
  <2> QED BY <1>6, <2>2, <2>3, <2>4, <2>5 DEF Work
<1> QED BY <1>4, <1>5, <1>6 DEF Next, Outside

LEMMA SettledFinal ==
    ASSUME TypeOK, Settled, [Next]_vars
    PROVE  [\A m \in Payment : \A i \in DOMAIN refund[m] :
               refund[m][i] \in Final /\ expired[m] = 0 => refund'[m][i] = refund[m][i]]_vars
<1>. SUFFICES ASSUME NEW m \in Payment, NEW i \in DOMAIN refund[m], refund[m][i] \in Final,
                     expired[m] = 0
              PROVE  refund'[m][i] = refund[m][i]
    OBVIOUS
<1>1. Told(m) = 1 /\ InWorker(m) \in 0..1 /\ Outstanding(m) \in Nat
    BY OutstandingType DEF Told, InWorker, Outstanding
<1>2. Outstanding(m) + InWorker(m) + Told(m) <= 1
    BY DEF Settled
<1>3. ~(worker.pay = m /\ worker.pc # "idle")
    BY <1>1, <1>2 DEF InWorker
<1>4. ~(worker.pay = m /\ (MarkProcessing \/ ReportQueued \/ ReportFailed))
    BY <1>3 DEF MarkProcessing, ReportQueued, ReportFailed, Busy
<1> QED BY <1>4, DocMoves

\* Once a refund document says "queued" or "failed" it says so for good, unless refund:lock has
\* expired: no claim, job or attempt of that payment is left to write to it, whatever crashes,
\* failed calls and late inserts there were.
THEOREM ShownIsFinalAlways == Spec => ShownIsFinal
<1>1. Init => TypeOK /\ Settled
  <2>1. SUFFICES ASSUME Init PROVE TypeOK /\ Settled
    OBVIOUS
  <2>2. TypeOK
    BY <2>1, RefundAssumption DEF Init, TypeOK, Idle, Resting, Call, Worker
  <2>3. ASSUME NEW m \in Payment
        PROVE  Outstanding(m) + InWorker(m) + Told(m) <= 1 + expired[m]
    <3>1. {i \in DOMAIN queue : queue[i].pay = m} = {} /\ {c \in Request : Pushing(c, m)} = {}
      BY <2>1 DEF Init, Pushing, At, Idle
    <3>2. Jobs(queue, m) = 0 /\ Claims(m) = 0
      BY <3>1, FS_EmptySet DEF Jobs, Claims
    <3>3. Free(m) = 1 /\ InWorker(m) = 0 /\ Told(m) = 0 /\ expired[m] = 0
      BY <2>1 DEF Init, Free, InWorker, Told, Resting
    <3> QED BY <3>2, <3>3 DEF Outstanding
  <2> QED BY <2>2, <2>3 DEF Settled
<1>2. TypeOK /\ Settled /\ [Next]_vars => (TypeOK /\ Settled)'
  <2>1. SUFFICES ASSUME TypeOK, Settled, [Next]_vars PROVE TypeOK' /\ Settled'
    OBVIOUS
  <2>2. TypeOK'
    BY <2>1, StepType
  <2> QED BY <2>1, <2>2, SettledStep
<1>3. TypeOK /\ Settled /\ [Next]_vars
        => [\A m \in Payment : \A i \in DOMAIN refund[m] :
              refund[m][i] \in Final /\ expired[m] = 0 => refund'[m][i] = refund[m][i]]_vars
    BY SettledFinal
<1> QED BY <1>1, <1>2, <1>3, PTL DEF Spec, ShownIsFinal
=============================================================================
