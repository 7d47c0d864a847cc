--------------------------- MODULE Payment_proofs ---------------------------
(***************************************************************************)
(* Proofs about module Payment, for any number of transactions, bookings,  *)
(* workers, handlers and goroutines, any number of retries and any number  *)
(* of faults.                                                              *)
(***************************************************************************)
EXTENDS Payment, FiniteSetTheorems, TLAPS

-----------------------------------------------------------------------------
(* What processes are at *)

\* the outcome with which a label is reached
LabelOK(a) ==
    /\ a.pc \in {"paid_load", "paid_write", "paid_publish"} => a.to = "success"
    /\ a.pc \in {"hook_note", "failed_write"} => a.to = "failed"

Good(a) == /\ a \in Task
           /\ a.pc # "idle" => a.txn \in Txn
           /\ LabelOK(a)

ActOK == /\ DOMAIN act = Process /\ act = [x \in Process |-> act[x]]
         /\ \A x \in Process : Good(act[x])

LEMMA GoodIdle == Good(Idle)
BY PaymentAssumption DEF Good, Idle, Task, Outcome, LabelOK

\* one process moves on
LEMMA OneMoves ==
    ASSUME ActOK, NEW x \in Process, NEW a, Good(a), act' = [act EXCEPT ![x] = a]
    PROVE  ActOK'
BY DEF ActOK

LEMMA ReturnOK ==
    ASSUME ActOK, NEW x \in Process, Return(x)
    PROVE  ActOK'
BY GoodIdle, OneMoves DEF Return

LEMMA GotoOK ==
    ASSUME ActOK, NEW x \in Process, NEW label, Goto(x, label), act[x].pc # "idle",
           label \in {"hook_enqueue", "hook_write", "verify_write", "lock"} \union After,
           label \in {"paid_load", "paid_write", "paid_publish"} => act[x].to = "success",
           label = "failed_write" => act[x].to = "failed"
    PROVE  ActOK'
<1>. DEFINE a == [act[x] EXCEPT !.pc = label]
<1>1. Good(act[x])
    BY DEF ActOK
<1>2. Good(a)
    BY <1>1 DEF Good, Task, LabelOK, After
<1>3. act' = [act EXCEPT ![x] = a]
    BY DEF Goto, ActOK
<1> QED BY <1>2, <1>3, OneMoves

LEMMA EnterOK ==
    ASSUME ActOK, NEW x \in Process, NEW label, NEW t \in Txn, NEW to \in Outcome,
           Enter(x, label, t, to),
           label \in {"create", "hook_note", "hook_enqueue", "verify_ask", "lock"},
           label = "hook_note" => to = "failed"
    PROVE  ActOK'
<1>1. Good([pc |-> label, txn |-> t, to |-> to, tries |-> 0])
    BY PaymentAssumption DEF Good, Task, LabelOK
<1> QED BY <1>1, OneMoves DEF Enter

JobsOK == jobs \in Seq(Job) /\ Len(jobs) <= Capacity

LEMMA JobsStep ==
    ASSUME ActOK, JobsOK, [Next]_vars
    PROVE  JobsOK'
<1>. USE PaymentAssumption
<1>1. ASSUME NEW r \in Request, WebhookEnqueue(r) PROVE JobsOK'
  <2>1. [txn |-> act[r].txn, to |-> act[r].to] \in Job
    BY <1>1 DEF WebhookEnqueue, At, ActOK, Good, Process, Task, Job
  <2> QED BY <1>1, <2>1 DEF WebhookEnqueue, JobsOK
<1>2. ASSUME NEW w \in Worker, Take(w) PROVE JobsOK'
    BY <1>2 DEF Take, JobsOK
<1>3. CASE Crash
    BY <1>3 DEF Crash, JobsOK
<1>4. ASSUME NEW x \in Runner, Panic(x) PROVE JobsOK'
    BY <1>3, <1>4 DEF Panic, JobsOK
<1>5. ASSUME NEW r \in Request, Continue(r), ~WebhookEnqueue(r) PROVE JobsOK'
    BY <1>5 DEF Continue, CreateTransaction, WebhookNote, WebhookWrite, VerifyAsk, VerifyWrite, JobsOK
<1>6. ASSUME NEW r \in Request, NEW t \in Txn,
             \/ InitiatePayment(r, t) \/ VerifyPayment(r, t)
             \/ \E to \in Outcome : ProcessWebhook(r, t, to)
      PROVE JobsOK'
    BY <1>6 DEF InitiatePayment, VerifyPayment, ProcessWebhook, JobsOK
<1>7. ASSUME NEW w \in Worker, Lock(w) \/ Skip(w) \/ LockFails(w) PROVE JobsOK'
    BY <1>7 DEF Lock, Skip, LockFails, JobsOK
<1>8. ASSUME NEW x \in Runner, Consequences(x) \/ AttemptFails(x) \/ ErrorIgnored(x) PROVE JobsOK'
    BY <1>8 DEF Consequences, PaidLoad, PaidWrite, PaidPublish, FailedWrite, AttemptFails,
                ErrorIgnored, JobsOK
<1>9. ASSUME NEW t \in Txn, Capture(t) \/ Decline(t) \/ LockExpires(t) PROVE JobsOK'
    BY <1>9 DEF Capture, Decline, LockExpires, JobsOK
<1>10. ASSUME NEW r \in Request, CreateFails(r) \/ WebhookFails(r) \/ VerifyFails(r) PROVE JobsOK'
    BY <1>10 DEF CreateFails, WebhookFails, VerifyFails, JobsOK
<1>11. ASSUME NEW b \in Booking, ReserveExpires(b) PROVE JobsOK'
    BY <1>11 DEF ReserveExpires, JobsOK
<1>12. CASE Bill \/ InvoiceFails \/ InvoicePushFails
    BY <1>12 DEF Bill, InvoiceTake, InvoiceFetch, InvoiceGenerate, InvoiceRefused, InvoiceMark,
                 InvoiceUnmarked, InvoiceRetry, InvoiceFails, InvoicePushFails, JobsOK
<1>13. CASE UNCHANGED vars
    BY <1>13 DEF vars, JobsOK
<1> QED
    BY <1>1, <1>2, <1>3, <1>4, <1>5, <1>6, <1>7, <1>8, <1>9, <1>10, <1>11, <1>12, <1>13
    DEF Next, Proper, Fault, Work

LEMMA ActStep ==
    ASSUME ActOK, JobsOK, [Next]_vars
    PROVE  ActOK'
<1>. USE DEF Process, Runner, At
<1>1. ASSUME NEW r \in Request, NEW t \in Txn, InitiatePayment(r, t) PROVE ActOK'
    BY <1>1, EnterOK DEF InitiatePayment, Outcome
<1>2. ASSUME NEW r \in Request, NEW t \in Txn, VerifyPayment(r, t) PROVE ActOK'
    BY <1>2, EnterOK DEF VerifyPayment, Outcome
<1>3. ASSUME NEW r \in Request, NEW t \in Txn, NEW to \in Outcome, ProcessWebhook(r, t, to)
      PROVE  ActOK'
    BY <1>3, EnterOK DEF ProcessWebhook, Outcome
<1>4. ASSUME NEW r \in Request, CreateTransaction(r) \/ CreateFails(r) \/ WebhookWrite(r) \/ VerifyFails(r)
      PROVE  ActOK'
    BY <1>4, ReturnOK DEF CreateTransaction, CreateFails, WebhookWrite, VerifyFails
<1>5. ASSUME NEW r \in Request, WebhookNote(r) \/ WebhookEnqueue(r) PROVE ActOK'
    BY <1>5, GotoOK DEF WebhookNote, WebhookEnqueue, After
<1>6. ASSUME NEW r \in Request, WebhookFails(r) PROVE ActOK'
    BY <1>6, GotoOK, ReturnOK DEF WebhookFails
<1>7. ASSUME NEW r \in Request, VerifyAsk(r) PROVE ActOK'
  <2>. DEFINE answer == Verdict(act[r].txn)
              a == [act[r] EXCEPT !.pc = "verify_write", !.to = answer]
  <2>1. CASE answer \in Outcome /\ act' = [act EXCEPT ![r].pc = "verify_write", ![r].to = answer]
    <3>1. Good(act[r]) /\ act[r].pc = "verify_ask"
      BY <1>7 DEF VerifyAsk, ActOK
    <3>2. Good(a)
      BY <2>1, <3>1 DEF Good, Task, LabelOK
    <3>3. act' = [act EXCEPT ![r] = a]
      BY <2>1 DEF ActOK
    <3> QED BY <3>2, <3>3, OneMoves
  <2>2. CASE Return(r)
    BY <2>2, ReturnOK
  <2> QED BY <1>7, <2>1, <2>2 DEF VerifyAsk
<1>8. ASSUME NEW r \in Request, NEW v \in Verifier, VerifyWrite(r, v) PROVE ActOK'
  <2>. DEFINE a == [pc |-> Begin(act[r].to), txn |-> act[r].txn, to |-> act[r].to, tries |-> 0]
  <2>1. Good(act[r]) /\ act[r].pc = "verify_write"
    BY <1>8 DEF VerifyWrite, ActOK
  <2>2. Good(a)
    BY <2>1, PaymentAssumption DEF Good, Task, LabelOK, Begin, After, Outcome
  <2>3. act' = [act EXCEPT ![r] = Idle, ![v] = a]
    BY <1>8 DEF VerifyWrite
  <2> HIDE DEF a
  <2> QED BY <2>2, <2>3, GoodIdle DEF ActOK
<1>9. ASSUME NEW w \in Worker, Take(w) PROVE ActOK'
  <2>1. Head(jobs) \in Job
    BY <1>9 DEF Take, JobsOK
  <2> QED BY <1>9, <2>1, EnterOK DEF Take, Job
<1>10. ASSUME NEW w \in Worker, Lock(w) PROVE ActOK'
  <2>1. act[w].to \in Outcome
    BY DEF ActOK, Good, Task
  <2>2. Goto(w, Begin(act[w].to)) /\ act[w].pc = "lock"
    BY <1>10 DEF Lock
  <2>3. \/ Begin(act[w].to) = "paid_load" /\ act[w].to = "success"
        \/ Begin(act[w].to) = "failed_write" /\ act[w].to = "failed"
    BY <2>1 DEF Begin, Outcome
  <2> QED BY <2>2, <2>3, GotoOK DEF After
<1>11. ASSUME NEW w \in Worker, Skip(w) \/ LockFails(w) PROVE ActOK'
    BY <1>11, ReturnOK DEF Skip, LockFails
<1>12. ASSUME NEW x \in Runner, Consequences(x) \/ ErrorIgnored(x) PROVE ActOK'
  <2>1. Good(act[x])
    BY DEF ActOK
  <2>2. CASE PaidLoad(x) \/ PaidWrite(x)
    BY <2>1, <2>2, GotoOK, ReturnOK DEF PaidLoad, PaidWrite, After, Good, LabelOK
  <2>3. CASE PaidPublish(x) \/ FailedWrite(x) \/ ErrorIgnored(x)
    BY <2>3, ReturnOK DEF PaidPublish, FailedWrite, ErrorIgnored
  <2> QED BY <1>12, <2>2, <2>3 DEF Consequences
<1>13. ASSUME NEW x \in Runner, AttemptFails(x) PROVE ActOK'
  <2>. DEFINE a == [act[x] EXCEPT !.pc = Begin(act[x].to), !.tries = @ + 1]
  <2>1. CASE ~Last(act[x].tries) /\ act' = [act EXCEPT ![x].pc = Begin(act[x].to), ![x].tries = @ + 1]
    <3>1. Good(act[x]) /\ act[x].pc \in After
      BY <1>13 DEF AttemptFails, ActOK
    <3>2. act[x].tries + 1 \in 0..(Attempts - 1)
      BY <2>1, <3>1, PaymentAssumption DEF Last, Good, Task
    <3>3. Good(a)
      BY <3>1, <3>2 DEF Good, Task, LabelOK, Begin, After, Outcome
    <3>4. act' = [act EXCEPT ![x] = a]
      BY <2>1 DEF ActOK
    <3> QED BY <3>3, <3>4, OneMoves
  <2>2. CASE Return(x)
    BY <2>2, ReturnOK
  <2> QED BY <1>13, <2>1, <2>2 DEF AttemptFails
<1>14. CASE Crash
    BY <1>14, GoodIdle DEF Crash, ActOK
<1>15. ASSUME NEW x \in Runner, Panic(x) PROVE ActOK'
    BY <1>14, <1>15, ReturnOK DEF Panic
<1>16. CASE \/ \E t \in Txn : Capture(t) \/ Decline(t) \/ LockExpires(t)
            \/ \E b \in Booking : ReserveExpires(b)
            \/ UNCHANGED vars
    BY <1>16 DEF Capture, Decline, LockExpires, ReserveExpires, vars, ActOK
<1>17. CASE Bill \/ InvoiceFails \/ InvoicePushFails
    BY <1>17 DEF Bill, InvoiceTake, InvoiceFetch, InvoiceGenerate, InvoiceRefused, InvoiceMark,
                 InvoiceUnmarked, InvoiceRetry, InvoiceFails, InvoicePushFails, ActOK
<1> QED
    BY <1>1, <1>2, <1>3, <1>4, <1>5, <1>6, <1>7, <1>8, <1>9, <1>10, <1>11, <1>12, <1>13, <1>14,
       <1>15, <1>16, <1>17 DEF Next, Proper, Fault, Continue, Work

-----------------------------------------------------------------------------
(* The other variables but those of the invoices *)

RestOK ==
    /\ captured \subseteq Txn /\ declined \subseteq Txn
    /\ txn      \in [Txn -> {"none", "pending", "paid", "failed"}]
    /\ payment  \in [Booking -> {"pending", "paid", "failed"}]
    /\ reserve  \subseteq Booking
    /\ lock     \subseteq Txn
    /\ runs     \in [Txn -> Nat]
    /\ verified \in [Txn -> Nat]
    /\ expired  \in [Txn -> Nat]
    /\ lost     \subseteq Txn

LEMMA RestStep ==
    ASSUME ActOK, JobsOK, RestOK, [Next]_vars
    PROVE  RestOK'
<1>. USE PaymentAssumption
<1>1. \A x \in Process : act[x].pc # "idle" => act[x].txn \in Txn
    BY DEF ActOK, Good
<1>2. \A t \in Txn, to \in Outcome : lost \union {t} \subseteq Txn /\ BookingOf[t] \in Booking
    BY DEF RestOK
<1>. USE DEF Process, Runner, At, RestOK
<1>3. ASSUME NEW r \in Request, NEW t \in Txn,
             \/ InitiatePayment(r, t) \/ VerifyPayment(r, t)
             \/ \E to \in Outcome : ProcessWebhook(r, t, to)
      PROVE RestOK'
    BY <1>3 DEF InitiatePayment, VerifyPayment, ProcessWebhook, gateway, docs, keys, history
<1>4. ASSUME NEW r \in Request, CreateTransaction(r) \/ CreateFails(r) PROVE RestOK'
    BY <1>4 DEF CreateTransaction, CreateFails, gateway, docs, keys, history
<1>5. ASSUME NEW r \in Request, WebhookNote(r) \/ WebhookEnqueue(r) PROVE RestOK'
    BY <1>1, <1>5 DEF WebhookNote, WebhookEnqueue, Lose, gateway, docs, keys, history
<1>6. ASSUME NEW r \in Request, WebhookWrite(r) \/ WebhookFails(r) PROVE RestOK'
    BY <1>6 DEF WebhookWrite, WebhookFails, Status, gateway, docs, keys, history
<1>7. ASSUME NEW r \in Request, VerifyAsk(r) \/ VerifyFails(r) PROVE RestOK'
    BY <1>7 DEF VerifyAsk, VerifyFails, Status, gateway, docs, keys, history
<1>8. ASSUME NEW r \in Request, NEW v \in Verifier, VerifyWrite(r, v) PROVE RestOK'
  <2>1. verified' \in [Txn -> Nat]
    <3>1. act[r].txn \in Txn
      BY <1>1, <1>8 DEF VerifyWrite
    <3> QED BY <1>8, <3>1 DEF VerifyWrite
  <2>2. txn' \in [Txn -> {"none", "pending", "paid", "failed"}]
    BY <1>8 DEF VerifyWrite, Status
  <2> QED BY <1>8, <2>1, <2>2 DEF VerifyWrite, gateway, keys
<1>9. ASSUME NEW w \in Worker, Take(w) \/ Lock(w) \/ Skip(w) \/ LockFails(w) PROVE RestOK'
    BY <1>1, <1>9 DEF Take, Lock, Skip, LockFails, Lose, gateway, docs, keys, history
<1>10. ASSUME NEW x \in Runner, Consequences(x) \/ ErrorIgnored(x) PROVE RestOK'
  <2>1. CASE PaidLoad(x) \/ PaidWrite(x) \/ FailedWrite(x)
    BY <2>1 DEF PaidLoad, PaidWrite, FailedWrite, gateway, docs, keys, history
  <2>2. CASE PaidPublish(x) \/ ErrorIgnored(x)
    <3>1. act[x].txn \in Txn
      BY <1>1, <2>2 DEF PaidPublish, ErrorIgnored
    <3>2. runs' = runs \/ runs' = [runs EXCEPT ![act[x].txn] = runs[act[x].txn] + 1]
      BY <2>2 DEF PaidPublish, ErrorIgnored
    <3>3. runs' \in [Txn -> Nat]
      BY <3>1, <3>2
    <3> QED BY <2>2, <3>3 DEF PaidPublish, ErrorIgnored, gateway, docs, keys
  <2> QED BY <1>10, <2>1, <2>2 DEF Consequences
<1>11. ASSUME NEW x \in Runner, AttemptFails(x) PROVE RestOK'
    BY <1>1, <1>11 DEF AttemptFails, After, Lose, gateway, docs, keys, history
<1>12. CASE Crash
    BY <1>12 DEF Crash, gateway, docs, keys, history
<1>13. ASSUME NEW x \in Runner, Panic(x) PROVE RestOK'
    BY <1>1, <1>12, <1>13 DEF Panic, Lose, gateway, docs, keys, history
<1>14. ASSUME NEW t \in Txn, Capture(t) \/ Decline(t) \/ LockExpires(t) PROVE RestOK'
    BY <1>14 DEF Capture, Decline, LockExpires, gateway, docs, keys, history
<1>15. ASSUME NEW b \in Booking, ReserveExpires(b) PROVE RestOK'
    BY <1>15 DEF ReserveExpires, gateway, docs, history
<1>16. CASE Bill \/ InvoiceFails \/ InvoicePushFails
    BY <1>16 DEF Bill, InvoiceTake, InvoiceFetch, InvoiceGenerate, InvoiceRefused, InvoiceMark,
                InvoiceUnmarked, InvoiceRetry, InvoiceFails, InvoicePushFails,
                gateway, docs, keys, history
<1>17. CASE UNCHANGED vars
    BY <1>17 DEF vars, gateway, docs, keys, history
<1> QED
    BY <1>3, <1>4, <1>5, <1>6, <1>7, <1>8, <1>9, <1>10, <1>11, <1>12, <1>13, <1>14, <1>15,
       <1>16, <1>17 DEF Next, Proper, Fault, Continue, Work

-----------------------------------------------------------------------------
(* Invoices: those that count are the marked ones, and the one about to be marked *)

Marking(t) == inv.pc = "mark" /\ inv.txn = t

InvoicesOK ==
    /\ invoiced \subseteq Txn
    /\ invoices \in [Txn -> Nat]
    /\ invq \in Seq(InvoiceJob)
    /\ inv \in InvoiceTask
    /\ inv.pc # "idle" => inv.txn \in Txn
    /\ inv.pc \in {"generate", "mark"} => inv.txn \notin invoiced
    /\ \A t \in Txn : invoices[t] = IF t \in invoiced \/ Marking(t) THEN 1 ELSE 0

LEMMA InvoicesStep ==
    ASSUME ActOK, InvoicesOK, [Next]_vars
    PROVE  InvoicesOK'
<1>. USE PaymentAssumption DEF InvoicesOK, Marking
<1>1. CASE InvoiceTake
  <2>1. Head(invq) \in InvoiceJob
    BY <1>1 DEF InvoiceTake
  <2>2. inv' \in InvoiceTask /\ inv'.txn \in Txn /\ inv'.pc = "fetch"
    BY <1>1, <2>1 DEF InvoiceTake, InvoiceJob, InvoiceTask
  <2> QED BY <1>1, <2>2 DEF InvoiceTake, docs
<1>2. CASE InvoiceFetch
    BY <1>2 DEF InvoiceFetch, Proceed, InvoiceTask, Resting, docs
<1>3. CASE InvoiceGenerate
    BY <1>3 DEF InvoiceGenerate, Proceed, InvoiceTask
<1>4. CASE InvoiceRefused \/ InvoicePushFails
    BY <1>4 DEF InvoiceRefused, InvoicePushFails, Proceed, InvoiceTask, Resting, docs
<1>5. CASE InvoiceMark
    BY <1>5 DEF InvoiceMark, InvoiceTask, Resting
<1>6. CASE InvoiceUnmarked
    BY <1>6 DEF InvoiceUnmarked, Disown, InvoiceTask, Resting
<1>7. CASE InvoiceRetry
  <2>1. inv.retry < InvoiceRetries => [txn |-> inv.txn, retry |-> inv.retry + 1] \in InvoiceJob
    BY <1>7 DEF InvoiceRetry, InvoiceJob, InvoiceTask
  <2>2. invq' \in Seq(InvoiceJob)
    BY <1>7, <2>1 DEF InvoiceRetry
  <2> QED BY <1>7, <2>2 DEF InvoiceRetry, InvoiceTask, Resting, docs
<1>8. CASE InvoiceFails
  <2>1. inv' \in InvoiceTask /\ inv'.pc = "retry" /\ inv'.txn = inv.txn
    BY <1>8 DEF InvoiceFails, Proceed, InvoiceTask
  <2>2. CASE inv.pc \in {"fetch", "generate"} /\ UNCHANGED <<invoices, invoiced>>
    BY <1>8, <2>1, <2>2 DEF InvoiceFails
  <2>3. CASE inv.pc = "mark" /\ Disown /\ UNCHANGED invoiced
    BY <1>8, <2>1, <2>3 DEF InvoiceFails, Disown
  <2>4. CASE inv.pc = "mark" /\ invoiced' = invoiced \union {inv.txn} /\ UNCHANGED invoices
    BY <1>8, <2>1, <2>4 DEF InvoiceFails
  <2> QED BY <1>8, <2>2, <2>3, <2>4 DEF InvoiceFails
<1>9. CASE Crash
    BY <1>9 DEF Crash, Disown, InvoiceTask, Resting
<1>10. ASSUME NEW x \in Runner, Consequences(x) \/ AttemptFails(x) \/ ErrorIgnored(x) PROVE InvoicesOK'
  <2>1. CASE PaidPublish(x)
    <3>1. act[x].txn \in Txn
      BY <2>1 DEF PaidPublish, At, ActOK, Good, Process
    <3>2. [txn |-> act[x].txn, retry |-> 0] \in InvoiceJob
      BY <3>1 DEF InvoiceJob
    <3> QED BY <2>1, <3>2 DEF PaidPublish, docs
  <2> QED BY <1>10, <2>1 DEF Consequences, PaidLoad, PaidWrite, FailedWrite, AttemptFails,
                             ErrorIgnored, docs, billing
<1>11. ASSUME NEW x \in Runner, Panic(x) PROVE InvoicesOK'
    BY <1>9, <1>11 DEF Panic, docs, billing
<1>12. ASSUME NEW r \in Request, Continue(r) \/ CreateFails(r) \/ WebhookFails(r) \/ VerifyFails(r)
       PROVE  InvoicesOK'
    BY <1>12 DEF Continue, CreateTransaction, WebhookNote, WebhookEnqueue, WebhookWrite, VerifyAsk,
                 VerifyWrite, CreateFails, WebhookFails, VerifyFails, docs, billing
<1>13. ASSUME NEW r \in Request, NEW t \in Txn,
              \/ InitiatePayment(r, t) \/ VerifyPayment(r, t)
              \/ \E to \in Outcome : ProcessWebhook(r, t, to)
       PROVE InvoicesOK'
    BY <1>13 DEF InitiatePayment, VerifyPayment, ProcessWebhook, docs, billing
<1>14. ASSUME NEW w \in Worker, Work(w) \/ LockFails(w) PROVE InvoicesOK'
    BY <1>14 DEF Work, Take, Lock, Skip, LockFails, docs, billing
<1>15. CASE \/ \E t \in Txn : Capture(t) \/ Decline(t) \/ LockExpires(t)
            \/ \E b \in Booking : ReserveExpires(b)
            \/ UNCHANGED vars
    BY <1>15 DEF Capture, Decline, LockExpires, ReserveExpires, vars, docs, billing
<1> QED
    BY <1>1, <1>2, <1>3, <1>4, <1>5, <1>6, <1>7, <1>8, <1>9, <1>10, <1>11, <1>12, <1>13, <1>14,
       <1>15 DEF Next, Proper, Fault, Bill

-----------------------------------------------------------------------------
(* Type correctness and InvoicedOnce *)

ITypes == ActOK /\ JobsOK /\ RestOK /\ InvoicesOK /\ faults \in 0..MaxFaults

LEMMA TypesInit == Init => ITypes
<1>1. Init => ActOK
    BY GoodIdle DEF Init, ActOK
<1>2. Init => JobsOK /\ RestOK /\ InvoicesOK /\ faults \in 0..MaxFaults
    BY PaymentAssumption DEF Init, JobsOK, RestOK, InvoicesOK, Marking, Resting, InvoiceTask
<1> QED BY <1>1, <1>2 DEF ITypes

LEMMA TypesStep == ITypes /\ [Next]_vars => ITypes'
<1>1. faults \in 0..MaxFaults /\ [Next]_vars => faults' \in 0..MaxFaults
    BY PaymentAssumption DEF Next, vars
<1> QED BY <1>1, ActStep, JobsStep, RestStep, InvoicesStep DEF ITypes

LEMMA TypesImply == ITypes => TypeOK /\ InvoicedOnce
<1>1. ITypes => TypeOK
    BY PaymentAssumption DEF ITypes, ActOK, Good, JobsOK, RestOK, InvoicesOK, TypeOK
<1>2. ITypes => InvoicedOnce
    BY DEF ITypes, InvoicesOK, InvoicedOnce
<1> QED BY <1>1, <1>2

LEMMA Types == Spec => []ITypes
BY TypesInit, TypesStep, PTL DEF Spec

\* Every variable keeps its type: a worker never tries a job more often than it may, the
\* channel never holds more than its capacity, an invoice job is never pushed back once too
\* often, and no process works without a transaction.
THEOREM PaymentTypeCorrect == Spec => []TypeOK
BY Types, TypesImply, PTL

\* "invoice already generated": however many invoice jobs a transaction gets, from retries,
\* repeated webhooks and VerifyPayment, its attempts that come to an end make one invoice.
THEOREM InvoicedOnceAlways == Spec => []InvoicedOnce
BY Types, TypesImply, PTL

-----------------------------------------------------------------------------
(* Grounded: a process or a job that knows an outcome has it from the gateway *)

Backed(t, to) == t \in IF to = "success" THEN captured ELSE declined

\* the same in the next state, about a transaction of this one
BackedNext(t, to) == t \in IF to = "success" THEN captured' ELSE declined'

Knows(a) == a.pc \notin {"idle", "create", "verify_ask"} => Backed(a.txn, a.to)

KnownOK ==
    /\ \A x \in Process : Knows(act[x])
    /\ \A i \in DOMAIN jobs : Backed(jobs[i].txn, jobs[i].to)

LEMMA GatewayGrows ==
    ASSUME [Next]_vars
    PROVE  captured \subseteq captured' /\ declined \subseteq declined'
<1>1. CASE Fault
    BY <1>1 DEF Fault, CreateFails, WebhookFails, VerifyFails, LockFails, AttemptFails, ErrorIgnored,
                Panic, Crash, LockExpires, InvoiceFails, InvoicePushFails, gateway
<1>2. ASSUME NEW t \in Txn, Capture(t) \/ Decline(t)
      PROVE  captured \subseteq captured' /\ declined \subseteq declined'
    BY <1>2 DEF Capture, Decline
<1>3. ASSUME NEW r \in Request,
             \/ Continue(r)
             \/ \E t \in Txn : \/ InitiatePayment(r, t) \/ VerifyPayment(r, t)
                               \/ \E to \in Outcome : ProcessWebhook(r, t, to)
      PROVE  captured \subseteq captured' /\ declined \subseteq declined'
    BY <1>3 DEF Continue, CreateTransaction, WebhookNote, WebhookEnqueue, WebhookWrite, VerifyAsk,
                VerifyWrite, InitiatePayment, VerifyPayment, ProcessWebhook, gateway
<1>4. CASE \/ \E w \in Worker : Work(w)
           \/ \E x \in Runner : Consequences(x)
           \/ \E b \in Booking : ReserveExpires(b)
           \/ Bill
           \/ UNCHANGED vars
    BY <1>4 DEF Work, Take, Lock, Skip, Consequences, PaidLoad, PaidWrite, PaidPublish, FailedWrite,
                ReserveExpires, Bill, InvoiceTake, InvoiceFetch, InvoiceGenerate, InvoiceRefused,
                InvoiceMark, InvoiceUnmarked, InvoiceRetry, gateway, vars
<1> QED BY <1>1, <1>2, <1>3, <1>4 DEF Next, Proper

\* what was known remains so
LEMMA BackedGrows ==
    ASSUME [Next]_vars
    PROVE  /\ \A t, to : Backed(t, to) => BackedNext(t, to)
           /\ \A a : Knows(a) => (a.pc \notin {"idle", "create", "verify_ask"} => BackedNext(a.txn, a.to))
BY GatewayGrows DEF Backed, BackedNext, Knows

\* one process moves on
LEMMA OneKnows ==
    ASSUME ActOK, KnownOK, [Next]_vars, NEW x \in Process, NEW a,
           a.pc \in {"idle", "create", "verify_ask"} \/ BackedNext(a.txn, a.to),
           act' = [act EXCEPT ![x] = a]
    PROVE  \A y \in Process : Knows(act[y])'
BY BackedGrows DEF ActOK, KnownOK, Knows, Backed, BackedNext

LEMMA KnownNext ==
    ASSUME \A y \in Process : Knows(act[y])',
           \A i \in DOMAIN jobs' : BackedNext(jobs'[i].txn, jobs'[i].to)
    PROVE  KnownOK'
BY DEF KnownOK, Backed, BackedNext

LEMMA KnownStep ==
    ASSUME ActOK, JobsOK, KnownOK, [Next]_vars
    PROVE  KnownOK'
<1>1. UNCHANGED jobs => \A i \in DOMAIN jobs' : BackedNext(jobs'[i].txn, jobs'[i].to)
    BY BackedGrows DEF KnownOK
<1>2. ASSUME NEW x \in Process, Return(x) PROVE \A y \in Process : Knows(act[y])'
    BY <1>2, OneKnows DEF Return, Idle
<1>3. ASSUME NEW x \in Process, NEW label, Goto(x, label),
             act[x].pc \notin {"idle", "create", "verify_ask"}
      PROVE  \A y \in Process : Knows(act[y])'
  <2>. DEFINE a == [act[x] EXCEPT !.pc = label]
  <2>1. a.txn = act[x].txn /\ a.to = act[x].to
    BY DEF ActOK, Good, Task
  <2>2. BackedNext(act[x].txn, act[x].to)
    BY <1>3, BackedGrows DEF KnownOK, Knows
  <2>3. act' = [act EXCEPT ![x] = a]
    BY <1>3 DEF Goto, ActOK
  <2> HIDE DEF a
  <2> QED BY <2>1, <2>2, <2>3, OneKnows
<1>. USE DEF Process, Runner, At
<1>4. ASSUME NEW r \in Request, NEW t \in Txn, InitiatePayment(r, t) \/ VerifyPayment(r, t)
      PROVE  KnownOK'
  <2>1. PICK label \in {"create", "verify_ask"} : Enter(r, label, t, "success")
    BY <1>4 DEF InitiatePayment, VerifyPayment
  <2>2. \A y \in Process : Knows(act[y])'
    BY <2>1, OneKnows DEF Enter
  <2> QED BY <1>1, <1>4, <2>2, KnownNext DEF InitiatePayment, VerifyPayment
<1>5. ASSUME NEW r \in Request, NEW t \in Txn, NEW to \in Outcome, ProcessWebhook(r, t, to)
      PROVE  KnownOK'
  <2>1. BackedNext(t, to)
    BY <1>5 DEF ProcessWebhook, BackedNext, gateway
  <2>2. PICK label : Enter(r, label, t, to)
    BY <1>5 DEF ProcessWebhook
  <2>3. \A y \in Process : Knows(act[y])'
    BY <2>1, <2>2, OneKnows DEF Enter
  <2> QED BY <1>1, <1>5, <2>3, KnownNext DEF ProcessWebhook
<1>6. ASSUME NEW r \in Request,
             \/ CreateTransaction(r) \/ CreateFails(r) \/ WebhookNote(r) \/ WebhookWrite(r)
             \/ WebhookFails(r) \/ VerifyFails(r)
      PROVE  KnownOK'
  <2>1. \A y \in Process : Knows(act[y])'
    BY <1>2, <1>3, <1>6 DEF CreateTransaction, CreateFails, WebhookNote, WebhookWrite,
       WebhookFails, VerifyFails
  <2>2. UNCHANGED jobs
    BY <1>6 DEF CreateTransaction, CreateFails, WebhookNote, WebhookWrite,
       WebhookFails, VerifyFails
  <2> QED BY <1>1, <2>1, <2>2, KnownNext
<1>7. ASSUME NEW r \in Request, WebhookEnqueue(r) PROVE KnownOK'
  <2>. DEFINE j == [txn |-> act[r].txn, to |-> act[r].to]
  <2>1. \A y \in Process : Knows(act[y])'
    BY <1>3, <1>7 DEF WebhookEnqueue
  <2>2. BackedNext(act[r].txn, act[r].to)
    BY <1>7, BackedGrows DEF WebhookEnqueue, KnownOK, Knows
  <2>3. j \in Job
    BY <1>7 DEF WebhookEnqueue, ActOK, Good, Task, Job
  <2>4. \A i \in DOMAIN jobs : BackedNext(jobs[i].txn, jobs[i].to)
    BY BackedGrows DEF KnownOK
  <2>5. jobs' = jobs \/ jobs' = Append(jobs, j)
    BY <1>7 DEF WebhookEnqueue
  <2>6. \A i \in DOMAIN Append(jobs, j) : \/ i \in DOMAIN jobs /\ Append(jobs, j)[i] = jobs[i]
                                          \/ Append(jobs, j)[i] = j
    BY <2>3 DEF JobsOK
  <2>7. j.txn = act[r].txn /\ j.to = act[r].to
    OBVIOUS
  <2> HIDE DEF j
  <2> QED BY <2>1, <2>2, <2>4, <2>5, <2>6, <2>7, KnownNext
<1>8. ASSUME NEW r \in Request, VerifyAsk(r) PROVE KnownOK'
  <2>. DEFINE answer == Verdict(act[r].txn)
              a == [act[r] EXCEPT !.pc = "verify_write", !.to = answer]
  <2>1. ASSUME answer \in Outcome, act' = [act EXCEPT ![r].pc = "verify_write", ![r].to = answer]
        PROVE  \A y \in Process : Knows(act[y])'
    <3>1. BackedNext(act[r].txn, answer)
      BY <1>8, <2>1 DEF VerifyAsk, Verdict, BackedNext, Outcome, gateway
    <3>2. a.txn = act[r].txn /\ a.to = answer
      BY DEF ActOK, Good, Task
    <3>3. act' = [act EXCEPT ![r] = a]
      BY <2>1 DEF ActOK
    <3> HIDE DEF a, answer
    <3> QED BY <3>1, <3>2, <3>3, OneKnows
  <2>2. \A y \in Process : Knows(act[y])'
    BY <1>2, <1>8, <2>1 DEF VerifyAsk
  <2> QED BY <1>1, <1>8, <2>2, KnownNext DEF VerifyAsk
<1>9. ASSUME NEW r \in Request, NEW v \in Verifier, VerifyWrite(r, v) PROVE KnownOK'
  <2>. DEFINE a == [pc |-> Begin(act[r].to), txn |-> act[r].txn, to |-> act[r].to, tries |-> 0]
  <2>1. BackedNext(act[r].txn, act[r].to)
    BY <1>9, BackedGrows DEF VerifyWrite, KnownOK, Knows
  <2>2. act' = [act EXCEPT ![r] = Idle, ![v] = a]
    BY <1>9 DEF VerifyWrite
  <2>3. a.txn = act[r].txn /\ a.to = act[r].to /\ Idle.pc = "idle"
    BY DEF Idle
  <2> HIDE DEF a
  <2>4. \A y \in Process : Knows(act[y])'
    <3>1. \A y \in Process : act'[y] \in {Idle, a, act[y]}
      BY <2>2 DEF ActOK
    <3>2. \A y \in Process : Knows(act[y])
      BY DEF KnownOK
    <3> QED BY <2>1, <2>3, <3>1, <3>2, BackedGrows DEF Knows, Backed, BackedNext
  <2> QED BY <1>1, <1>9, <2>4, KnownNext DEF VerifyWrite
<1>10. ASSUME NEW w \in Worker, Take(w) PROVE KnownOK'
  <2>. DEFINE j == Head(jobs)
  <2>1. Enter(w, "lock", j.txn, j.to) /\ jobs' = Tail(jobs) /\ jobs # <<>>
    BY <1>10 DEF Take
  <2>2. BackedNext(j.txn, j.to)
    BY <2>1, BackedGrows DEF KnownOK, JobsOK
  <2>3. \A y \in Process : Knows(act[y])'
    BY <2>1, <2>2, OneKnows DEF Enter
  <2>4. \A i \in DOMAIN Tail(jobs) : i + 1 \in DOMAIN jobs /\ Tail(jobs)[i] = jobs[i + 1]
    BY <2>1 DEF JobsOK
  <2>5. \A i \in DOMAIN jobs : BackedNext(jobs[i].txn, jobs[i].to)
    BY BackedGrows DEF KnownOK
  <2>6. \A i \in DOMAIN jobs' : BackedNext(jobs'[i].txn, jobs'[i].to)
    BY <2>1, <2>4, <2>5
  <2> QED BY <2>3, <2>6, KnownNext
<1>11. ASSUME NEW w \in Worker, Lock(w) \/ Skip(w) \/ LockFails(w) PROVE KnownOK'
  <2>1. \A y \in Process : Knows(act[y])'
    BY <1>2, <1>3, <1>11 DEF Lock, Skip, LockFails
  <2>2. UNCHANGED jobs
    BY <1>11 DEF Lock, Skip, LockFails
  <2> QED BY <1>1, <2>1, <2>2, KnownNext
<1>12. ASSUME NEW x \in Runner, Consequences(x) \/ ErrorIgnored(x) PROVE KnownOK'
  <2>1. \A y \in Process : Knows(act[y])'
    BY <1>2, <1>3, <1>12 DEF Consequences, PaidLoad, PaidWrite, PaidPublish, FailedWrite,
       ErrorIgnored
  <2>2. UNCHANGED jobs
    BY <1>12 DEF Consequences, PaidLoad, PaidWrite, PaidPublish, FailedWrite,
       ErrorIgnored
  <2> QED BY <1>1, <2>1, <2>2, KnownNext
<1>13. ASSUME NEW x \in Runner, AttemptFails(x) PROVE KnownOK'
  <2>. DEFINE a == [act[x] EXCEPT !.pc = Begin(act[x].to), !.tries = @ + 1]
  <2>1. ASSUME act' = [act EXCEPT ![x].pc = Begin(act[x].to), ![x].tries = @ + 1]
        PROVE  \A y \in Process : Knows(act[y])'
    <3>1. BackedNext(act[x].txn, act[x].to)
      BY <1>13, BackedGrows DEF AttemptFails, After, KnownOK, Knows
    <3>2. a.txn = act[x].txn /\ a.to = act[x].to
      BY DEF ActOK, Good, Task
    <3>3. act' = [act EXCEPT ![x] = a]
      BY <2>1 DEF ActOK
    <3> HIDE DEF a
    <3> QED BY <3>1, <3>2, <3>3, OneKnows
  <2>2. \A y \in Process : Knows(act[y])'
    BY <1>2, <1>13, <2>1 DEF AttemptFails
  <2> QED BY <1>1, <1>13, <2>2, KnownNext DEF AttemptFails
<1>14. CASE Crash
    BY <1>14 DEF Crash, Idle, KnownOK, Knows
<1>15. ASSUME NEW x \in Runner, Panic(x) PROVE KnownOK'
  <2>1. CASE Crash
    BY <1>14, <2>1
  <2>2. CASE Return(x) /\ UNCHANGED jobs
    BY <1>1, <1>2, <2>2, KnownNext
  <2> QED BY <1>15, <2>1, <2>2 DEF Panic
<1>16. UNCHANGED <<act, jobs>> => KnownOK'
    BY BackedGrows DEF KnownOK, Knows, Backed, BackedNext
<1>17. CASE \/ \E t \in Txn : Capture(t) \/ Decline(t) \/ LockExpires(t)
            \/ \E b \in Booking : ReserveExpires(b)
            \/ UNCHANGED vars
    BY <1>16, <1>17 DEF Capture, Decline, LockExpires, ReserveExpires, vars
<1>18. CASE Bill \/ InvoiceFails \/ InvoicePushFails
    BY <1>16, <1>18 DEF Bill, InvoiceTake, InvoiceFetch, InvoiceGenerate, InvoiceRefused, InvoiceMark,
                 InvoiceUnmarked, InvoiceRetry, InvoiceFails, InvoicePushFails
<1> QED
    BY <1>4, <1>5, <1>6, <1>7, <1>8, <1>9, <1>10, <1>11, <1>12, <1>13, <1>14, <1>15, <1>17, <1>18
    DEF Next, Proper, Fault, Continue, Work

ShownOK ==
    /\ \A t \in Txn : /\ txn[t] = "paid" => t \in captured
                      /\ txn[t] = "failed" => t \in declined
                      /\ t \in invoiced => t \in captured
    /\ \A b \in Booking : payment[b] = "paid" => \E t \in captured : BookingOf[t] = b

\* a document is written with an outcome that the writer knows
LEMMA TxnWritten ==
    ASSUME ActOK, RestOK, KnownOK, ShownOK, [Next]_vars, NEW x \in Process, NEW st,
           act[x].pc \notin {"idle", "create", "verify_ask"},
           st = "pending" \/ st = Status(act[x].to),
           txn' = [txn EXCEPT ![act[x].txn] = st], UNCHANGED <<invoiced, payment>>
    PROVE  ShownOK'
<1>1. Backed(act[x].txn, act[x].to) /\ act[x].txn \in Txn /\ act[x].to \in Outcome
    BY DEF KnownOK, Knows, ActOK, Good, Task
<1> QED BY <1>1, GatewayGrows DEF Backed, Status, Outcome, RestOK, ShownOK

LEMMA PaymentWritten ==
    ASSUME ActOK, RestOK, KnownOK, ShownOK, [Next]_vars, NEW x \in Process, NEW st,
           st = "failed" \/ (st = "paid" /\ act[x].pc = "paid_write"),
           payment' = [payment EXCEPT ![BookingOf[act[x].txn]] = st], UNCHANGED <<txn, invoiced>>
    PROVE  ShownOK'
<1>1. st = "paid" => act[x].txn \in captured
    BY DEF KnownOK, Knows, Backed, ActOK, Good, LabelOK
<1> QED BY <1>1, GatewayGrows DEF RestOK, ShownOK

LEMMA NothingWritten ==
    ASSUME ShownOK, [Next]_vars, UNCHANGED <<txn, invoiced, payment>>
    PROVE  ShownOK'
BY GatewayGrows DEF ShownOK

LEMMA ShownStep ==
    ASSUME ActOK, RestOK, InvoicesOK, KnownOK, ShownOK, [Next]_vars
    PROVE  ShownOK'
<1>. USE DEF Process, Runner, At
<1>1. ASSUME NEW r \in Request, CreateTransaction(r) PROVE ShownOK'
    BY <1>1, GatewayGrows DEF CreateTransaction, RestOK, ShownOK
<1>2. ASSUME NEW r \in Request, WebhookNote(r) \/ WebhookWrite(r) PROVE ShownOK'
  <2>1. act[r].pc = "hook_note" => act[r].to = "failed"
    BY DEF ActOK, Good, LabelOK
  <2>2. txn' = [txn EXCEPT ![act[r].txn] = Status(act[r].to)]
    BY <1>2, <2>1 DEF WebhookNote, WebhookWrite, Status
  <2> QED BY <1>2, <2>2, TxnWritten DEF WebhookNote, WebhookWrite
<1>3. ASSUME NEW r \in Request, NEW v \in Verifier, VerifyWrite(r, v) PROVE ShownOK'
    BY <1>3, TxnWritten DEF VerifyWrite
<1>4. ASSUME NEW r \in Request, VerifyFails(r) PROVE ShownOK'
    BY <1>4, TxnWritten, NothingWritten DEF VerifyFails
<1>5. ASSUME NEW r \in Request,
             WebhookEnqueue(r) \/ VerifyAsk(r) \/ CreateFails(r) \/ WebhookFails(r)
      PROVE  ShownOK'
    BY <1>5, NothingWritten DEF WebhookEnqueue, VerifyAsk, CreateFails, WebhookFails, docs
<1>6. ASSUME NEW r \in Request, NEW t \in Txn,
             \/ InitiatePayment(r, t) \/ VerifyPayment(r, t)
             \/ \E to \in Outcome : ProcessWebhook(r, t, to)
      PROVE  ShownOK'
    BY <1>6, NothingWritten DEF InitiatePayment, VerifyPayment, ProcessWebhook, docs
<1>7. ASSUME NEW w \in Worker, Work(w) \/ LockFails(w) PROVE ShownOK'
    BY <1>7, NothingWritten DEF Work, Take, Lock, Skip, LockFails, docs
<1>8. ASSUME NEW x \in Runner, PaidWrite(x) PROVE ShownOK'
    BY <1>8, PaymentWritten DEF PaidWrite
<1>9. ASSUME NEW x \in Runner, FailedWrite(x) PROVE ShownOK'
    BY <1>9, PaymentWritten DEF FailedWrite
<1>10. ASSUME NEW x \in Runner, AttemptFails(x) PROVE ShownOK'
    BY <1>10, PaymentWritten, NothingWritten DEF AttemptFails
<1>11. ASSUME NEW x \in Runner, PaidLoad(x) \/ PaidPublish(x) \/ ErrorIgnored(x) \/ Panic(x)
       PROVE  ShownOK'
    BY <1>11, NothingWritten DEF PaidLoad, PaidPublish, ErrorIgnored, Panic, Crash, docs
<1>12. ASSUME NEW t \in Txn, Capture(t) \/ Decline(t) \/ LockExpires(t) PROVE ShownOK'
    BY <1>12, NothingWritten DEF Capture, Decline, LockExpires, docs
<1>13. ASSUME txn[inv.txn] = "paid", inv.pc # "idle", invoiced' = invoiced \union {inv.txn},
              UNCHANGED <<txn, payment>>
       PROVE  ShownOK'
    BY <1>13, GatewayGrows DEF InvoicesOK, ShownOK
<1>14. CASE InvoiceMark \/ InvoiceFails
    BY <1>13, <1>14, NothingWritten DEF InvoiceMark, InvoiceFails
<1>15. CASE \/ InvoiceTake \/ InvoiceFetch \/ InvoiceGenerate \/ InvoiceRefused \/ InvoiceUnmarked
            \/ InvoiceRetry \/ InvoicePushFails \/ Crash
    BY <1>15, NothingWritten DEF InvoiceTake, InvoiceFetch, InvoiceGenerate, InvoiceRefused,
       InvoiceUnmarked, InvoiceRetry, InvoicePushFails, Crash, docs
<1>16. CASE UNCHANGED vars \/ \E b \in Booking : ReserveExpires(b)
    BY <1>16, NothingWritten DEF ReserveExpires, vars, docs
<1> QED
    BY <1>1, <1>2, <1>3, <1>4, <1>5, <1>6, <1>7, <1>8, <1>9, <1>10, <1>11, <1>12, <1>14, <1>15,
       <1>16 DEF Next, Proper, Fault, Continue, Consequences, Bill

\* A transaction is shown as paid or failed, a booking as paid, and an invoice as made, only on
\* account of the gateway's verdict, whatever is queued, retried, lost or asked again.
THEOREM GroundedAlways == Spec => []Grounded
<1>1. Init => KnownOK /\ ShownOK
    BY DEF Init, KnownOK, ShownOK, Knows, Idle
<1>2. ITypes /\ KnownOK /\ ShownOK /\ [Next]_vars => (KnownOK /\ ShownOK)'
    BY KnownStep, ShownStep DEF ITypes
<1>3. ITypes /\ KnownOK /\ ShownOK => Grounded
    BY DEF ITypes, InvoicesOK, ShownOK, Grounded
<1> QED BY Types, <1>1, <1>2, <1>3, PTL DEF Spec

-----------------------------------------------------------------------------
(* ConfirmedOnce: a run that has come or will come to its end had the lock, or VerifyPayment *)

Drawing(x, t) == act[x].txn = t /\ act[x].pc \in {"paid_load", "paid_write", "paid_publish"}

Drawn(t) == Cardinality({x \in Runner : Drawing(x, t)})
Free(t) == IF t \in lock THEN 0 ELSE 1

Within(t) == runs[t] + Drawn(t) + Free(t) <= 1 + verified[t] + expired[t]

Counted == \A t \in Txn : Within(t)

LEMMA SwapRunner ==
    ASSUME NEW P \in SUBSET Runner, NEW Q \in SUBSET Runner, NEW x \in Runner,
           P \ {x} = Q \ {x}
    PROVE  /\ Cardinality(P) \in Nat /\ Cardinality(Q) \in Nat
           /\ Cardinality(Q) = Cardinality(P) - (IF x \in P THEN 1 ELSE 0)
                                              + (IF x \in Q THEN 1 ELSE 0)
<1>1. IsFiniteSet(Runner)
    BY PaymentAssumption, FS_Union DEF Runner
<1>2. IsFiniteSet(P) /\ IsFiniteSet(Q)
    BY <1>1, FS_Subset
<1>3. Cardinality(P) \in Nat /\ Cardinality(Q) \in Nat
    BY <1>2, FS_CardinalityType
<1>4. /\ Cardinality(P \ {x}) = IF x \in P THEN Cardinality(P) - 1 ELSE Cardinality(P)
      /\ Cardinality(Q \ {x}) = IF x \in Q THEN Cardinality(Q) - 1 ELSE Cardinality(Q)
    BY <1>2, FS_RemoveElement
<1>5. Cardinality(P \ {x}) = Cardinality(Q \ {x})
    OBVIOUS
<1> QED BY <1>3, <1>4, <1>5

LEMMA DrawnType ==
    ASSUME NEW t
    PROVE  Drawn(t) \in Nat
<1>1. IsFiniteSet(Runner)
    BY PaymentAssumption, FS_Union DEF Runner
<1>2. IsFiniteSet({x \in Runner : Drawing(x, t)})
    BY <1>1, FS_Subset
<1> QED BY <1>2, FS_CardinalityType DEF Drawn

LEMMA DrawnChange ==
    ASSUME NEW x \in Runner, \A y \in Runner \ {x} : act'[y] = act[y], NEW t
    PROVE  /\ Drawn(t)' \in Nat
           /\ Drawn(t)' = Drawn(t) - (IF Drawing(x, t) THEN 1 ELSE 0)
                                   + (IF Drawing(x, t)' THEN 1 ELSE 0)
<1>. DEFINE P == {y \in Runner : Drawing(y, t)}
            Q == {y \in Runner : /\ act'[y].txn = t
                                 /\ act'[y].pc \in {"paid_load", "paid_write", "paid_publish"}}
<1>1. P \ {x} = Q \ {x}
    BY DEF Drawing
<1>2. (x \in P <=> Drawing(x, t)) /\ (x \in Q <=> Drawing(x, t)')
    BY DEF Drawing
<1>3. Drawn(t) = Cardinality(P) /\ Drawn(t)' = Cardinality(Q)
    BY DEF Drawn, Drawing
<1>4. P \in SUBSET Runner /\ Q \in SUBSET Runner
    OBVIOUS
<1> HIDE DEF P, Q
<1>5. /\ Cardinality(Q) \in Nat
      /\ Cardinality(Q) = Cardinality(P) - (IF x \in P THEN 1 ELSE 0) + (IF x \in Q THEN 1 ELSE 0)
    BY <1>1, <1>4, SwapRunner
<1> QED BY <1>2, <1>3, <1>5

LEMMA DrawnSame ==
    ASSUME \A x \in Runner : act'[x] = act[x], NEW t
    PROVE  Drawn(t)' = Drawn(t)
<1>1. {x \in Runner : act'[x].txn = t /\ act'[x].pc \in {"paid_load", "paid_write", "paid_publish"}}
         = {x \in Runner : act[x].txn = t /\ act[x].pc \in {"paid_load", "paid_write", "paid_publish"}}
    OBVIOUS
<1> QED BY <1>1 DEF Drawn, Drawing

\* nothing is begun, nothing ends
LEMMA Calm ==
    ASSUME RestOK, Counted, NEW t \in Txn,
           Drawn(t)' \in Nat, Drawn(t)' <= Drawn(t), lock \subseteq lock',
           UNCHANGED <<runs, verified, expired>>
    PROVE  Within(t)'
<1>1. runs[t] \in Nat /\ verified[t] \in Nat /\ expired[t] \in Nat /\ Drawn(t) \in Nat
    BY DrawnType DEF RestOK
<1>2. Free(t)' \in 0..1 /\ Free(t) \in 0..1 /\ Free(t)' <= Free(t)
    BY DEF Free
<1>3. runs[t] + Drawn(t) + Free(t) <= 1 + verified[t] + expired[t]
    BY DEF Counted, Within
<1> QED BY <1>1, <1>2, <1>3 DEF Within

\* the same of a step of one runner
LEMMA CalmRunner ==
    ASSUME RestOK, Counted, NEW t \in Txn, NEW x \in Runner,
           \A y \in Runner \ {x} : act'[y] = act[y], Drawing(x, t)' => Drawing(x, t),
           lock \subseteq lock', UNCHANGED <<runs, verified, expired>>
    PROVE  Within(t)'
<1>1. Drawn(t)' \in Nat /\ Drawn(t)' <= Drawn(t)
    BY DrawnChange, DrawnType
<1> QED BY <1>1, Calm

\* and of a step of no runner
LEMMA CalmOther ==
    ASSUME RestOK, Counted, NEW t \in Txn, \A x \in Runner : act'[x] = act[x],
           lock \subseteq lock', UNCHANGED <<runs, verified, expired>>
    PROVE  Within(t)'
<1>1. Drawn(t)' \in Nat /\ Drawn(t)' <= Drawn(t)
    BY DrawnSame, DrawnType
<1> QED BY <1>1, Calm

\* a step of one runner changes what that runner is at
LEMMA RunnerStep ==
    ASSUME ActOK, NEW x \in Runner, NEW a, act' = [act EXCEPT ![x] = a]
    PROVE  act'[x] = a /\ \A y \in Runner \ {x} : act'[y] = act[y]
BY DEF ActOK, Process

LEMMA CountedStep ==
    ASSUME ActOK, RestOK, Counted, [Next]_vars
    PROVE  Counted'
<1>. SUFFICES ASSUME NEW t \in Txn
              PROVE  Within(t)'
    BY DEF Counted
<1>1. /\ runs[t] \in Nat /\ verified[t] \in Nat /\ expired[t] \in Nat
      /\ Drawn(t) \in Nat /\ Free(t) \in 0..1
      /\ runs[t] + Drawn(t) + Free(t) <= 1 + verified[t] + expired[t]
    BY DrawnType DEF RestOK, Counted, Within, Free
<1>2. \A r \in Request : r \notin Runner
    BY PaymentAssumption DEF Runner
<1>3. \A x \in Process : Good(act[x])
    BY DEF ActOK
<1>. USE DEF Process, At
<1>4. ASSUME NEW r \in Request,
             \/ Continue(r) /\ ~\E v \in Verifier : VerifyWrite(r, v)
             \/ CreateFails(r) \/ WebhookFails(r) \/ VerifyFails(r)
             \/ \E n \in Txn : \/ InitiatePayment(r, n) \/ VerifyPayment(r, n)
                               \/ \E to \in Outcome : ProcessWebhook(r, n, to)
      PROVE  Within(t)'
  <2>1. \A x \in Runner : act'[x] = act[x]
    BY <1>2, <1>4 DEF Continue, CreateTransaction, WebhookNote, WebhookEnqueue, WebhookWrite, VerifyAsk,
       CreateFails, WebhookFails, VerifyFails, InitiatePayment, VerifyPayment, ProcessWebhook,
       Enter, Goto, Return, ActOK
  <2>2. lock' = lock /\ UNCHANGED <<runs, verified, expired>>
    BY <1>4 DEF Continue, CreateTransaction, WebhookNote, WebhookEnqueue, WebhookWrite, VerifyAsk,
       CreateFails, WebhookFails, VerifyFails, InitiatePayment, VerifyPayment, ProcessWebhook,
       keys, history
  <2> QED BY <2>1, <2>2, CalmOther
<1>5. ASSUME NEW r \in Request, NEW v \in Verifier, VerifyWrite(r, v) PROVE Within(t)'
  <2>. DEFINE n == act[r].txn
              to == act[r].to
  <2>1. /\ v \in Runner /\ n \in Txn /\ to \in Outcome /\ act[v].pc = "idle"
        /\ UNCHANGED <<lock, runs, expired>>
        /\ verified' = IF to = "success" THEN [verified EXCEPT ![n] = @ + 1] ELSE verified
    BY <1>3, <1>5 DEF VerifyWrite, Runner, Good, Task, keys
  <2>2. act' = [act EXCEPT ![r] = Idle, ![v] = [pc |-> Begin(to), txn |-> n, to |-> to, tries |-> 0]]
    BY <1>5 DEF VerifyWrite
  <2>3. /\ \A y \in Runner \ {v} : act'[y] = act[y]
        /\ act'[v].pc = Begin(to) /\ act'[v].txn = n
    BY <1>2, <2>1, <2>2 DEF ActOK
  <2>4. ~Drawing(v, t) /\ (Drawing(v, t)' <=> n = t /\ to = "success")
    BY <2>1, <2>3 DEF Drawing, Begin, Outcome
  <2>5. Drawn(t)' = Drawn(t) + (IF n = t /\ to = "success" THEN 1 ELSE 0)
    BY <1>1, <2>1, <2>3, <2>4, DrawnChange
  <2>6. verified'[t] = verified[t] + (IF n = t /\ to = "success" THEN 1 ELSE 0)
    BY <1>1, <2>1 DEF RestOK
  <2> HIDE DEF n, to
  <2> QED BY <1>1, <2>1, <2>5, <2>6 DEF Within, Free
<1>6. ASSUME NEW w \in Worker, Lock(w) PROVE Within(t)'
  <2>. DEFINE n == act[w].txn
  <2>1. /\ w \in Runner /\ n \notin lock /\ lock' = lock \union {n}
        /\ UNCHANGED <<runs, verified, expired>>
        /\ act[w].pc = "lock" /\ Goto(w, Begin(act[w].to))
    BY <1>6 DEF Lock, Runner, history
  <2>2. (\A y \in Runner \ {w} : act'[y] = act[y]) /\ act'[w].txn = n
    BY <2>1 DEF Goto, ActOK, Good, Task
  <2>3. ~Drawing(w, t) /\ (Drawing(w, t)' => n = t)
    BY <2>1, <2>2 DEF Drawing
  <2>4. Drawn(t)' \in Nat /\ Drawn(t)' <= Drawn(t) + (IF n = t THEN 1 ELSE 0)
    BY <1>1, <2>1, <2>2, <2>3, DrawnChange
  <2>5. Free(t)' = Free(t) - (IF n = t THEN 1 ELSE 0)
    BY <2>1 DEF Free
  <2> HIDE DEF n
  <2> QED BY <1>1, <2>1, <2>4, <2>5 DEF Within
<1>7. ASSUME NEW w \in Worker, Take(w) \/ Skip(w) \/ LockFails(w) PROVE Within(t)'
  <2>1. w \in Runner
    BY DEF Runner
  <2>2. \E a : act' = [act EXCEPT ![w] = a] /\ a.pc \in {"idle", "lock"}
    BY <1>7 DEF Take, Skip, LockFails, Enter, Return, Idle
  <2>3. (\A y \in Runner \ {w} : act'[y] = act[y]) /\ act'[w].pc \in {"idle", "lock"}
    BY <2>1, <2>2, RunnerStep
  <2>4. lock \subseteq lock' /\ UNCHANGED <<runs, verified, expired>>
    BY <1>7 DEF Take, Skip, LockFails, keys, history
  <2>5. ~Drawing(w, t)'
    BY <2>3 DEF Drawing
  <2> QED BY <2>1, <2>3, <2>4, <2>5, CalmRunner
<1>8. ASSUME NEW x \in Runner, PaidLoad(x) \/ PaidWrite(x) \/ FailedWrite(x) PROVE Within(t)'
  <2>1. \A y \in Runner \ {x} : act'[y] = act[y]
    BY <1>8 DEF PaidLoad, PaidWrite, FailedWrite, Goto, Return, ActOK
  <2>2. Drawing(x, t)' => Drawing(x, t)
    <3>1. CASE Return(x)
      BY <3>1, RunnerStep DEF Return, Idle, Drawing
    <3>2. CASE act[x].pc \in {"paid_load", "paid_write"} /\ \E l : Goto(x, l)
      BY <3>2 DEF Goto, Drawing, ActOK, Good, Task
    <3> QED BY <1>8, <3>1, <3>2 DEF PaidLoad, PaidWrite, FailedWrite
  <2>3. lock' = lock /\ UNCHANGED <<runs, verified, expired>>
    BY <1>8 DEF PaidLoad, PaidWrite, FailedWrite, keys, history
  <2> QED BY <2>1, <2>2, <2>3, CalmRunner
<1>9. ASSUME NEW x \in Runner, PaidPublish(x) \/ ErrorIgnored(x) PROVE Within(t)'
  <2>. DEFINE n == act[x].txn
  <2>1. /\ n \in Txn /\ UNCHANGED <<lock, verified, expired>>
        /\ \/ act[x].pc = "paid_publish" /\ runs' = [runs EXCEPT ![n] = @ + 1]
           \/ act[x].pc = "failed_write" /\ runs' = runs
    BY <1>3, <1>9 DEF PaidPublish, ErrorIgnored, Good, keys, history
  <2>2. act' = [act EXCEPT ![x] = Idle]
    BY <1>9 DEF PaidPublish, ErrorIgnored, Return
  <2>3. (\A y \in Runner \ {x} : act'[y] = act[y]) /\ ~Drawing(x, t)'
    <3>1. act'[x] = Idle /\ \A y \in Runner \ {x} : act'[y] = act[y]
      BY <2>2, RunnerStep
    <3> QED BY <3>1 DEF Drawing, Idle
  <2>4. Drawn(t)' = Drawn(t) - (IF Drawing(x, t) THEN 1 ELSE 0)
    BY <1>1, <2>3, DrawnChange
  <2>5. Drawing(x, t) <=> n = t /\ act[x].pc = "paid_publish"
    BY <2>1 DEF Drawing
  <2>6. runs'[t] = runs[t] + (IF n = t /\ act[x].pc = "paid_publish" THEN 1 ELSE 0)
    BY <1>1, <2>1 DEF RestOK
  <2> HIDE DEF n
  <2> QED BY <1>1, <2>1, <2>4, <2>5, <2>6 DEF Within, Free
<1>10. ASSUME NEW x \in Runner, AttemptFails(x) PROVE Within(t)'
  <2>1. Good(act[x]) /\ act[x].pc \in After
    BY <1>3, <1>10 DEF AttemptFails
  <2>2. \A y \in Runner \ {x} : act'[y] = act[y]
    BY <1>10 DEF AttemptFails, Return, ActOK
  <2>3. Drawing(x, t)' => Drawing(x, t)
    <3>1. CASE Return(x)
      BY <3>1 DEF Return, Idle, Drawing, ActOK
    <3>2. CASE act' = [act EXCEPT ![x].pc = Begin(act[x].to), ![x].tries = @ + 1]
      <4>1. act'[x].txn = act[x].txn /\ act'[x].pc = Begin(act[x].to)
        BY <2>1, <3>2 DEF ActOK, Good, Task
      <4> QED BY <2>1, <4>1 DEF Drawing, Begin, Good, LabelOK, After
    <3> QED BY <1>10, <3>1, <3>2 DEF AttemptFails
  <2>4. lock' = lock /\ UNCHANGED <<runs, verified, expired>>
    BY <1>10 DEF AttemptFails, keys
  <2> QED BY <2>2, <2>3, <2>4, CalmRunner
<1>11. CASE Crash
  <2>1. {x \in Runner : act'[x].txn = t /\ act'[x].pc \in {"paid_load", "paid_write", "paid_publish"}} = {}
    BY <1>11 DEF Crash, Idle
  <2>2. Drawn(t)' = 0
    BY <2>1, FS_EmptySet DEF Drawn, Drawing
  <2>3. lock' = lock /\ UNCHANGED <<runs, verified, expired>>
    BY <1>11 DEF Crash, keys
  <2> QED BY <1>1, <2>2, <2>3, Calm
<1>12. ASSUME NEW x \in Runner, Panic(x) PROVE Within(t)'
  <2>1. CASE Return(x) /\ UNCHANGED <<keys, runs, verified, expired>>
    <3>1. act'[x] = Idle /\ \A y \in Runner \ {x} : act'[y] = act[y]
      BY <2>1, RunnerStep DEF Return
    <3>2. ~Drawing(x, t)'
      BY <3>1 DEF Drawing, Idle
    <3> QED BY <2>1, <3>1, <3>2, CalmRunner DEF keys
  <2> QED BY <1>11, <1>12, <2>1 DEF Panic
<1>13. ASSUME NEW n \in Txn, LockExpires(n) PROVE Within(t)'
  <2>1. /\ UNCHANGED <<act, runs, verified>>
        /\ lock' = lock \ {n} /\ n \in lock /\ expired' = [expired EXCEPT ![n] = @ + 1]
    BY <1>13 DEF LockExpires
  <2>2. Drawn(t)' = Drawn(t)
    BY <2>1, DrawnSame
  <2>3. Free(t)' = Free(t) + (IF n = t THEN 1 ELSE 0)
    BY <2>1 DEF Free
  <2>4. expired'[t] = expired[t] + (IF n = t THEN 1 ELSE 0)
    BY <1>1, <2>1 DEF RestOK
  <2> QED BY <1>1, <2>1, <2>2, <2>3, <2>4 DEF Within
<1>14. CASE \/ \E n \in Txn : Capture(n) \/ Decline(n)
            \/ \E b \in Booking : ReserveExpires(b)
            \/ UNCHANGED vars
  <2>1. act' = act /\ lock' = lock /\ UNCHANGED <<runs, verified, expired>>
    BY <1>14 DEF Capture, Decline, ReserveExpires, vars, keys, history
  <2> QED BY <2>1, CalmOther
<1>15. CASE Bill \/ InvoiceFails \/ InvoicePushFails
  <2>1. act' = act /\ lock' = lock /\ UNCHANGED <<runs, verified, expired>>
    BY <1>15 DEF Bill, InvoiceTake, InvoiceFetch, InvoiceGenerate, InvoiceRefused, InvoiceMark,
       InvoiceUnmarked, InvoiceRetry, InvoiceFails, InvoicePushFails, keys, history
  <2> QED BY <2>1, CalmOther
<1> QED
    BY <1>4, <1>5, <1>6, <1>7, <1>8, <1>9, <1>10, <1>11, <1>12, <1>13, <1>14, <1>15
    DEF Next, Proper, Fault, Continue, Work, Consequences

\* The consequences of a success are drawn once, but for the runs that VerifyPayment starts and
\* for the expiries of payment:job:lock, however many webhooks, workers and retries there are.
THEOREM ConfirmedOnceAlways == Spec => []ConfirmedOnce
<1>1. Init => Counted
  <2>1. SUFFICES ASSUME Init, NEW t \in Txn PROVE Within(t)
    BY DEF Counted
  <2>2. {x \in Runner : Drawing(x, t)} = {}
    BY <2>1 DEF Init, Drawing, Idle, Process
  <2>3. Drawn(t) = 0
    BY <2>2, FS_EmptySet DEF Drawn
  <2> QED BY <2>1, <2>3 DEF Init, Within, Free
<1>2. ITypes /\ Counted /\ [Next]_vars => Counted'
    BY CountedStep DEF ITypes
<1>3. ITypes /\ Counted => ConfirmedOnce
  <2>1. SUFFICES ASSUME RestOK, Counted, NEW t \in Txn
                 PROVE  runs[t] <= 1 + verified[t] + expired[t]
    BY DEF ITypes, ConfirmedOnce
  <2>2. runs[t] \in Nat /\ verified[t] \in Nat /\ expired[t] \in Nat
    BY <2>1 DEF RestOK
  <2>3. Drawn(t) \in Nat /\ Free(t) \in 0..1
    BY DrawnType DEF Free
  <2> QED BY <2>1, <2>2, <2>3 DEF Counted, Within
<1> QED BY Types, <1>1, <1>2, <1>3, PTL DEF Spec

-----------------------------------------------------------------------------
(* The ledger *)

Creating(r, t) == act[r].pc = "create" /\ act[r].txn = t

\* Only a transaction that exists has a verdict, and only one handler is about to insert it.
EntryOK ==
    /\ \A t \in Txn : txn[t] = "none" => t \notin captured \union declined
    /\ \A t \in Txn, r \in Request :
          Creating(r, t) => txn[t] = "none" /\ \A q \in Request : Creating(q, t) => q = r

\* what all steps but those of the invoices write
Written == <<captured, declined, txn, payment>>

LEMMA Recorded ==
    ASSUME ActOK, KnownOK, EntryOK, NEW x \in Process,
           act[x].pc \notin {"idle", "create", "verify_ask"},
           txn' = [txn EXCEPT ![act[x].txn] = Status(act[x].to)],
           UNCHANGED <<captured, declined, payment, invoiced>>
    PROVE  \E t \in Txn : Abstract!Record(t)
<1>1. Backed(act[x].txn, act[x].to) /\ act[x].txn \in Txn /\ act[x].to \in Outcome
    BY DEF KnownOK, Knows, ActOK, Good, Task
<1>2. txn[act[x].txn] # "none" /\ Status(act[x].to) \in Abstract!Shown(act[x].txn)
    BY <1>1 DEF EntryOK, Backed, Status, Outcome, Abstract!Shown
<1> QED BY <1>1, <1>2 DEF Abstract!Record, Abstract!verdicts

LEMMA Told ==
    ASSUME ActOK, KnownOK, NEW x \in Process,
           NEW st \in {"paid", "failed"}, act[x].pc = (IF st = "paid" THEN "paid_write" ELSE "failed_write"),
           payment' = [payment EXCEPT ![BookingOf[act[x].txn]] = st],
           UNCHANGED <<captured, declined, txn, invoiced>>
    PROVE  \E t \in Txn : Abstract!Tell(t)
<1>1. /\ Backed(act[x].txn, act[x].to) /\ act[x].txn \in Txn
      /\ act[x].to = IF st = "paid" THEN "success" ELSE "failed"
    BY DEF KnownOK, Knows, ActOK, Good, LabelOK
<1>2. st \in Abstract!Shown(act[x].txn)
    BY <1>1 DEF Backed, Abstract!Shown
<1> QED BY <1>1, <1>2 DEF Abstract!Tell, Abstract!verdicts

LEMMA Noted ==
    ASSUME InvoicesOK, ShownOK, inv.pc = "mark", txn[inv.txn] = "paid",
           invoiced' = invoiced \union {inv.txn}, UNCHANGED Written
    PROVE  \E t \in Txn : Abstract!Invoice(t)
<1>1. inv.txn \in captured \ invoiced /\ inv.txn \in Txn
    BY DEF InvoicesOK, ShownOK
<1> QED BY <1>1 DEF Abstract!Invoice, Abstract!verdicts, Written

\* Every step enters one fact, or none.
LEMMA LedgerStep ==
    ASSUME ITypes, KnownOK, ShownOK, EntryOK, [Next]_vars
    PROVE  [Abstract!Next]_(Abstract!vars)
<1>. ActOK /\ RestOK /\ InvoicesOK
    BY DEF ITypes
<1>. USE DEF Process, Runner, At
<1>1. ASSUME UNCHANGED <<gateway, txn, payment, invoiced>>
      PROVE  [Abstract!Next]_(Abstract!vars)
    BY <1>1 DEF gateway, Abstract!vars, Abstract!verdicts
<1>2. ASSUME NEW r \in Request, CreateTransaction(r) PROVE Abstract!Next
  <2>1. act[r].txn \in Txn /\ Creating(r, act[r].txn)
    BY <1>2 DEF CreateTransaction, ActOK, Good, Creating
  <2>2. txn[act[r].txn] = "none"
    BY <2>1 DEF EntryOK
  <2>3. Abstract!Create(act[r].txn)
    BY <1>2, <2>2 DEF CreateTransaction, gateway, Abstract!Create, Abstract!verdicts
  <2> QED BY <2>1, <2>3 DEF Abstract!Next
<1>3. ASSUME NEW r \in Request, WebhookNote(r) \/ WebhookWrite(r) PROVE Abstract!Next
  <2>1. act[r].pc = "hook_note" => act[r].to = "failed"
    BY DEF ActOK, Good, LabelOK
  <2>2. txn' = [txn EXCEPT ![act[r].txn] = Status(act[r].to)]
    BY <1>3, <2>1 DEF WebhookNote, WebhookWrite, Status
  <2>3. /\ act[r].pc \notin {"idle", "create", "verify_ask"}
        /\ UNCHANGED <<captured, declined, payment, invoiced>>
    BY <1>3 DEF WebhookNote, WebhookWrite, gateway
  <2> QED BY <2>2, <2>3, Recorded DEF Abstract!Next
<1>4. ASSUME NEW r \in Request, NEW v \in Verifier, VerifyWrite(r, v) PROVE Abstract!Next
  <2>1. /\ act[r].pc = "verify_write" /\ UNCHANGED <<captured, declined, payment, invoiced>>
        /\ txn' = [txn EXCEPT ![act[r].txn] = Status(act[r].to)]
    BY <1>4 DEF VerifyWrite, gateway
  <2> QED BY <2>1, Recorded DEF Abstract!Next
<1>5. ASSUME NEW r \in Request, VerifyFails(r) PROVE [Abstract!Next]_(Abstract!vars)
  <2>1. UNCHANGED <<gateway, payment, invoiced>>
    BY <1>5 DEF VerifyFails
  <2>2. \/ UNCHANGED txn
        \/ act[r].pc = "verify_write" /\ txn' = [txn EXCEPT ![act[r].txn] = Status(act[r].to)]
    BY <1>5 DEF VerifyFails
  <2>3. CASE UNCHANGED txn
    BY <1>1, <2>1, <2>3
  <2>4. CASE act[r].pc = "verify_write" /\ txn' = [txn EXCEPT ![act[r].txn] = Status(act[r].to)]
    BY <2>1, <2>4, Recorded DEF gateway, Abstract!Next
  <2> QED BY <2>2, <2>3, <2>4
<1>6. ASSUME NEW x \in Runner, PaidWrite(x) \/ FailedWrite(x) PROVE Abstract!Next
  <2>1. UNCHANGED <<captured, declined, txn, invoiced>>
    BY <1>6 DEF PaidWrite, FailedWrite, gateway
  <2>2. \E st \in {"paid", "failed"} :
           /\ act[x].pc = IF st = "paid" THEN "paid_write" ELSE "failed_write"
           /\ payment' = [payment EXCEPT ![BookingOf[act[x].txn]] = st]
    BY <1>6 DEF PaidWrite, FailedWrite
  <2> QED BY <2>1, <2>2, Told DEF Abstract!Next
<1>7. ASSUME NEW x \in Runner, AttemptFails(x) PROVE [Abstract!Next]_(Abstract!vars)
  <2>1. UNCHANGED <<gateway, txn, invoiced>>
    BY <1>7 DEF AttemptFails
  <2>2. \/ UNCHANGED payment
        \/ /\ act[x].pc = "paid_write"
           /\ payment' = [payment EXCEPT ![BookingOf[act[x].txn]] = "paid"]
    BY <1>7 DEF AttemptFails
  <2>3. CASE UNCHANGED payment
    BY <1>1, <2>1, <2>3
  <2>4. CASE /\ act[x].pc = "paid_write"
             /\ payment' = [payment EXCEPT ![BookingOf[act[x].txn]] = "paid"]
    BY <2>1, <2>4, Told DEF gateway, Abstract!Next
  <2> QED BY <2>2, <2>3, <2>4
<1>8. ASSUME NEW t \in Txn, Capture(t) \/ Decline(t) PROVE Abstract!Next
    BY <1>8 DEF Capture, Decline, docs, Abstract!Capture, Abstract!Decline, Abstract!Next
<1>9. CASE InvoiceMark \/ InvoiceFails
  <2>1. UNCHANGED <<gateway, txn, payment>>
    BY <1>9 DEF InvoiceMark, InvoiceFails
  <2>2. \/ UNCHANGED invoiced
        \/ /\ inv.pc = "mark" /\ txn[inv.txn] = "paid"
           /\ invoiced' = invoiced \union {inv.txn}
    BY <1>9 DEF InvoiceMark, InvoiceFails
  <2>3. CASE UNCHANGED invoiced
    BY <1>1, <2>1, <2>3
  <2>4. CASE /\ inv.pc = "mark" /\ txn[inv.txn] = "paid"
             /\ invoiced' = invoiced \union {inv.txn}
    BY <2>1, <2>4, Noted DEF gateway, Written, Abstract!Next
  <2> QED BY <2>2, <2>3, <2>4
<1>10. CASE \/ \E r \in Request :
                 \/ WebhookEnqueue(r) \/ VerifyAsk(r) \/ CreateFails(r) \/ WebhookFails(r)
                 \/ \E t \in Txn : \/ InitiatePayment(r, t) \/ VerifyPayment(r, t)
                                   \/ \E to \in Outcome : ProcessWebhook(r, t, to)
            \/ \E w \in Worker : Work(w) \/ LockFails(w)
    BY <1>1, <1>10 DEF WebhookEnqueue, VerifyAsk, CreateFails, WebhookFails, InitiatePayment,
       VerifyPayment, ProcessWebhook, Work, Take, Lock, Skip, LockFails, docs
<1>11. CASE \E x \in Runner : PaidLoad(x) \/ PaidPublish(x) \/ ErrorIgnored(x) \/ Panic(x)
    BY <1>1, <1>11 DEF PaidLoad, PaidPublish, ErrorIgnored, Panic, Crash, docs
<1>12. CASE \/ InvoiceTake \/ InvoiceFetch \/ InvoiceGenerate \/ InvoiceRefused \/ InvoiceUnmarked
            \/ InvoiceRetry \/ InvoicePushFails \/ Crash
    BY <1>1, <1>12 DEF InvoiceTake, InvoiceFetch, InvoiceGenerate, InvoiceRefused, InvoiceUnmarked,
       InvoiceRetry, InvoicePushFails, Crash, docs
<1>13. CASE \/ UNCHANGED vars \/ \E b \in Booking : ReserveExpires(b)
            \/ \E t \in Txn : LockExpires(t)
    BY <1>1, <1>13 DEF ReserveExpires, LockExpires, vars, docs
<1> QED
    BY <1>2, <1>3, <1>4, <1>5, <1>6, <1>7, <1>8, <1>9, <1>10, <1>11, <1>12, <1>13
    DEF Next, Proper, Fault, Continue, Consequences, Bill

\* No step but InitiatePayment takes a handler to where it inserts a transaction.
LEMMA NoneCreates ==
    ASSUME ActOK, [Next]_vars, NEW q \in Request, act'[q].pc = "create"
    PROVE  act'[q] = act[q] \/ \E t \in Txn : InitiatePayment(q, t)
<1>1. \A x \in Process : act[x] \in Task
    BY DEF ActOK, Good
<1>2. ASSUME NEW x \in Process, NEW a, a.pc # "create", act' = [act EXCEPT ![x] = a]
      PROVE  act'[q] = act[q]
    BY <1>2 DEF ActOK, Process
<1>3. ASSUME NEW x \in Process, Return(x) PROVE act'[q] = act[q]
    BY <1>2, <1>3 DEF Return, Idle
<1>4. ASSUME NEW x \in Process, NEW label, label # "create", Goto(x, label) PROVE act'[q] = act[q]
  <2>1. [act[x] EXCEPT !.pc = label].pc # "create"
    BY <1>1, <1>4 DEF Task
  <2>2. act' = [act EXCEPT ![x] = [act[x] EXCEPT !.pc = label]]
    BY <1>4 DEF Goto, ActOK
  <2> QED BY <1>2, <2>1, <2>2
<1>5. ASSUME NEW x \in Process, NEW label, NEW t, NEW to, Enter(x, label, t, to),
             label # "create" \/ q # x
      PROVE  act'[q] = act[q]
    BY <1>2, <1>5 DEF Enter, ActOK, Process
<1>. USE DEF Process, Runner, At
<1>6. ASSUME NEW r \in Request, NEW t \in Txn, InitiatePayment(r, t)
      PROVE  act'[q] = act[q] \/ InitiatePayment(q, t)
    BY <1>5, <1>6 DEF InitiatePayment
<1>7. ASSUME NEW r \in Request, NEW t \in Txn,
             VerifyPayment(r, t) \/ \E to \in Outcome : ProcessWebhook(r, t, to)
      PROVE  act'[q] = act[q]
    BY <1>5, <1>7 DEF VerifyPayment, ProcessWebhook
<1>8. ASSUME NEW r \in Request,
             \/ CreateTransaction(r) \/ CreateFails(r) \/ WebhookNote(r) \/ WebhookEnqueue(r)
             \/ WebhookWrite(r) \/ WebhookFails(r) \/ VerifyFails(r)
      PROVE  act'[q] = act[q]
    BY <1>3, <1>4, <1>8 DEF CreateTransaction, CreateFails, WebhookNote, WebhookEnqueue,
       WebhookWrite, WebhookFails, VerifyFails
<1>9. ASSUME NEW r \in Request, VerifyAsk(r) PROVE act'[q] = act[q]
  <2>. DEFINE a == [act[r] EXCEPT !.pc = "verify_write", !.to = Verdict(act[r].txn)]
  <2>1. a.pc # "create"
    BY <1>1 DEF Task
  <2>2. \/ act' = [act EXCEPT ![r] = a]
        \/ Return(r)
    BY <1>9 DEF VerifyAsk, ActOK
  <2> HIDE DEF a
  <2> QED BY <1>2, <1>3, <2>1, <2>2
<1>10. ASSUME NEW r \in Request, NEW v \in Verifier, VerifyWrite(r, v) PROVE act'[q] = act[q]
    BY <1>10 DEF VerifyWrite, ActOK, Idle, Begin
<1>11. ASSUME NEW w \in Worker, Work(w) \/ LockFails(w) PROVE act'[q] = act[q]
    BY <1>3, <1>4, <1>5, <1>11 DEF Work, Take, Lock, Skip, LockFails, Begin
<1>12. ASSUME NEW x \in Runner, Consequences(x) \/ ErrorIgnored(x) PROVE act'[q] = act[q]
    BY <1>3, <1>4, <1>12 DEF Consequences, PaidLoad, PaidWrite, PaidPublish, FailedWrite, ErrorIgnored
<1>13. ASSUME NEW x \in Runner, AttemptFails(x) PROVE act'[q] = act[q]
  <2>. DEFINE a == [act[x] EXCEPT !.pc = Begin(act[x].to), !.tries = @ + 1]
  <2>1. a.pc # "create"
    BY <1>1 DEF Task, Begin
  <2>2. \/ act' = [act EXCEPT ![x] = a]
        \/ Return(x)
    BY <1>13 DEF AttemptFails, ActOK
  <2> HIDE DEF a
  <2> QED BY <1>2, <1>3, <2>1, <2>2
<1>14. ASSUME Crash PROVE act'[q] = act[q]
    BY <1>14 DEF Crash, Idle
<1>15. ASSUME NEW x \in Runner, Panic(x) PROVE act'[q] = act[q]
  <2>1. Return(x) \/ Crash
    BY <1>15 DEF Panic
  <2>2. CASE Return(x)
    BY <1>3, <2>2
  <2>3. CASE Crash
    BY <1>14, <2>3
  <2> QED BY <2>1, <2>2, <2>3
<1>16. CASE \/ UNCHANGED vars \/ \E b \in Booking : ReserveExpires(b)
            \/ \E t \in Txn : Capture(t) \/ Decline(t) \/ LockExpires(t)
            \/ Bill \/ InvoiceFails \/ InvoicePushFails
    BY <1>16 DEF ReserveExpires, LockExpires, Capture, Decline, Bill, InvoiceTake, InvoiceFetch,
       InvoiceGenerate, InvoiceRefused, InvoiceMark, InvoiceUnmarked, InvoiceRetry, InvoiceFails,
       InvoicePushFails, vars
<1> QED
    BY <1>6, <1>7, <1>8, <1>9, <1>10, <1>11, <1>12, <1>13, <1>14, <1>15, <1>16
    DEF Next, Proper, Fault, Continue

\* The steps that write a status: but for the insertion, they write what a handler knows.
LEMMA WhoShows ==
    ASSUME ActOK, [Next]_vars, ~\E r \in Request : CreateTransaction(r)
    PROVE  \/ UNCHANGED txn
           \/ \E x \in Process : /\ act[x].pc \notin {"idle", "create", "verify_ask"}
                                 /\ txn' = [txn EXCEPT ![act[x].txn] = Status(act[x].to)]
<1>. USE DEF Process, Runner, At
<1>1. ASSUME NEW r \in Request, WebhookNote(r) \/ WebhookWrite(r)
      PROVE  /\ act[r].pc \notin {"idle", "create", "verify_ask"}
             /\ txn' = [txn EXCEPT ![act[r].txn] = Status(act[r].to)]
  <2>1. act[r].pc = "hook_note" => act[r].to = "failed"
    BY DEF ActOK, Good, LabelOK
  <2> QED BY <1>1, <2>1 DEF WebhookNote, WebhookWrite, Status
<1>2. ASSUME NEW r \in Request, NEW v \in Verifier, VerifyWrite(r, v)
      PROVE  /\ act[r].pc \notin {"idle", "create", "verify_ask"}
             /\ txn' = [txn EXCEPT ![act[r].txn] = Status(act[r].to)]
    BY <1>2 DEF VerifyWrite
<1>3. ASSUME NEW r \in Request, VerifyFails(r)
      PROVE  \/ UNCHANGED txn
             \/ /\ act[r].pc \notin {"idle", "create", "verify_ask"}
                /\ txn' = [txn EXCEPT ![act[r].txn] = Status(act[r].to)]
    BY <1>3 DEF VerifyFails
<1>4. CASE \E r \in Request :
              \/ WebhookEnqueue(r) \/ VerifyAsk(r) \/ CreateFails(r) \/ WebhookFails(r)
              \/ \E t \in Txn : \/ InitiatePayment(r, t) \/ VerifyPayment(r, t)
                                \/ \E to \in Outcome : ProcessWebhook(r, t, to)
    BY <1>4 DEF WebhookEnqueue, VerifyAsk, CreateFails, WebhookFails, InitiatePayment,
       VerifyPayment, ProcessWebhook, docs
<1>5. CASE \/ \E w \in Worker : Work(w) \/ LockFails(w)
           \/ \E x \in Runner : \/ Consequences(x) \/ AttemptFails(x) \/ ErrorIgnored(x)
                                 \/ Panic(x)
           \/ Crash
    BY <1>5 DEF Work, Take, Lock, Skip, LockFails, Consequences, PaidLoad, PaidWrite, PaidPublish,
       FailedWrite, AttemptFails, ErrorIgnored, Panic, Crash, docs
<1>6. CASE \/ UNCHANGED vars \/ \E b \in Booking : ReserveExpires(b)
           \/ \E t \in Txn : Capture(t) \/ Decline(t) \/ LockExpires(t)
           \/ Bill \/ InvoiceFails \/ InvoicePushFails
    BY <1>6 DEF ReserveExpires, LockExpires, Capture, Decline, Bill, InvoiceTake, InvoiceFetch,
       InvoiceGenerate, InvoiceRefused, InvoiceMark, InvoiceUnmarked, InvoiceRetry, InvoiceFails,
       InvoicePushFails, vars, docs
<1> QED BY <1>1, <1>2, <1>3, <1>4, <1>5, <1>6 DEF Next, Proper, Fault, Continue

LEMMA EntryStep ==
    ASSUME ITypes, KnownOK, ShownOK, EntryOK, [Next]_vars
    PROVE  EntryOK'
<1>. ActOK /\ RestOK
    BY DEF ITypes
<1>1. \A t \in Txn : t \in (captured \union declined)' => \/ t \in captured \union declined
                                                        \/ txn[t] # "none"
  <2>1. [Abstract!Next]_(Abstract!vars)
    BY LedgerStep
  <2> QED BY <2>1 DEF Abstract!Next, Abstract!vars, Abstract!verdicts, Abstract!Create,
             Abstract!Record, Abstract!Capture, Abstract!Decline, Abstract!Tell, Abstract!Invoice
<1>2. ASSUME NEW r \in Request, CreateTransaction(r) PROVE EntryOK'
  <2>1. /\ act[r].pc = "create" /\ act[r].txn \in Txn
        /\ txn' = [txn EXCEPT ![act[r].txn] = "pending"]
        /\ act' = [act EXCEPT ![r] = Idle]
    BY <1>2 DEF CreateTransaction, At, Return, ActOK, Good, Process
  <2>2. \A t \in Txn : txn'[t] = "none" => txn[t] = "none"
    BY <2>1 DEF RestOK
  <2>3. \A q \in Request, t \in Txn :
           Creating(q, t)' => Creating(q, t) /\ t # act[r].txn
    BY <2>1 DEF Creating, EntryOK, ActOK, Process, Idle
  <2>4. \A t \in Txn : t # act[r].txn => txn'[t] = txn[t]
    BY <2>1 DEF RestOK
  <2> QED BY <1>1, <2>2, <2>3, <2>4 DEF EntryOK
<1>3. ASSUME NEW r \in Request, NEW u \in Txn, InitiatePayment(r, u) PROVE EntryOK'
  <2>1. /\ act' = [act EXCEPT ![r] = [pc |-> "create", txn |-> u, to |-> "success", tries |-> 0]]
        /\ act[r].pc = "idle" /\ txn[u] = "none" /\ \A q \in Request : ~Creating(q, u)
        /\ UNCHANGED <<captured, declined, txn>>
    BY <1>3 DEF InitiatePayment, Enter, At, Creating, gateway, docs
  <2>2. \A q \in Request, t \in Txn :
           Creating(q, t)' => (IF q = r THEN t = u ELSE Creating(q, t))
    BY <2>1 DEF Creating, ActOK, Process
  <2> QED BY <2>1, <2>2 DEF EntryOK
<1>4. ASSUME ~\E r \in Request : CreateTransaction(r),
             ~\E r \in Request, t \in Txn : InitiatePayment(r, t)
      PROVE  EntryOK'
  <2>1. \A q \in Request, t \in Txn : Creating(q, t)' => Creating(q, t)
    BY <1>4, NoneCreates DEF Creating
  <2>2. \A t \in Txn : (txn'[t] = "none") = (txn[t] = "none")
    <3>1. CASE UNCHANGED txn
      BY <3>1
    <3>2. ASSUME NEW x \in Process, act[x].pc \notin {"idle", "create", "verify_ask"},
                 txn' = [txn EXCEPT ![act[x].txn] = Status(act[x].to)]
          PROVE  \A t \in Txn : (txn'[t] = "none") = (txn[t] = "none")
      <4>1. Backed(act[x].txn, act[x].to) /\ act[x].txn \in Txn
        BY <3>2 DEF KnownOK, Knows, ActOK, Good, Task
      <4>2. txn[act[x].txn] # "none"
        BY <4>1 DEF EntryOK, Backed
      <4>3. Status(act[x].to) # "none"
        BY DEF Status
      <4> QED BY <3>2, <4>1, <4>2, <4>3 DEF RestOK
    <3> QED BY <1>4, <3>1, <3>2, WhoShows
  <2> QED BY <1>1, <2>1, <2>2 DEF EntryOK
<1> QED BY <1>2, <1>3, <1>4

\* The documents of the payments are a ledger of the gateway's verdicts (module Ledger): every
\* step of the webhooks, the workers, VerifyPayment and the invoices, with their retries, faults
\* and crashes, enters one fact that the gateway has decided, or none.
THEOREM LedgerImplemented == Spec => LedgerRefined
<1>1. Init => Abstract!Init
    BY DEF Init, Abstract!Init
<1>2. Init => KnownOK /\ ShownOK /\ EntryOK
    BY DEF Init, KnownOK, ShownOK, EntryOK, Creating, Knows, Idle, Process
<1>3. ITypes /\ KnownOK /\ ShownOK /\ EntryOK /\ [Next]_vars
      => (KnownOK /\ ShownOK /\ EntryOK)'
    BY KnownStep, ShownStep, EntryStep DEF ITypes
<1>4. ITypes /\ KnownOK /\ ShownOK /\ EntryOK /\ [Next]_vars => [Abstract!Next]_(Abstract!vars)
    BY LedgerStep
<1> QED BY Types, <1>1, <1>2, <1>3, <1>4, PTL DEF Spec, LedgerRefined, Abstract!Spec
=============================================================================
