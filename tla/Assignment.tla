----------------------------- MODULE Assignment -----------------------------
(***************************************************************************)
(* Who serves a booking, and under which locks.                            *)
(*                                                                         *)
(* A booking is one document of the Mongo collection "acceptedservices"    *)
(* together with the Redis keys service:locked:S, service:stop:S,          *)
(* provider:busy:P and provider:online:P.  Who is listed in providers:geo, *)
(* and is therefore asked to bid, is the subject of module Discovery.      *)
(* There is no transaction across the two stores: every HTTP handler,      *)
(* background worker and goroutine reads the document once, talks to Redis *)
(* and then writes the document.  Each action below is one such round trip *)
(* (or one Lua script, pipeline, or series of deletions that depend on     *)
(* nothing read in between); what the code keeps in local variables        *)
(* between two round trips is in req[r].                                   *)
(*                                                                         *)
(* Only AcceptBid and AcceptOffer write the document under a condition.    *)
(* All other writers overwrite the status with UpdateByID.                 *)
(***************************************************************************)
EXTENDS Integers, FiniteSets

CONSTANTS
    Service,        \* booking ids; each is created at most once
    Provider,       \* mechanics
    User,           \* customers
    Request,        \* handlers and goroutines in flight at one time
    NoProvider,     \* primitive.NilObjectID in the provider field, "" in cancelledProviderID
    NoService,      \* no value in provider:busy:P
    UserOf,         \* the customer of each booking
    Ops,            \* the operations the environment calls, and the faults it commits
    JourneyInput    \* statuses that clients send to UpdateStatus

Status == {"absent", "searching", "provider_assigned", "confirmed", "not_started",
           "started", "reached_location", "otp_verified", "in_progress",
           "completed", "cancelled", "searching_after_cancel"}

\* paymentStatus, "" until a bid is accepted
PaymentStatus == {"", "pending", "paid", "failed"}

ASSUME Assumption ==
    /\ NoProvider \notin Provider
    /\ NoService \notin Service
    /\ UserOf \in [Service -> User]
    \* the mobile apps report progress; they never ask for a search state, which
    \* UpdateStatus would accept as "no change" (from = to) and write back later
    /\ JourneyInput \subseteq Status \ {"absent", "searching", "searching_after_cancel",
                                        "provider_assigned"}

VARIABLES
    status,     \* document: status, "absent" before the insert
    provider,   \* document: provider
    former,     \* document: cancelledProviderID
    payment,    \* document: paymentStatus
    stale,      \* bookings whose updatedAt lies before the workers' cutoff
    locked,     \* bookings S with key service:locked:S
    stop,       \* bookings S with key service:stop:S
    busy,       \* value of provider:busy:P
    online,     \* providers with key provider:online:P
    loop,       \* the goroutine findProviders of a booking
    fixed,      \* bookings with a goroutine findProvidersFixedPrice
    req,        \* requests in flight
    initiated,  \* bookings with a transaction handed to the payment gateway
    held,       \* history: providers a booking was awarded to
    lost        \* history: awards cut short by a crash, <<provider, booking>>

doc   == <<status, provider, former, payment, stale>>
flags == <<locked, stop>>
fleet == <<busy, online>>
tasks == <<loop, fixed>>
money == <<initiated>>
past  == <<held, lost>>
vars  == <<doc, flags, fleet, tasks, req, money, past>>

-----------------------------------------------------------------------------
(* Requests *)

\* Where a request is: the name says the operation and the round trip that is next.
Label == {"idle", "search_insert",
          "bid_lock", "bid_stop", "bid_assign", "bid_undo",
          "withdraw_release", "withdraw_reopen", "withdraw_respawn",
          "offer_claim", "offer_freeze", "offer_thaw",
          "cancel_lock", "cancel_write", "cancel_cleanup",
          "abort_lock", "abort_write",
          "timeout_release", "timeout_write",
          "cron_release", "cron_write",
          "offline_drop", "offline_unlock", "offline_clear",
          "journey_settle", "journey_free", "journey_unlock", "journey_write",
          "paid_load", "paid_orphan"}

\* s, p: arguments, or the provider field read from the document; to: the status asked for
Call == [pc: Label, s: Service \union {NoService}, p: Provider \union {NoProvider},
         to: Status]

Idle == [pc |-> "idle", s |-> NoService, p |-> NoProvider, to |-> "absent"]

Starts(r, op) == req[r].pc = "idle" /\ op \in Ops

Enter(r, label, s, p) == req' = [req EXCEPT ![r] = [pc |-> label, s |-> s, p |-> p, to |-> "absent"]]

At(r, label) == req[r].pc = label
Goto(r, label) == req' = [req EXCEPT ![r].pc = label]
Return(r) == req' = [req EXCEPT ![r] = Idle]

Exists(s) == status[s] # "absent"

TypeOK ==
    /\ status    \in [Service -> Status]
    /\ provider  \in [Service -> Provider \union {NoProvider}]
    /\ former    \in [Service -> Provider \union {NoProvider}]
    /\ payment   \in [Service -> PaymentStatus]
    /\ stale     \subseteq Service
    /\ locked    \subseteq Service
    /\ stop      \subseteq Service
    /\ busy      \in [Provider -> Service \union {NoService}]
    /\ online    \subseteq Provider
    /\ loop      \in [Service -> {"off", "running", "expired"}]
    /\ fixed     \subseteq Service
    /\ req       \in [Request -> Call]
    /\ initiated \subseteq Service
    /\ held      \in [Service -> SUBSET Provider]
    /\ lost      \subseteq Provider \X Service

Init ==
    /\ status    = [s \in Service |-> "absent"]
    /\ provider  = [s \in Service |-> NoProvider]
    /\ former    = [s \in Service |-> NoProvider]
    /\ payment   = [s \in Service |-> ""]
    /\ stale     = {}
    /\ locked    = {}
    /\ stop      = {}
    /\ busy      = [p \in Provider |-> NoService]
    /\ online    = {}
    /\ loop      = [s \in Service |-> "off"]
    /\ fixed     = {}
    /\ req       = [r \in Request |-> Idle]
    /\ initiated = {}
    /\ held      = [s \in Service |-> {}]
    /\ lost      = {}

\* mutation: the key is deleted without a test for the nil id, which then gets an entry
FreedNil(p) == [q \in Provider \union {p} |-> IF q = p THEN NoService ELSE busy[q]]

\* mutation: the key is not deleted
FreedNot(p) == busy

\* provider:busy of p is deleted; the code also deletes the key of the nil id, which nobody reads
Freed(p) == [q \in Provider |-> IF q = p THEN NoService ELSE busy[q]]

-----------------------------------------------------------------------------
(* Searching: StartSearch and the goroutine findProviders *)

ActiveStatuses == {"searching", "confirmed", "started", "reached_location",
                   "otp_verified", "in_progress", "not_started"}

\* count the customer's active bookings, refuse when there is one
StartSearch(r, s) ==
    /\ Starts(r, "StartSearch")
    /\ ~Exists(s)
    /\ \A q \in Request : ~(At(q, "search_insert") /\ req[q].s = s)
    /\ \A t \in Service : UserOf[t] = UserOf[s] => status[t] \notin ActiveStatuses
    /\ Enter(r, "search_insert", s, NoProvider)
    /\ UNCHANGED <<doc, flags, fleet, tasks, money, past>>

\* insert the document, start the search goroutine
StartSearchInsert(r) ==
    LET s == req[r].s IN
    /\ At(r, "search_insert")
    /\ status' = [status EXCEPT ![s] = "searching"]
    /\ loop' = [loop EXCEPT ![s] = "running"]
    /\ Return(r)
    /\ UNCHANGED <<provider, former, payment, stale,
                   flags, fleet, fixed, money, past>>

\* top of a round: a stop key, a lock or another status ends the goroutine, and so does
\* any error of a query
FindProvidersExit(s) ==
    /\ loop[s] = "running"
    /\ s \in stop \union locked \/ status[s] # "searching" \/ "StoreError" \in Ops
    /\ loop' = [loop EXCEPT ![s] = "off"]
    /\ UNCHANGED <<doc, flags, fleet, fixed, req, money, past>>

\* globalTimeout is tested before the keys and the status are looked at
FindProvidersExpire(s) ==
    /\ loop[s] = "running"
    /\ loop' = [loop EXCEPT ![s] = "expired"]
    /\ stop' = stop \union {s}
    /\ UNCHANGED <<doc, locked, fleet, fixed, req, money, past>>

FindProvidersCancel(s) ==
    /\ loop[s] = "expired"
    /\ loop' = [loop EXCEPT ![s] = "off"]
    /\ status' = [status EXCEPT ![s] = "cancelled"]
    /\ stale' = stale \ {s}
    /\ UNCHANGED <<provider, former, payment, flags, fleet, fixed, req, money, past>>

-----------------------------------------------------------------------------
(* AcceptBid: the customer accepts the bid of p *)

AcceptBid(r, s, p) ==
    /\ Starts(r, "AcceptBid")
    /\ Exists(s)
    /\ p \in online
    /\ Enter(r, "bid_lock", s, p)
    /\ UNCHANGED <<doc, flags, fleet, tasks, money, past>>

\* Lua: take service:locked and provider:busy together, or neither
AcceptBidLock(r) ==
    LET s == req[r].s  p == req[r].p IN
    /\ At(r, "bid_lock")
    /\ s \notin locked /\ busy[p] = NoService
    /\ locked' = locked \union {s}
    /\ busy' = [busy EXCEPT ![p] = s]
    /\ Goto(r, "bid_stop")
    /\ UNCHANGED <<doc, stop, online, tasks, money, past>>

\* "provider already assigned in some other service"
AcceptBidRefuse(r) ==
    /\ At(r, "bid_lock")
    /\ req[r].s \in locked \/ busy[req[r].p] # NoService
    /\ Return(r)
    /\ UNCHANGED <<doc, flags, fleet, tasks, money, past>>

\* stop the search loops
AcceptBidStop(r) ==
    /\ At(r, "bid_stop")
    /\ stop' = stop \union {req[r].s}
    /\ Goto(r, "bid_assign")
    /\ UNCHANGED <<doc, locked, fleet, tasks, money, past>>

\* mutation: the filter looks at the provider alone
UnassignedByProvider(s) == provider[s] = NoProvider

\* the filter of the conditional update
Unassigned(s) == status[s] = "searching" /\ provider[s] = NoProvider

\* the reply may be lost after the update was applied (err # nil), which the
\* code takes for a failure
AcceptBidAssign(r) ==
    LET s == req[r].s  p == req[r].p IN
    /\ At(r, "bid_assign")
    /\ Unassigned(s)
    /\ status'   = [status   EXCEPT ![s] = "provider_assigned"]
    /\ provider' = [provider EXCEPT ![s] = p]
    /\ payment'  = [payment  EXCEPT ![s] = "pending"]
    /\ stale'    = stale \ {s}
    /\ held'     = [held EXCEPT ![s] = @ \union {p}]
    /\ Return(r) \/ ("StoreError" \in Ops /\ Goto(r, "bid_undo"))
    /\ UNCHANGED <<former, flags, fleet, tasks, money, lost>>

\* nothing modified: the filter did not match, or the update failed
AcceptBidLose(r) ==
    /\ At(r, "bid_assign")
    /\ ~Unassigned(req[r].s) \/ "StoreError" \in Ops
    /\ Goto(r, "bid_undo")
    /\ UNCHANGED <<doc, flags, fleet, tasks, money, past>>

\* the loser deletes both keys (and leaves the stop key)
AcceptBidUndo(r) ==
    /\ At(r, "bid_undo")
    /\ locked' = locked \ {req[r].s}
    /\ busy' = Freed(req[r].p)
    /\ Return(r)
    /\ UNCHANGED <<doc, stop, online, tasks, money, past>>

-----------------------------------------------------------------------------
(* ProviderCancelService: p gives the booking back, it is offered at a fixed price *)

\* mutation: the status is not tested
WithdrawableAlways(s) == Exists(s)

\* "service already cancelled"
Withdrawable(s) == status[s] # "cancelled"

\* called by the mechanic's app (by one who held the booking) or, by afterPaymentSuccess,
\* for the mechanic who went offline before the payment arrived
ProviderCancelService(r, s, p) ==
    /\ \/ Starts(r, "ProviderCancelService") /\ p \in held[s]
       \/ At(r, "paid_orphan") /\ req[r].s = s /\ req[r].p = p
    /\ Withdrawable(s)
    /\ Enter(r, "withdraw_release", s, p)
    /\ UNCHANGED <<doc, flags, fleet, tasks, money, past>>

ProviderCancelRefuse(r) ==
    /\ At(r, "paid_orphan")
    /\ ~Withdrawable(req[r].s)
    /\ Return(r)
    /\ UNCHANGED <<doc, flags, fleet, tasks, money, past>>

ProviderCancelRelease(r) ==
    LET s == req[r].s  p == req[r].p IN
    /\ At(r, "withdraw_release")
    /\ locked' = locked \ {s}
    /\ stop' = stop \ {s}
    /\ busy' = Freed(p)
    /\ Goto(r, "withdraw_reopen")
    /\ UNCHANGED <<doc, online, tasks, money, past>>

ProviderCancelReopen(r) ==
    LET s == req[r].s IN
    /\ At(r, "withdraw_reopen")
    /\ status'   = [status   EXCEPT ![s] = "searching_after_cancel"]
    /\ provider' = [provider EXCEPT ![s] = NoProvider]
    /\ former'   = [former   EXCEPT ![s] = req[r].p]
    /\ stale'    = stale \ {s}
    /\ Goto(r, "withdraw_respawn")
    /\ UNCHANGED <<payment, flags, fleet, tasks, money, past>>

\* service:stop is deleted; the second key of this Del is misspelt "service1:locked"
ProviderCancelRespawn(r) ==
    LET s == req[r].s IN
    /\ At(r, "withdraw_respawn")
    /\ stop' = stop \ {s}
    /\ fixed' = fixed \union {s}
    /\ Return(r)
    /\ UNCHANGED <<doc, locked, fleet, loop, money, past>>

\* the fixed-price goroutine has no timeout: only a key or the status ends it
FixedPriceExit(s) ==
    /\ s \in fixed
    /\ s \in stop \union locked \/ status[s] # "searching_after_cancel" \/ "StoreError" \in Ops
    /\ fixed' = fixed \ {s}
    /\ UNCHANGED <<doc, flags, fleet, loop, req, money, past>>

-----------------------------------------------------------------------------
(* AcceptOffer: a mechanic takes the booking at the fixed price *)

AcceptOffer(r, s, p) ==
    /\ Starts(r, "AcceptOffer")
    /\ Exists(s)
    /\ s \notin stop \union locked
    /\ Enter(r, "offer_claim", s, p)
    /\ UNCHANGED <<doc, flags, fleet, tasks, money, past>>

\* "only 1 wins"; provider:busy is left alone
AcceptOfferWin(r) ==
    LET s == req[r].s  p == req[r].p IN
    /\ At(r, "offer_claim")
    /\ status[s] = "searching_after_cancel"
    /\ status'   = [status   EXCEPT ![s] = "confirmed"]
    /\ provider' = [provider EXCEPT ![s] = p]
    /\ stale'    = stale \ {s}
    /\ held'     = [held EXCEPT ![s] = @ \union {p}]
    /\ Goto(r, "offer_freeze")
    /\ UNCHANGED <<former, payment, flags, fleet, tasks, money, lost>>

AcceptOfferLose(r) ==
    /\ At(r, "offer_claim")
    /\ status[req[r].s] # "searching_after_cancel"
    /\ Return(r)
    /\ UNCHANGED <<doc, flags, fleet, tasks, money, past>>

\* stopAllDiscovery runs on the context that AcceptOffer cancels when it returns: its
\* commands may stop having an effect at any point
StopAllDiscovery(r) ==
    LET s == req[r].s IN
    /\ At(r, "offer_freeze")
    /\ \/ stop' = stop \union {s} /\ locked' = locked \union {s} /\ Goto(r, "offer_thaw")
       \/ stop' = stop \union {s} /\ UNCHANGED locked /\ Return(r)
       \/ UNCHANGED flags /\ Return(r)
    /\ UNCHANGED <<doc, fleet, tasks, money, past>>

\* cleanupServiceKeys deletes both keys again
StopAllDiscoveryCleanup(r) ==
    LET s == req[r].s IN
    /\ At(r, "offer_thaw")
    /\ \/ stop' = stop \ {s} /\ locked' = locked \ {s}
       \/ stop' = stop \ {s} /\ UNCHANGED locked
       \/ UNCHANGED flags
    /\ Return(r)
    /\ UNCHANGED <<doc, fleet, tasks, money, past>>

-----------------------------------------------------------------------------
(* Cancellation by the customer and by the search watchdog *)

\* every other status passes, in_progress, completed and cancelled too
CancelService(r, s) ==
    /\ Starts(r, "CancelService")
    /\ Exists(s)
    /\ status[s] \notin {"started", "reached_location", "otp_verified"}
    /\ Enter(r, "cancel_lock", s, provider[s])
    /\ UNCHANGED <<doc, flags, fleet, tasks, money, past>>

\* one pipeline: lock the booking, free and list the provider read above
CancelServiceLock(r) ==
    LET s == req[r].s  p == req[r].p IN
    /\ At(r, "cancel_lock")
    /\ locked' = locked \union {s}
    /\ busy' = Freed(p)
    /\ Goto(r, "cancel_write")
    /\ UNCHANGED <<doc, stop, online, tasks, money, past>>

\* provider and paymentStatus stay in the document
CancelServiceWrite(r) ==
    LET s == req[r].s IN
    /\ At(r, "cancel_write")
    /\ status' = [status EXCEPT ![s] = "cancelled"]
    /\ stale' = stale \ {s}
    /\ Goto(r, "cancel_cleanup")
    /\ UNCHANGED <<provider, former, payment, flags, fleet, tasks, money, past>>

\* cleanupServiceKeys; the refund that precedes it is in module RefundQueue
CancelServiceCleanup(r) ==
    LET s == req[r].s IN
    /\ At(r, "cancel_cleanup")
    /\ stop' = stop \ {s}
    /\ locked' = locked \ {s}
    /\ Return(r)
    /\ UNCHANGED <<doc, fleet, tasks, money, past>>

\* CancelSearchingServiceBeforeBid, called by the customer: any status passes
CancelSearchingService(r, s) ==
    /\ Starts(r, "CancelSearchingService")
    /\ Exists(s)
    /\ Enter(r, "abort_lock", s, NoProvider)
    /\ UNCHANGED <<doc, flags, fleet, tasks, money, past>>

\* mutation: the watchdog lists only bookings whose search was told to stop
SearchWatchdogStopped(r, s) ==
    /\ Starts(r, "SearchWatchdog")
    /\ status[s] = "searching" /\ s \in stop
    /\ Enter(r, "abort_lock", s, NoProvider)
    /\ UNCHANGED <<doc, flags, fleet, tasks, money, past>>

\* the watchdog lists bookings in status searching and then cancels them one by one
SearchWatchdog(r, s) ==
    /\ Starts(r, "SearchWatchdog")
    /\ status[s] = "searching"
    /\ Enter(r, "abort_lock", s, NoProvider)
    /\ UNCHANGED <<doc, flags, fleet, tasks, money, past>>

CancelSearchingLock(r) ==
    LET s == req[r].s IN
    /\ At(r, "abort_lock")
    /\ locked' = locked \union {s}
    /\ stop' = stop \union {s}
    /\ Goto(r, "abort_write")
    /\ UNCHANGED <<doc, fleet, tasks, money, past>>

\* no condition on the status, no release of the provider
CancelSearchingWrite(r) ==
    LET s == req[r].s IN
    /\ At(r, "abort_write")
    /\ status' = [status EXCEPT ![s] = "cancelled"]
    /\ stale' = stale \ {s}
    /\ Return(r)
    /\ UNCHANGED <<provider, former, payment, flags, fleet, tasks, money, past>>

-----------------------------------------------------------------------------
(* The two workers that end an assignment nobody paid for *)

\* updatedAt falls behind the cutoff of FindStuckAssigned
Minutes(s) ==
    /\ status[s] = "provider_assigned" /\ s \notin stale
    /\ stale' = stale \union {s}
    /\ UNCHANGED <<status, provider, former, payment,
                   flags, fleet, tasks, req, money, past>>

\* mutation: bookings whose mechanic left are not listed
StuckWithProvider(s) ==
    status[s] = "provider_assigned" /\ s \in stale /\ provider[s] # NoProvider

Stuck(s) == status[s] = "provider_assigned" /\ s \in stale

\* a lock key that outlives the call keeps a second one off the same booking
Sole(s, labels) == \A q \in Request : ~(req[q].pc \in labels /\ req[q].s = s)

\* ProviderTimeoutWorker.scan, then HandleProviderTimeout on the document it read
HandleProviderTimeout(r, s) ==
    /\ Starts(r, "HandleProviderTimeout")
    /\ Stuck(s)
    /\ payment[s] # "paid"
    /\ Sole(s, {"timeout_release", "timeout_write"})
    /\ Enter(r, "timeout_release", s, provider[s])
    /\ UNCHANGED <<doc, flags, fleet, tasks, money, past>>

HandleProviderTimeoutRelease(r) ==
    LET s == req[r].s  p == req[r].p IN
    /\ At(r, "timeout_release")
    /\ locked' = locked \ {s}
    /\ stop' = stop \ {s}
    /\ busy' = Freed(p)
    /\ Goto(r, "timeout_write")
    /\ UNCHANGED <<doc, online, tasks, money, past>>

HandleProviderTimeoutWrite(r) ==
    LET s == req[r].s IN
    /\ At(r, "timeout_write")
    /\ status' = [status EXCEPT ![s] = "cancelled"]
    /\ provider' = [provider EXCEPT ![s] = NoProvider]
    /\ stale' = stale \ {s}
    /\ Return(r)
    /\ UNCHANGED <<former, payment, flags, fleet, tasks, money, past>>

\* ProviderAssignmentTimeoutCron, in the process cmd/cron
AssignmentCron(r, s) ==
    /\ Starts(r, "AssignmentCron")
    /\ Stuck(s)
    /\ Sole(s, {"cron_release", "cron_write"})
    /\ Enter(r, "cron_release", s, provider[s])
    /\ UNCHANGED <<doc, flags, fleet, tasks, money, past>>

AssignmentCronRelease(r) ==
    LET s == req[r].s  p == req[r].p IN
    /\ At(r, "cron_release")
    /\ stop' = stop \union {s}
    /\ locked' = locked \union {s}
    /\ busy' = Freed(p)
    /\ Goto(r, "cron_write")
    /\ UNCHANGED <<doc, online, tasks, money, past>>

AssignmentCronWrite(r) ==
    LET s == req[r].s IN
    /\ At(r, "cron_write")
    /\ status' = [status EXCEPT ![s] = "cancelled"]
    /\ stale' = stale \ {s}
    /\ Return(r)
    /\ UNCHANGED <<provider, former, payment, flags, fleet, tasks, money, past>>

-----------------------------------------------------------------------------
(* A mechanic goes online and offline *)

GoOnline(p) ==
    /\ online' = online \union {p}
    /\ UNCHANGED <<doc, flags, busy, tasks, req, money, past>>

\* FindActiveServiceByProvider
ActiveServices(p) ==
    {s \in Service : provider[s] = p /\ status[s] \in {"confirmed", "provider_assigned"}}

\* the apps offer it to mechanics who are online; a failed query counts as no active service
GoOffline(r, p) ==
    /\ Starts(r, "GoOffline")
    /\ p \in online
    /\ \/ \E s \in ActiveServices(p) :
             Enter(r, IF status[s] = "provider_assigned" THEN "offline_drop" ELSE "offline_unlock",
                   s, p)
       \/ /\ ActiveServices(p) = {} \/ "StoreError" \in Ops
          /\ Enter(r, "offline_clear", NoService, p)
    /\ UNCHANGED <<doc, flags, fleet, tasks, money, past>>

\* the booking stays provider_assigned, without a provider
GoOfflineDrop(r) ==
    LET s == req[r].s IN
    /\ At(r, "offline_drop")
    /\ provider' = [provider EXCEPT ![s] = NoProvider]
    /\ former' = [former EXCEPT ![s] = req[r].p]
    /\ stale' = stale \ {s}
    /\ Goto(r, "offline_unlock")
    /\ UNCHANGED <<status, payment, flags, fleet, tasks, money, past>>

\* the keys of the active booking
GoOfflineUnlock(r) ==
    LET s == req[r].s IN
    /\ At(r, "offline_unlock")
    /\ locked' = locked \ {s}
    /\ stop' = stop \ {s}
    /\ Goto(r, "offline_clear")
    /\ UNCHANGED <<doc, fleet, tasks, money, past>>

\* the keys of the mechanic, whatever provider:busy holds by now
GoOfflineClear(r) ==
    LET p == req[r].p IN
    /\ At(r, "offline_clear")
    /\ online' = online \ {p}
    /\ busy' = Freed(p)
    /\ Return(r)
    /\ UNCHANGED <<doc, flags, tasks, money, past>>

-----------------------------------------------------------------------------
(* The journey: UpdateStatus *)

\* domain.CanTransition
Allowed(from) ==
    CASE from = "searching"         -> {"provider_assigned", "confirmed", "started"}
      [] from = "provider_assigned" -> {"confirmed", "not_started", "started"}
      [] from = "confirmed"         -> {"started", "cancelled"}
      [] from = "not_started"       -> {"started", "cancelled"}
      [] from = "started"           -> {"reached_location"}
      [] from = "reached_location"  -> {"otp_verified"}
      [] from = "otp_verified"      -> {"in_progress"}
      [] from = "in_progress"       -> {"completed"}
      [] OTHER                      -> {}

CanTransition(from, to) == from = to \/ to \in Allowed(from)

UpdateStatus(r, s, to) ==
    /\ Starts(r, "UpdateStatus")
    /\ Exists(s)
    /\ status[s] # "cancelled"
    /\ CanTransition(status[s], to)
    /\ req' = [req EXCEPT ![r] =
                 [pc |-> IF to = "completed" THEN "journey_settle" ELSE "journey_write",
                  s |-> s, p |-> provider[s], to |-> to]]
    /\ UNCHANGED <<doc, flags, fleet, tasks, money, past>>

\* completed: is the mechanic still busy with this booking?
UpdateStatusSettle(r) ==
    LET s == req[r].s  p == req[r].p IN
    /\ At(r, "journey_settle")
    /\ Goto(r, IF p \in Provider /\ busy[p] = s THEN "journey_free" ELSE "journey_unlock")
    /\ UNCHANGED <<doc, flags, fleet, tasks, money, past>>

\* provider:busy is deleted by a call of its own, whatever it holds by now
UpdateStatusFree(r) ==
    /\ At(r, "journey_free")
    /\ busy' = Freed(req[r].p)
    /\ Goto(r, "journey_unlock")
    /\ UNCHANGED <<doc, flags, online, tasks, money, past>>

\* an error in the customer's account ends the call here, with the status unchanged
UpdateStatusUnlock(r) ==
    LET s == req[r].s IN
    /\ At(r, "journey_unlock")
    /\ locked' = locked \ {s}
    /\ stop' = stop \ {s}
    /\ Goto(r, "journey_write") \/ Return(r)
    /\ UNCHANGED <<doc, fleet, tasks, money, past>>

\* the status tested above is not part of the filter
UpdateStatusWrite(r) ==
    LET s == req[r].s IN
    /\ At(r, "journey_write")
    /\ status' = [status EXCEPT ![s] = req[r].to]
    /\ stale' = stale \ {s}
    /\ Return(r)
    /\ UNCHANGED <<provider, former, payment, flags, fleet, tasks, money, past>>

UpdateLiveLocation(s) ==
    /\ "UpdateLiveLocation" \in Ops
    /\ Exists(s)
    /\ stale' = stale \ {s}
    /\ UNCHANGED <<status, provider, former, payment,
                   flags, fleet, tasks, req, money, past>>

-----------------------------------------------------------------------------
(* What payments do to the booking (the transactions are in module Payment) *)

InitiatePayment(s) ==
    /\ "Payment" \in Ops
    /\ provider[s] \in online
    /\ s \notin initiated
    /\ initiated' = initiated \union {s}
    /\ UNCHANGED <<doc, flags, fleet, tasks, req, past>>

\* afterPaymentSuccess: paid and confirmed, whatever the status was
PaymentSuccess(r, s) ==
    /\ Starts(r, "Payment")
    /\ s \in initiated
    /\ payment' = [payment EXCEPT ![s] = "paid"]
    /\ status' = [status EXCEPT ![s] = "confirmed"]
    /\ stale' = stale \ {s}
    /\ Enter(r, "paid_load", s, NoProvider)
    /\ UNCHANGED <<provider, former, flags, fleet, tasks, money, past>>

\* providerMissing
Orphaned(s) == provider[s] = NoProvider /\ former[s] # NoProvider

\* the mechanic left before the payment: give the booking back in the mechanic's name
PaymentSuccessLoad(r) ==
    LET s == req[r].s IN
    /\ At(r, "paid_load")
    /\ \/ Orphaned(s) /\ Enter(r, "paid_orphan", s, former[s])
       \/ ~Orphaned(s) /\ Return(r)
    /\ UNCHANGED <<doc, flags, fleet, tasks, money, past>>

\* mutation: the failure is reported to the mechanic's screen, not to the payment status
PaymentFailureStatusOnly(s) ==
    /\ "Payment" \in Ops
    /\ s \in initiated
    /\ status' = [status EXCEPT ![s] = "provider_assigned"]
    /\ stale' = stale \ {s}
    /\ UNCHANGED <<provider, former, payment,
                   flags, fleet, tasks, req, money, past>>

\* afterPaymentFailed; the goroutine releaseProviderAfterGrace it starts never acts, as
\* no code sets the payment status it waits for
PaymentFailure(s) ==
    /\ "Payment" \in Ops
    /\ s \in initiated
    /\ payment' = [payment EXCEPT ![s] = "failed"]
    /\ status' = [status EXCEPT ![s] = "provider_assigned"]
    /\ stale' = stale \ {s}
    /\ UNCHANGED <<provider, former, flags, fleet, tasks, req, money, past>>

-----------------------------------------------------------------------------
(* Failing updates, key expiry and crashes *)

\* an update of the document fails: its error is returned or logged, and what the handler
\* has done to the keys before stays done
StoreFails(r) ==
    /\ "StoreError" \in Ops
    /\ \/ /\ req[r].pc \in {"search_insert", "withdraw_reopen", "offer_claim", "cancel_write",
                              "abort_write", "timeout_write", "cron_write", "journey_write",
                              "paid_load"}
          /\ Return(r)
       \/ At(r, "offline_drop") /\ Goto(r, "offline_unlock")
    /\ UNCHANGED <<doc, flags, fleet, tasks, money, past>>

\* a key never expires under the accept that has just set it (30 minutes, 2 hours)
Holding(r) == req[r].pc \in {"bid_stop", "bid_assign", "bid_undo"}

LockExpires(s) ==
    /\ "Expiry" \in Ops
    /\ s \in locked /\ ~\E r \in Request : Holding(r) /\ req[r].s = s
    /\ locked' = locked \ {s}
    /\ UNCHANGED <<doc, stop, fleet, tasks, req, money, past>>

StopExpires(s) ==
    /\ "Expiry" \in Ops
    /\ s \in stop
    /\ stop' = stop \ {s}
    /\ UNCHANGED <<doc, locked, fleet, tasks, req, money, past>>

BusyExpires(p) ==
    /\ "Expiry" \in Ops
    /\ busy[p] # NoService /\ ~\E r \in Request : Holding(r) /\ req[r].p = p
    /\ busy' = [busy EXCEPT ![p] = NoService]
    /\ UNCHANGED <<doc, flags, online, tasks, req, money, past>>

\* the server dies: its goroutines and requests are gone; Mongo, Redis and the process
\* of the cron stay
Crash ==
    /\ "Crash" \in Ops
    /\ req' = [r \in Request |->
                 IF req[r].pc \in {"cron_release", "cron_write"} THEN req[r] ELSE Idle]
    /\ loop' = [s \in Service |-> "off"]
    /\ fixed' = {}
    /\ lost' = lost \union {<<req[r].p, req[r].s>> : r \in {q \in Request : Holding(q)}}
    /\ UNCHANGED <<doc, flags, fleet, money, held>>

-----------------------------------------------------------------------------
(* Specification *)

\* the next round trip of a request in flight
Continue(r) ==
    \/ StartSearchInsert(r)
    \/ AcceptBidLock(r) \/ AcceptBidRefuse(r) \/ AcceptBidStop(r)
    \/ AcceptBidAssign(r) \/ AcceptBidLose(r) \/ AcceptBidUndo(r)
    \/ ProviderCancelRefuse(r) \/ ProviderCancelRelease(r)
    \/ ProviderCancelReopen(r) \/ ProviderCancelRespawn(r)
    \/ AcceptOfferWin(r) \/ AcceptOfferLose(r)
    \/ StopAllDiscovery(r) \/ StopAllDiscoveryCleanup(r)
    \/ CancelServiceLock(r) \/ CancelServiceWrite(r) \/ CancelServiceCleanup(r)
    \/ CancelSearchingLock(r) \/ CancelSearchingWrite(r)
    \/ HandleProviderTimeoutRelease(r) \/ HandleProviderTimeoutWrite(r)
    \/ AssignmentCronRelease(r) \/ AssignmentCronWrite(r)
    \/ GoOfflineDrop(r) \/ GoOfflineUnlock(r) \/ GoOfflineClear(r)
    \/ UpdateStatusSettle(r) \/ UpdateStatusFree(r) \/ UpdateStatusUnlock(r)
    \/ UpdateStatusWrite(r)
    \/ PaymentSuccessLoad(r)

\* a call that uses a request slot
Begin(r) ==
    \/ \E s \in Service :
          \/ StartSearch(r, s) \/ CancelService(r, s) \/ CancelSearchingService(r, s)
          \/ SearchWatchdog(r, s) \/ HandleProviderTimeout(r, s) \/ AssignmentCron(r, s)
          \/ PaymentSuccess(r, s)
          \/ \E p \in Provider :
                AcceptBid(r, s, p) \/ ProviderCancelService(r, s, p) \/ AcceptOffer(r, s, p)
          \/ \E to \in JourneyInput : UpdateStatus(r, s, to)
    \/ \E p \in Provider : GoOffline(r, p)

SearchRound(s) == FindProvidersExit(s) \/ FindProvidersExpire(s) \/ FindProvidersCancel(s)

Next ==
    \/ \E r \in Request : Begin(r) \/ Continue(r) \/ StoreFails(r)
    \/ \E s \in Service :
          \/ SearchRound(s) \/ FixedPriceExit(s)
          \/ Minutes(s) \/ UpdateLiveLocation(s) \/ InitiatePayment(s) \/ PaymentFailure(s)
          \/ LockExpires(s) \/ StopExpires(s)
    \/ \E p \in Provider : GoOnline(p) \/ BusyExpires(p)
    \/ Crash

Spec == Init /\ [][Next]_vars

\* A request in flight and a search goroutine go on as long as the process lives, time
\* passes, and the two workers of the server run every minute; that they compete with the
\* customers for a request slot is an artefact of Request, hence their strong fairness.
\* The faults cease at some point.  Customers, mechanics, the gateway, the cron
\* (a process that runs once) and the expiry of keys get no fairness.
Fairness ==
    /\ \A r \in Request : WF_vars(Continue(r))
    /\ \A s \in Service :
          /\ WF_vars(SearchRound(s)) /\ WF_vars(Minutes(s))
          /\ SF_vars(\E r \in Request : SearchWatchdog(r, s))
          /\ SF_vars(\E r \in Request : HandleProviderTimeout(r, s))
    /\ <>[][~Crash /\ \A r \in Request : ~StoreFails(r)]_vars

FairSpec == Spec /\ Fairness

-----------------------------------------------------------------------------
(* Properties *)

\* the mechanic is bound to the booking
Engaged(s) == status[s] \in {"provider_assigned", "confirmed", "not_started", "started",
                             "reached_location", "otp_verified", "in_progress"}

\* The abstract life of an award (module Award): bookings are awarded one mechanic at a
\* time, and only while they are searched for or offered.
Phase(st) == CASE st = "absent"                 -> "none"
               [] st = "searching"              -> "open"
               [] st = "searching_after_cancel" -> "offered"
               [] OTHER                         -> "taken"

Abstract == INSTANCE Award WITH Booking <- Service, Mechanic <- Provider, Nobody <- NoProvider,
                                phase <- [s \in Service |-> Phase(status[s])], holder <- provider

\* Every run of the handlers, workers and goroutines is a run of the abstract award: the
\* two conditional updates of AcceptBid and AcceptOffer suffice, although all the other
\* writers overwrite the document without looking at it.
AwardRefined == Abstract!Spec

\* A mechanic blocked by provider:busy was awarded that booking at some time, or the accept
\* that blocked it is still in flight or died with its process: a refused or failed
\* AcceptBid never leaves a mechanic out of the search.
BusyTraceable ==
    \A p \in Provider, s \in Service :
        busy[p] = s => \/ p \in held[s]
                       \/ \E r \in Request : Holding(r) /\ req[r].p = p /\ req[r].s = s
                       \/ <<p, s>> \in lost

\* A booking that waits for its payment is not paid: both timeout workers choose their
\* victims by this status, and the cron does not look at paymentStatus.
WaitingIsUnpaid == \A s \in Service : status[s] = "provider_assigned" => payment[s] # "paid"

\* Every search ends, with a mechanic or without: the goroutine times out, and after a
\* crash, which leaves a booking that no goroutine serves, the watchdog cancels it.
SearchEnds == \A s \in Service : status[s] = "searching" ~> status[s] # "searching"

\* An award nobody pays for ends, also when the mechanic has gone offline meanwhile or the
\* server has crashed: the timeout worker finds it by its status and its age alone.
UnpaidAwardEnds ==
    \A s \in Service : status[s] = "provider_assigned" ~> status[s] # "provider_assigned"

\* "provider already assigned in some other service": no mechanic serves two bookings.
\* GoOffline deletes provider:busy of a mechanic whose booking is paid for, and leaves the
\* booking as it is; back online, the mechanic passes the test of AcceptBid again.
OneEngagement ==
    \A s, t \in Service : s # t /\ provider[s] # NoProvider /\ provider[s] = provider[t]
        => ~(Engaged(s) /\ Engaged(t))

\* "timeout ignored payment done": the timeout worker never cancels a paid booking.  It
\* tests the payment status of the document it has read, then writes without a condition.
PaidNotTimedOut ==
    [][\A r \in Request : HandleProviderTimeoutWrite(r) => payment[req[r].s] # "paid"]_vars

\* "provider missing after payment, auto cancelling service": a paid booking whose mechanic
\* went offline is being given back.  GoOffline may write after afterPaymentSuccess has read.
PaidOrphanHandled ==
    \A s \in Service :
        status[s] = "confirmed" /\ Orphaned(s)
            => \E r \in Request : req[r].s = s /\ req[r].pc # "idle"

\* "End states": a booking that is completed or cancelled stays so.  CanTransition says it,
\* but afterPaymentSuccess does not ask CanTransition: a payment that arrives after the
\* cancellation confirms the booking again, while its mechanic has been set free.
EndStates ==
    [][\A s \in Service :
          status[s] \in {"completed", "cancelled"} => status'[s] = status[s]]_vars
=============================================================================
