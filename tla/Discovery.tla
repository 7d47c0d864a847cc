----------------------------- MODULE Discovery -----------------------------
(***************************************************************************)
(* How a booking is offered to mechanics and how they bid for it: the      *)
(* search goroutines and their Lua scripts, the list of mechanics          *)
(* providers:geo, the keys of Redis that pace the requests, bids, their    *)
(* rejection, and the two ways these keys are cleaned up.                  *)
(*                                                                         *)
(* The module follows one booking from the moment StartSearch has started  *)
(* its search. Bookings meet in the mechanics alone: a mechanic engaged by *)
(* another booking is busy[p] = "other". What payments and the journey do  *)
(* to the booking is module Assignment; here it ends with its award.       *)
(*                                                                         *)
(* service:activeProvider is set by the scripts with service:cooldown, for *)
(* the same time, and deleted with it: one set, cool, stands for both.     *)
(* service:dist holds a distance nobody decides by.                        *)
(***************************************************************************)
EXTENDS Integers, FiniteSets

CONSTANTS
    Provider,    \* mechanics, all within the radius of the search
    NoProvider,
    Search,      \* search goroutines
    First,       \* the one StartSearch has started
    Earlier,     \* who has bid, or given the booking back, when a behaviour starts
    Request,     \* calls of clients and workers; each is made once
    MaxSend,     \* maxSendPerProv
    Ops          \* the handlers, workers and faults of a run

ASSUME DiscoveryAssumption ==
    /\ NoProvider \notin Provider
    /\ First \in Search /\ Earlier \in Provider
    /\ MaxSend \in Nat \ {0}

VARIABLES
    \* the document
    status, provider, former, located,
    bids,       \* collection bids: who has bid
    \* Redis, keys of the booking
    stop, locked, window,
    \* Redis, keys of the booking and a mechanic
    cool, sent, bidLock,
    \* Redis, keys of a mechanic
    busy, online, geo,
    away,       \* mechanics engaged by another booking
    \* goroutines, calls, and the channel of the clean-up workers
    search, req, cleanup,
    \* histories
    asked,      \* mechanics whose app has shown the request
    late,       \* scripts a search has run since it last found the status it
                \* wants; counted up to 2
    unlisted,   \* mechanics dropped from providers:geo in one of the ways named below
    swept       \* cleaned up by a worker, and service:stop has been there since

doc   == <<status, provider, former, located, bids>>
flags == <<stop, locked, window>>
marks == <<cool, sent, bidLock>>
fleet == <<busy, online, geo, away>>
past  == <<asked, late, unlisted, swept>>
vars  == <<doc, flags, marks, fleet, search, req, cleanup, past>>

Statuses == {"searching", "provider_assigned", "searching_after_cancel",
             "confirmed", "completed", "cancelled"}

\* excl: the mechanic the fixed-price search leaves out; list: whom this round writes to
Task == [kind: {"off", "open", "fixed"}, at: {"top", "script", "send", "cancel"},
         excl: Provider \union {NoProvider}, list: SUBSET Provider]
Off == [kind |-> "off", at |-> "top", excl |-> NoProvider, list |-> {}]

\* the round trip a call makes next
Label == {"new", "bid_lock", "bid_insert", "reject_thaw", "accept_lock", "accept_assign",
          "accept_undo", "accept_unlist", "withdraw_release", "withdraw_reopen",
          "withdraw_respawn", "cancel_lock", "cancel_write", "cancel_sweep", "abort_write",
          "offer_claim", "offer_freeze", "offer_thaw", "timeout_release", "timeout_write",
          "offline_clear", "done"}

\* p: argument, or the provider field read from the document; known: whether the
\* document read had a providerLocation; first: whether it had no cancelledProviderID
Call == [at: Label, p: Provider \union {NoProvider}, known: BOOLEAN, first: BOOLEAN]
NewCall == [at |-> "new", p |-> NoProvider, known |-> FALSE, first |-> FALSE]

TypeOK ==
    /\ status \in Statuses
    /\ {provider, former} \subseteq Provider \union {NoProvider}
    /\ {located, stop, locked, window, swept} \subseteq BOOLEAN
    /\ cool \subseteq Provider /\ bidLock \subseteq Provider
    /\ sent \in [Provider -> 0..MaxSend + 1]
    /\ busy \in [Provider -> {"free", "here", "other"}]
    /\ online \subseteq Provider /\ away \subseteq Provider
    /\ geo \subseteq Provider \union {NoProvider}
    /\ bids \subseteq Provider
    /\ search \in [Search -> Task]
    /\ \A g \in Search : search[g].list # {} => search[g].at = "send"
    /\ req \in [Request -> Call]
    /\ cleanup \in {"none", "queued", "locked"}
    /\ asked \subseteq Provider /\ unlisted \subseteq Provider
    /\ late \in [Search -> 0..2]

\* A behaviour starts with a search just started; with a mechanic's bid that waits for
\* its answer, his window and lock expired; or with a booking that a mechanic has given
\* back and that is searched for at the fixed price.
Start(kind, was) ==
    /\ status = IF kind = "open" THEN "searching" ELSE "searching_after_cancel"
    /\ former = (IF kind = "open" THEN NoProvider ELSE was) /\ located = (kind = "fixed")
    /\ bids = {was} \ {NoProvider} /\ asked = bids
    /\ sent = [p \in Provider |-> IF p = was THEN 1 ELSE 0]
    /\ search = [g \in Search |->
                   IF g = First THEN [Off EXCEPT !.kind = kind, !.excl = former] ELSE Off]

Init ==
    /\ Start("open", NoProvider) \/ Start("open", Earlier) \/ Start("fixed", Earlier)
    /\ provider = NoProvider
    /\ stop = FALSE /\ locked = FALSE /\ window = FALSE
    /\ cool = {} /\ bidLock = {}
    /\ busy = [p \in Provider |-> "free"] /\ away = {}
    /\ online \in SUBSET Provider /\ geo = online
    /\ req = [r \in Request |-> NewCall]
    /\ cleanup = "none"
    /\ unlisted = {} /\ swept = FALSE
    /\ late = [g \in Search |-> 0]

\* what FindActiveServiceByProvider finds
Holds(p) == provider = p /\ status \in {"provider_assigned", "confirmed"}

At(r, label)   == req[r].at = label
Goto(r, label) == req' = [req EXCEPT ![r].at = label]
Enter(r, label, p) == req' = [req EXCEPT ![r] =
    [at |-> label, p |-> p, known |-> located, first |-> former = NoProvider]]
Return(r)      == req' = [req EXCEPT ![r] = [NewCall EXCEPT !.at = "done"]]
Starts(r, op)  == At(r, "new") /\ op \in Ops

\* a mechanic back in the list is reachable again
Listed(p) ==
    /\ geo' = geo \union {p}
    /\ unlisted' = unlisted \ {p}
NotListed(p) ==
    /\ unlisted' = unlisted \union ({p} \ (geo \union {NoProvider}))
    /\ UNCHANGED geo

\* a write that has not read the document abandons the mechanic of an award in between:
\* nobody releases and lists him
Abandons(p) == unlisted' = unlisted \union ({provider} \ {p, NoProvider})

-----------------------------------------------------------------------------
(* The search: findProviders and findProvidersFixedPrice *)

Wanted(g) == IF search[g].kind = "open" THEN "searching" ELSE "searching_after_cancel"

Doing(g, label) == search[g].kind # "off" /\ search[g].at = label

\* mutation: a round keeps the mechanics found by the one before
StepKeeps(g, label) == search' = [search EXCEPT ![g].at = label]

Step(g, label) == search' = [search EXCEPT ![g].at = label, ![g].list = {}]
Exit(g) == search' = [search EXCEPT ![g] = Off]

\* mutation: the loop goes by the keys alone
GoneByKeys(g) == stop \/ locked

\* what ends a search at the top of a round
Gone(g) == stop \/ locked \/ status # Wanted(g)

SearchExit(g) ==
    /\ Doing(g, "top")
    /\ Gone(g)
    /\ Exit(g)
    /\ UNCHANGED <<doc, flags, marks, fleet, req, cleanup, past>>

SearchRound(g) ==
    /\ Doing(g, "top")
    /\ ~Gone(g)
    /\ Step(g, "script")
    /\ late' = [late EXCEPT ![g] = IF status = Wanted(g) THEN 0 ELSE @]
    /\ UNCHANGED <<doc, flags, marks, fleet, req, cleanup, asked, unlisted, swept>>

\* after ten minutes the open search gives up; the fixed-price one has no timeout
SearchTimeout(g) ==
    /\ "Timeout" \in Ops
    /\ Doing(g, "top") /\ search[g].kind = "open"
    /\ stop' = TRUE
    /\ Step(g, "cancel")
    /\ UNCHANGED <<doc, locked, window, marks, fleet, req, cleanup, past>>

SearchCancel(g) ==
    /\ Doing(g, "cancel")
    /\ status' = "cancelled"
    /\ Abandons(NoProvider)
    /\ Exit(g)
    /\ UNCHANGED <<provider, former, located, bids, flags, marks, fleet, req, cleanup,
                   asked, late, swept>>

\* while a bid waits for its answer, the open search only waits
SearchWait(g) ==
    /\ Doing(g, "script") /\ search[g].kind = "open"
    /\ window
    /\ Step(g, "top")
    /\ UNCHANGED <<doc, flags, marks, fleet, req, cleanup, past>>

\* mutation: the script leaves the check of service:stop to its caller
HeldLockedOnly == locked

\* the "hard stop check" of both scripts
Held == stop \/ locked

\* whom the scripts look at: listed, not busy, not cooling down, not left out. The id of
\* nobody may be listed too: what is sent to it reaches no mechanic.
Tried(g) == {p \in geo \ {NoProvider} : busy[p] = "free" /\ p \notin cool /\ p # search[g].excl}

\* a mechanic at the limit starts a cooldown but gets nothing
Sendable(g) == {p \in Tried(g) : sent[p] < MaxSend}

\* GEORADIUS and the loop of the script, in one step of Redis. The three radii of the
\* fixed-price search are one: every mechanic is in each of them.
SearchScript(g) ==
    /\ Doing(g, "script")
    /\ search[g].kind = "open" => ~window
    /\ IF Held
         THEN /\ Step(g, "top")
              /\ UNCHANGED <<cool, sent, late>>
         ELSE /\ cool' = cool \union Tried(g)
              /\ sent' = [p \in Provider |-> IF p \in Tried(g) /\ sent[p] <= MaxSend
                                               THEN sent[p] + 1 ELSE sent[p]]
              /\ search' = [search EXCEPT ![g].list = Sendable(g),
                              ![g].at = IF Sendable(g) = {} THEN "top" ELSE "send"]
              /\ late' = [late EXCEPT ![g] = IF status = Wanted(g) 
                                              THEN @ ELSE IF @ = 0 THEN 1 ELSE 2]
    /\ UNCHANGED <<doc, flags, bidLock, fleet, req, cleanup, asked, unlisted, swept>>

\* service:stop is tested once more before a batch; lists here fit into the first one,
\* of 15. The open search ends; each sender of the fixed price only drops its request.
SearchSend(g) ==
    /\ Doing(g, "send")
    /\ asked' = IF stop THEN asked ELSE asked \union search[g].list
    /\ IF stop /\ search[g].kind = "open" THEN Exit(g) ELSE Step(g, "top")
    /\ UNCHANGED <<doc, flags, marks, fleet, req, cleanup, late, unlisted, swept>>

-----------------------------------------------------------------------------
(* Bids *)

\* a mechanic whose app shows the request bids. Looked at: service:stop, the status,
\* service:locked; neither cancelled nor provider_assigned is refused here.
PlaceBid(r, p) ==
    /\ Starts(r, "PlaceBid")
    /\ p \in asked
    /\ ~stop /\ status \notin {"confirmed", "completed"} /\ ~locked
    /\ Enter(r, "bid_lock", p)
    /\ UNCHANGED <<doc, flags, marks, fleet, search, cleanup, past>>

\* SETNX of the mechanic's bid lock ("provider already placed bid"), then of the window
PlaceBidLock(r) ==
    /\ At(r, "bid_lock")
    /\ IF req[r].p \in bidLock
         THEN Return(r) /\ UNCHANGED <<bidLock, window>>
         ELSE /\ bidLock' = bidLock \union {req[r].p}
              /\ window' = TRUE
              /\ Goto(r, "bid_insert")
    /\ UNCHANGED <<doc, stop, locked, cool, sent, fleet, search, cleanup, past>>

\* the look-up of the mechanic or the insert may fail: the window then holds back the
\* search for a bid the customer never sees
PlaceBidInsert(r) ==
    /\ At(r, "bid_insert")
    /\ \/ bids' = bids \union {req[r].p}
       \/ "StoreError" \in Ops /\ UNCHANGED bids
    /\ Return(r)
    /\ UNCHANGED <<status, provider, former, located, flags, marks, fleet, search, cleanup, past>>

\* the customer turns a bid down
RejectBid(r, p) ==
    /\ Starts(r, "RejectBid")
    /\ p \in bids
    /\ busy[p] = "free" /\ status = "searching"
    /\ Enter(r, "reject_thaw", p)
    /\ UNCHANGED <<doc, flags, marks, fleet, search, cleanup, past>>

\* a new window, the mechanic's keys deleted, the request shown to him again
RejectBidThaw(r) ==
    LET p == req[r].p IN
    /\ At(r, "reject_thaw")
    /\ window' = TRUE
    /\ bidLock' = bidLock \ {p} /\ cool' = cool \ {p} /\ sent' = [sent EXCEPT ![p] = 0]
    /\ asked' = asked \union {p}
    /\ Return(r)
    /\ UNCHANGED <<doc, stop, locked, fleet, search, cleanup, late, unlisted, swept>>

-----------------------------------------------------------------------------
(* The award and its withdrawal, as far as they touch the keys and the list *)

AcceptBid(r, p) ==
    /\ Starts(r, "AcceptBid")
    /\ p \in bids /\ p \in online
    /\ Enter(r, "accept_lock", p)
    /\ UNCHANGED <<doc, flags, marks, fleet, search, cleanup, past>>

\* the script takes both keys or neither; service:stop follows, then GeoPos
AcceptBidLock(r) ==
    LET p == req[r].p IN
    /\ At(r, "accept_lock")
    /\ IF locked \/ busy[p] # "free"
         THEN Return(r) /\ UNCHANGED <<stop, locked, busy>>
         ELSE /\ locked' = TRUE /\ stop' = TRUE
              /\ busy' = [busy EXCEPT ![p] = "here"]
              /\ req' = [req EXCEPT ![r].at = "accept_assign", ![r].known = p \in geo]
    /\ UNCHANGED <<doc, window, marks, online, geo, away, search, cleanup, past>>

AcceptBidAssign(r) ==
    /\ At(r, "accept_assign")
    /\ IF status = "searching" /\ provider = NoProvider
         THEN /\ status' = "provider_assigned" /\ provider' = req[r].p
              /\ located' = (located \/ req[r].known)
              /\ Goto(r, "accept_unlist")
         ELSE Goto(r, "accept_undo") /\ UNCHANGED <<status, provider, located>>
    /\ UNCHANGED <<former, bids, flags, marks, fleet, search, cleanup, past>>

\* the loser deletes both keys and leaves service:stop
AcceptBidUndo(r) ==
    /\ At(r, "accept_undo")
    /\ locked' = FALSE
    /\ busy' = [busy EXCEPT ![req[r].p] = "free"]
    /\ Return(r)
    /\ UNCHANGED <<doc, stop, window, marks, online, geo, away, search, cleanup, past>>

\* the winner leaves providers:geo, even if he was released in the meantime
AcceptBidUnlist(r) ==
    LET p == req[r].p IN
    /\ At(r, "accept_unlist")
    /\ geo' = geo \ {p}
    /\ unlisted' = IF Holds(p) /\ \A q \in Request \ {r} : req[q].p # p
                     THEN unlisted ELSE unlisted \union {p}
    /\ Return(r)
    /\ UNCHANGED <<doc, flags, marks, busy, online, away, search, cleanup, asked, late,
                   swept>>

\* the mechanic gives the booking back
ProviderCancelService(r) ==
    /\ Starts(r, "ProviderCancelService")
    /\ provider # NoProvider /\ status # "cancelled"
    /\ Enter(r, "withdraw_release", provider)
    /\ UNCHANGED <<doc, flags, marks, fleet, search, cleanup, past>>

\* he is listed again only if the document knows where he is and if he is the first
\* to give this booking back
ProviderCancelRelease(r) ==
    LET p == req[r].p IN
    /\ At(r, "withdraw_release")
    /\ locked' = FALSE /\ stop' = FALSE /\ swept' = FALSE
    /\ busy' = [busy EXCEPT ![p] = "free"]
    /\ IF req[r].known /\ req[r].first THEN Listed(p) ELSE NotListed(p)
    /\ Goto(r, "withdraw_reopen")
    /\ UNCHANGED <<doc, window, marks, online, away, search, cleanup, asked, late>>

ProviderCancelReopen(r) ==
    /\ At(r, "withdraw_reopen")
    /\ status' = "searching_after_cancel"
    /\ provider' = NoProvider /\ former' = req[r].p
    /\ Abandons(req[r].p)
    /\ Goto(r, "withdraw_respawn")
    /\ UNCHANGED <<located, bids, flags, marks, fleet, search, cleanup, asked, late, swept>>

\* the search at the fixed price starts, without him
ProviderCancelRespawn(r) ==
    /\ At(r, "withdraw_respawn")
    /\ stop' = FALSE /\ window' = FALSE /\ swept' = FALSE
    /\ \E g \in Search :
         /\ search[g] = Off
         /\ search' = [search EXCEPT ![g] = [Off EXCEPT !.kind = "fixed", !.excl = req[r].p]]
         /\ late' = [late EXCEPT ![g] = 0]
    /\ Return(r)
    /\ UNCHANGED <<doc, locked, marks, fleet, cleanup, asked, unlisted>>

\* a mechanic takes the booking at the fixed price
AcceptOffer(r, p) ==
    /\ Starts(r, "AcceptOffer")
    /\ p \in asked
    /\ ~stop /\ ~locked
    /\ Enter(r, "offer_claim", p)
    /\ UNCHANGED <<doc, flags, marks, fleet, search, cleanup, past>>

\* mutation: the filter of the update names only the statuses it must not find
ClaimableUnlessEnded == status \notin {"completed", "cancelled"}

\* the filter of the update
Claimable == status = "searching_after_cancel"

\* one wins; he stays listed and is not busy
AcceptOfferClaim(r) ==
    /\ At(r, "offer_claim")
    /\ IF Claimable
         THEN status' = "confirmed" /\ provider' = req[r].p /\ Goto(r, "offer_freeze")
         ELSE Return(r) /\ UNCHANGED <<status, provider>>
    /\ UNCHANGED <<former, located, bids, flags, marks, fleet, search, cleanup, past>>

StopAllDiscovery(r) ==
    /\ At(r, "offer_freeze")
    /\ stop' = TRUE /\ locked' = TRUE
    /\ Goto(r, "offer_thaw")
    /\ UNCHANGED <<doc, window, marks, fleet, search, cleanup, past>>

\* the request keys and both flags of the booking go
CleanupServiceKeys ==
    /\ cool' = {} /\ sent' = [p \in Provider |-> 0] /\ bidLock' = {}
    /\ stop' = FALSE /\ locked' = FALSE /\ swept' = FALSE

StopAllDiscoveryThaw(r) ==
    /\ At(r, "offer_thaw")
    /\ CleanupServiceKeys
    /\ Return(r)
    /\ UNCHANGED <<doc, window, fleet, search, cleanup, asked, late, unlisted>>

\* end of the journey: the mechanic is listed again where the document has him
Complete ==
    /\ "Complete" \in Ops
    /\ status = "confirmed" /\ provider # NoProvider
    /\ status' = "completed"
    /\ busy' = IF busy[provider] = "here" THEN [busy EXCEPT ![provider] = "free"] ELSE busy
    /\ stop' = FALSE /\ locked' = FALSE /\ swept' = FALSE
    /\ IF located THEN Listed(provider) ELSE NotListed(provider)
    /\ UNCHANGED <<provider, former, located, bids, window, marks, online, away,
                   search, req, cleanup, asked, late>>

-----------------------------------------------------------------------------
(* Cancellations and their clean-up *)

\* the customer cancels the booking
CancelService(r) ==
    /\ Starts(r, "CancelService")
    /\ Enter(r, "cancel_lock", provider)
    /\ UNCHANGED <<doc, flags, marks, fleet, search, cleanup, past>>

CancelServiceLock(r) ==
    LET p == req[r].p IN
    /\ At(r, "cancel_lock")
    /\ locked' = TRUE
    /\ IF p = NoProvider
         THEN UNCHANGED <<busy, geo, unlisted>>
         ELSE /\ busy' = [busy EXCEPT ![p] = "free"]
              /\ IF req[r].known THEN Listed(p) ELSE NotListed(p)
    /\ Goto(r, "cancel_write")
    /\ UNCHANGED <<doc, stop, window, marks, online, away, search, cleanup, asked, late, swept>>

CancelServiceWrite(r) ==
    /\ At(r, "cancel_write")
    /\ status' = "cancelled"
    /\ Abandons(req[r].p)
    /\ Goto(r, "cancel_sweep")
    /\ UNCHANGED <<provider, former, located, bids, flags, marks, fleet, search, cleanup,
                   asked, late, swept>>

CancelServiceSweep(r) ==
    /\ At(r, "cancel_sweep")
    /\ CleanupServiceKeys
    /\ Return(r)
    /\ UNCHANGED <<doc, window, fleet, search, cleanup, asked, late, unlisted>>

\* the customer ends the search before there is a bid: both flags, then the document
CancelSearch(r) ==
    /\ Starts(r, "CancelSearch")
    /\ locked' = TRUE /\ stop' = TRUE
    /\ Enter(r, "abort_write", NoProvider)
    /\ UNCHANGED <<doc, window, marks, fleet, search, cleanup, past>>

\* the job for the clean-up workers is dropped when their channel is full
CancelSearchWrite(r) ==
    /\ At(r, "abort_write")
    /\ status' = "cancelled"
    /\ cleanup' \in {cleanup, IF cleanup = "none" THEN "queued" ELSE cleanup}
    /\ Abandons(NoProvider)
    /\ Return(r)
    /\ UNCHANGED <<provider, former, located, bids, flags, marks, fleet, search,
                   asked, late, swept>>

\* takes cleanup:lock (a job that finds it taken is dropped) and deletes the request
\* keys; the flags stay until they expire
CleanupWorker ==
    /\ cleanup = "queued"
    /\ cleanup' = "locked"
    /\ cool' = {} /\ sent' = [p \in Provider |-> 0] /\ bidLock' = {}
    /\ swept' = stop
    /\ UNCHANGED <<doc, flags, fleet, search, req, asked, late, unlisted>>

\* a mechanic who was awarded the booking but not paid in time is released by a worker
\* (timeout:lock keeps a second one off). A mechanic who went offline has left no
\* provider in the document: then the id of nobody is put into providers:geo.
HandleProviderTimeout(r) ==
    /\ Starts(r, "HandleProviderTimeout")
    /\ status = "provider_assigned"
    /\ \A q \in Request : ~At(q, "timeout_release") /\ ~At(q, "timeout_write")
    /\ Enter(r, "timeout_release", provider)
    /\ UNCHANGED <<doc, flags, marks, fleet, search, cleanup, past>>

ProviderTimeoutRelease(r) ==
    LET p == req[r].p IN
    /\ At(r, "timeout_release")
    /\ CleanupServiceKeys
    /\ busy' = IF p = NoProvider THEN busy ELSE [busy EXCEPT ![p] = "free"]
    /\ IF req[r].known THEN Listed(p) ELSE NotListed(p)
    /\ Goto(r, "timeout_write")
    /\ UNCHANGED <<doc, window, online, away, search, cleanup, asked, late>>

ProviderTimeoutWrite(r) ==
    /\ At(r, "timeout_write")
    /\ status' = "cancelled" /\ provider' = NoProvider
    /\ Abandons(req[r].p)
    /\ Return(r)
    /\ UNCHANGED <<former, located, bids, flags, marks, fleet, search, cleanup, asked, late,
                   swept>>

-----------------------------------------------------------------------------
(* Mechanics come and go; keys expire *)

GoOnline(r, p) ==
    /\ Starts(r, "GoOnline")
    /\ p \notin online
    /\ online' = online \union {p}
    /\ Listed(p)
    /\ Return(r)
    /\ UNCHANGED <<doc, flags, marks, busy, away, search, cleanup, asked, late, swept>>

\* another booking engages him, and lets him go again
BusyElsewhere(r, p) ==
    /\ Starts(r, "Elsewhere")
    /\ p \in online /\ busy[p] = "free"
    /\ busy' = [busy EXCEPT ![p] = "other"] /\ geo' = geo \ {p}
    /\ away' = away \union {p}
    /\ Return(r)
    /\ UNCHANGED <<doc, flags, marks, online, search, cleanup, past>>

FreeElsewhere(p) ==
    /\ p \in away /\ away' = away \ {p}
    /\ busy' = [busy EXCEPT ![p] = "free"]
    /\ Listed(p)
    /\ UNCHANGED <<doc, flags, marks, online, search, req, cleanup, asked, late, swept>>

\* drops the booking he was assigned, with its flags
GoOffline(r, p) ==
    /\ Starts(r, "GoOffline")
    /\ p \in online
    /\ IF Holds(p) THEN stop' = FALSE /\ locked' = FALSE /\ swept' = FALSE
                ELSE UNCHANGED <<stop, locked, swept>>
    /\ IF Holds(p) /\ status = "provider_assigned"
         THEN provider' = NoProvider /\ former' = p
         ELSE UNCHANGED <<provider, former>>
    /\ Enter(r, "offline_clear", p)
    /\ UNCHANGED <<status, located, bids, window, marks, fleet, search, cleanup,
                   asked, late, unlisted>>

\* mutation: provider:online is left to expire
LeavesListOnly(p) == geo' = geo \ {p} /\ UNCHANGED online

Leaves(p) == geo' = geo \ {p} /\ online' = online \ {p}

GoOfflineClear(r) ==
    LET p == req[r].p IN
    /\ At(r, "offline_clear")
    /\ Leaves(p)
    /\ busy' = [busy EXCEPT ![p] = "free"]
    /\ unlisted' = unlisted \ {p}
    /\ Return(r)
    /\ UNCHANGED <<doc, flags, marks, away, search, cleanup, asked, late, swept>>

\* the keys of 30 and 35 seconds; those of minutes and hours outlive the run, but for
\* service:stop, which AcceptBid sets for five minutes
ExpireBidLock ==
    /\ bidLock # {} /\ bidLock' = {}
    /\ UNCHANGED <<doc, flags, cool, sent, fleet, search, req, cleanup, past>>

ExpireCooldown ==
    /\ cool # {} /\ cool' = {}
    /\ UNCHANGED <<doc, flags, sent, bidLock, fleet, search, req, cleanup, past>>

\* mutation: service:bidWindow is written without an expiry
NeverExpires == FALSE

WindowExpires == window

ExpireWindow ==
    /\ WindowExpires /\ window' = FALSE
    /\ UNCHANGED <<doc, stop, locked, marks, fleet, search, req, cleanup, past>>

StopExpires ==
    /\ "StopExpires" \in Ops
    /\ stop /\ stop' = FALSE /\ swept' = FALSE
    /\ UNCHANGED <<doc, locked, window, marks, fleet, search, req, cleanup,
                   asked, late, unlisted>>

-----------------------------------------------------------------------------
SearchStep(g) ==
    \/ SearchExit(g) \/ SearchRound(g) \/ SearchTimeout(g) \/ SearchCancel(g)
    \/ SearchWait(g) \/ SearchScript(g) \/ SearchSend(g)

CallStep(r) ==
    \/ PlaceBidLock(r) \/ PlaceBidInsert(r) \/ RejectBidThaw(r)
    \/ AcceptBidLock(r) \/ AcceptBidAssign(r) \/ AcceptBidUndo(r) \/ AcceptBidUnlist(r)
    \/ ProviderCancelRelease(r) \/ ProviderCancelReopen(r) \/ ProviderCancelRespawn(r)
    \/ AcceptOfferClaim(r) \/ StopAllDiscovery(r) \/ StopAllDiscoveryThaw(r)
    \/ CancelServiceLock(r) \/ CancelServiceWrite(r) \/ CancelServiceSweep(r)
    \/ CancelSearchWrite(r) \/ ProviderTimeoutRelease(r) \/ ProviderTimeoutWrite(r)
    \/ GoOfflineClear(r)

NewCallStep(r) ==
    \/ \E p \in Provider : \/ PlaceBid(r, p) \/ RejectBid(r, p) \/ AcceptBid(r, p)
                           \/ AcceptOffer(r, p) \/ GoOffline(r, p)
                           \/ GoOnline(r, p) \/ BusyElsewhere(r, p)
    \/ ProviderCancelService(r) \/ CancelService(r) \/ CancelSearch(r)
    \/ HandleProviderTimeout(r)

Next ==
    \/ \E g \in Search : SearchStep(g)
    \/ \E r \in Request : CallStep(r) \/ NewCallStep(r)
    \/ \E p \in Provider : FreeElsewhere(p)
    \/ Complete \/ CleanupWorker \/ StopExpires
    \/ ExpireBidLock \/ ExpireCooldown \/ ExpireWindow

Spec == Init /\ [][Next]_vars

\* The search goroutines are scheduled, and the keys that hold them back expire. Nobody
\* has to call, calls under way may hang, and the ten minutes of a search need not pass.
FairSpec ==
    /\ Spec
    /\ \A g \in Search : WF_vars(SearchExit(g) \/ SearchRound(g) \/ SearchCancel(g)
                                 \/ SearchWait(g) \/ SearchScript(g) \/ SearchSend(g))
    /\ WF_vars(ExpireCooldown) /\ WF_vars(ExpireWindow)

-----------------------------------------------------------------------------
(* Properties *)

\* A search that has lost its booking writes to mechanics at most once more: the status
\* is read in one call and the script runs in a later one, and a cancellation may have
\* deleted both flags in between.
OneLateRound == \A g \in Search : late[g] <= 1

\* Once a clean-up worker has deleted the request keys of a cancelled search, no search
\* still under way brings them back, as long as service:stop is there.
SweptStaysClean == swept => cool = {} /\ \A p \in Provider : sent[p] = 0

\* A mechanic nobody is dealing with: online, not busy, not the mechanic of the booking,
\* and named by no call under way.
AtLeisure(p) ==
    /\ p \in online /\ busy[p] = "free" /\ p \notin away /\ ~Holds(p)
    /\ \A r \in Request : req[r].p # p

\* Such a mechanic is in providers:geo, where searches find him, unless he was dropped
\* from it: he was the second to give the booking back, the document has no location, he
\* was released between the award and its ZREM, or a blind write has abandoned him.
Reachable == \A p \in Provider : AtLeisure(p) => p \in geo \union unlisted

\* The abstract life of this booking's award (module Award)
Phase == CASE status = "searching"              -> "open"
           [] status = "searching_after_cancel" -> "offered"
           [] OTHER                             -> "taken"

Abstract == INSTANCE Award WITH Booking <- {"this"}, Mechanic <- Provider, Nobody <- NoProvider,
                                phase <- [b \in {"this"} |-> Phase], holder <- [b \in {"this"} |-> provider]

\* However bids, offers, withdrawals, workers and the mechanic's switch interleave, each of
\* them changes the booking as module Award allows: it is awarded only while it is searched
\* for or offered, and to a second mechanic only after the first one was taken off. The
\* keys of Redis play no part in this; the filters of two updates do.
AwardAgrees == [][Abstract!Next]_(Abstract!vars)

\* When a booking is searched for no longer, its search goroutines end.
SearchesEnd ==
    <>[](status \notin {"searching", "searching_after_cancel"})
        => <>[](\A g \in Search : search[g] = Off)

\* A mechanic who stays listed and free while a search stays under way is asked: neither
\* the bid windows nor the limits hold a search back for good, if nothing stops it.
Asked(p) ==
    (/\ []~stop
     /\ <>[](/\ \E g \in Search : /\ search[g].kind # "off" /\ search[g].excl # p
                                 /\ status = Wanted(g)
            /\ ~locked /\ p \in geo /\ busy[p] = "free"))
        => <>(p \in asked)
=============================================================================
