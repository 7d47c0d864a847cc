-------------------------- MODULE Discovery_proofs --------------------------
(***************************************************************************)
(* Proofs about module Discovery, for any number of mechanics, searches    *)
(* and calls, and any set of handlers, workers and faults.                 *)
(***************************************************************************)
EXTENDS Discovery, TLAPS

-----------------------------------------------------------------------------
(* The inductive invariant *)

\* TypeOK without the calls
StateType ==
    /\ status \in Statuses
    /\ {provider, former} \subseteq Provider \union {NoProvider}
    /\ {located, stop, locked, window, swept} \subseteq BOOLEAN
    /\ cool \subseteq Provider /\ bidLock \subseteq Provider
    /\ sent \in [Provider -> 0..MaxSend + 1]
    /\ busy \in [Provider -> {"free", "here", "other"}]
    /\ online \subseteq Provider /\ away \subseteq Provider
    /\ geo \subseteq Provider \union {NoProvider}
    /\ bids \subseteq Provider
    /\ cleanup \in {"none", "queued", "locked"}
    /\ asked \subseteq Provider /\ unlisted \subseteq Provider

SearchType ==
    /\ search \in [Search -> Task]
    /\ \A g \in Search : search[g].list # {} => search[g].at = "send"

ReqType == req \in [Request -> Call]

\* at these labels a call carries a mechanic
NeedsProvider == {"bid_lock", "bid_insert", "reject_thaw", "accept_lock", "accept_assign",
                  "accept_undo", "accept_unlist", "withdraw_release", "withdraw_reopen",
                  "withdraw_respawn", "offer_claim", "offer_freeze", "offer_thaw",
                  "offline_clear"}

RequestOK == \A r \in Request : req[r].at \in NeedsProvider => req[r].p \in Provider

\* the script is run by searches that have just found the status they want
LateOK ==
    /\ late \in [Search -> 0..1]
    /\ \A g \in Search : search[g].at = "script" => late[g] = 0

\* swept lasts no longer than service:stop, which holds the scripts back
SweptOK == swept => stop /\ SweptStaysClean

\* mechanics the searches cannot find though they are online
Missing(p) == p \in online \ away /\ p \notin geo \union unlisted

\* calls that have released a mechanic but not yet written the document
Released == {"withdraw_reopen", "timeout_write", "cancel_write"}

Leaving(p) == \E r \in Request : req[r].at = "offline_clear" /\ req[r].p = p

\* a missing mechanic is about to leave, or has the booking, and is then named by no call
\* that has released him already
Excused(p) ==
    \/ Leaving(p)
    \/ /\ Holds(p)
       /\ \A r \in Request : req[r].at \in Released => req[r].p # p

ReachOK == \A p \in Provider : Missing(p) => Excused(p)

IInv == StateType /\ SearchType /\ ReqType /\ RequestOK /\ LateOK /\ SweptOK /\ ReachOK

LEMMA IInvProperties == IInv => TypeOK /\ OneLateRound /\ SweptStaysClean /\ Reachable
<1>. SUFFICES ASSUME IInv PROVE TypeOK /\ OneLateRound /\ SweptStaysClean /\ Reachable
  OBVIOUS
<1>1. TypeOK
  BY DEF IInv, StateType, SearchType, ReqType, LateOK, TypeOK
<1>2. OneLateRound
  BY DEF IInv, LateOK, OneLateRound
<1>3. SweptStaysClean
  BY DEF IInv, SweptOK, SweptStaysClean
<1>4. Reachable
  <2>. SUFFICES ASSUME NEW p \in Provider, AtLeisure(p) PROVE p \in geo \union unlisted
    BY DEF Reachable
  <2>1. ~Leaving(p) /\ ~Holds(p)
    BY DEF AtLeisure, Leaving
  <2> QED BY <2>1 DEF IInv, ReachOK, Excused, Missing, AtLeisure
<1> QED BY <1>1, <1>2, <1>3, <1>4

-----------------------------------------------------------------------------
(* The calls *)

LEMMA GotoOK ==
    ASSUME ReqType, RequestOK, NEW r \in Request, NEW label \in Label, Goto(r, label),
           label \in NeedsProvider => req[r].p \in Provider
    PROVE  /\ ReqType' /\ RequestOK'
           /\ req'[r].at = label /\ req'[r].p = req[r].p
           /\ \A q \in Request \ {r} : req'[q] = req[q]
<1>1. ReqType'
  BY DEF ReqType, Goto, Call
<1>2. /\ req'[r].at = label /\ req'[r].p = req[r].p
      /\ \A q \in Request \ {r} : req'[q] = req[q]
  BY DEF ReqType, Goto, Call
<1> QED BY <1>1, <1>2 DEF RequestOK

LEMMA EnterOK ==
    ASSUME ReqType, RequestOK, NEW r \in Request, NEW label \in Label,
           NEW p \in Provider \union {NoProvider}, Enter(r, label, p), located \in BOOLEAN,
           label \in NeedsProvider => p \in Provider
    PROVE  /\ ReqType' /\ RequestOK'
           /\ req'[r].at = label /\ req'[r].p = p
           /\ \A q \in Request \ {r} : req'[q] = req[q]
<1>1. [at |-> label, p |-> p, known |-> located, first |-> former = NoProvider] \in Call
  BY DEF Call
<1>2. ReqType'
  BY <1>1 DEF ReqType, Enter
<1>3. /\ req'[r].at = label /\ req'[r].p = p
      /\ \A q \in Request \ {r} : req'[q] = req[q]
  BY DEF ReqType, Enter
<1> QED BY <1>2, <1>3 DEF RequestOK

LEMMA ReturnOK ==
    ASSUME ReqType, RequestOK, NEW r \in Request, Return(r)
    PROVE  /\ ReqType' /\ RequestOK'
           /\ req'[r].at = "done" /\ req'[r].p = NoProvider
           /\ \A q \in Request \ {r} : req'[q] = req[q]
<1>1. [NewCall EXCEPT !.at = "done"] \in Call
  BY DEF NewCall, Call, Label
<1>2. /\ req'[r].at = "done" /\ req'[r].p = NoProvider
      /\ \A q \in Request \ {r} : req'[q] = req[q]
  BY DEF ReqType, Return, NewCall
<1> QED BY <1>1, <1>2 DEF ReqType, Return, RequestOK, NeedsProvider

LEMMA CallStepRequest ==
    ASSUME IInv, NEW r \in Request, CallStep(r)
    PROVE  ReqType' /\ RequestOK'
<1>. ReqType /\ RequestOK /\ StateType
  BY DEF IInv
<1>1. CASE PlaceBidLock(r)
  BY <1>1, GotoOK, ReturnOK DEF PlaceBidLock, At, Starts, NeedsProvider, Label,
        RequestOK, StateType
<1>2. CASE PlaceBidInsert(r)
  BY <1>2, ReturnOK DEF PlaceBidInsert, At, Starts, NeedsProvider, Label, RequestOK,
        StateType
<1>3. CASE RejectBidThaw(r)
  BY <1>3, ReturnOK DEF RejectBidThaw, At, Starts, NeedsProvider, Label, RequestOK,
        StateType
<1>4. CASE AcceptBidLock(r)
  <2>1. CASE locked \/ busy[req[r].p] # "free"
    BY <1>4, <2>1, ReturnOK DEF AcceptBidLock
  <2>2. CASE ~locked /\ busy[req[r].p] = "free"
    <3>1. req' = [req EXCEPT ![r].at = "accept_assign", ![r].known = req[r].p \in geo]
      BY <1>4, <2>2 DEF AcceptBidLock
    <3>2. /\ req'[r].at = "accept_assign" /\ req'[r].p = req[r].p
          /\ \A q \in Request \ {r} : req'[q] = req[q]
      BY <3>1 DEF ReqType, Call
    <3>3. req[r].p \in Provider
      BY <1>4 DEF AcceptBidLock, At, RequestOK, NeedsProvider
    <3>4. req'[r] \in Call
      <4>1. req[r] \in Call /\ (req[r].p \in geo) \in BOOLEAN
        BY DEF ReqType
      <4> QED BY <3>1, <4>1 DEF ReqType, Call, Label
    <3>5. ReqType'
      BY <3>1, <3>4 DEF ReqType
    <3> QED BY <3>2, <3>3, <3>5 DEF RequestOK
  <2> QED BY <2>1, <2>2
<1>5. CASE AcceptBidAssign(r)
  BY <1>5, GotoOK DEF AcceptBidAssign, At, Starts, NeedsProvider, Label, RequestOK,
        StateType
<1>6. CASE AcceptBidUndo(r)
  BY <1>6, ReturnOK DEF AcceptBidUndo, At, Starts, NeedsProvider, Label, RequestOK,
        StateType
<1>7. CASE AcceptBidUnlist(r)
  BY <1>7, ReturnOK DEF AcceptBidUnlist, At, Starts, NeedsProvider, Label, RequestOK,
        StateType
<1>8. CASE ProviderCancelRelease(r)
  BY <1>8, GotoOK DEF ProviderCancelRelease, At, Starts, NeedsProvider, Label,
        RequestOK, StateType
<1>9. CASE ProviderCancelReopen(r)
  BY <1>9, GotoOK DEF ProviderCancelReopen, At, Starts, NeedsProvider, Label, RequestOK,
        StateType
<1>10. CASE ProviderCancelRespawn(r)
  BY <1>10, ReturnOK DEF ProviderCancelRespawn, At, Starts, NeedsProvider, Label,
        RequestOK, StateType
<1>11. CASE AcceptOfferClaim(r)
  BY <1>11, GotoOK, ReturnOK DEF AcceptOfferClaim, At, Starts, NeedsProvider, Label,
        RequestOK, StateType
<1>12. CASE StopAllDiscovery(r)
  BY <1>12, GotoOK DEF StopAllDiscovery, At, Starts, NeedsProvider, Label, RequestOK,
        StateType
<1>13. CASE StopAllDiscoveryThaw(r)
  BY <1>13, ReturnOK DEF StopAllDiscoveryThaw, At, Starts, NeedsProvider, Label,
        RequestOK, StateType
<1>14. CASE CancelServiceLock(r)
  BY <1>14, GotoOK DEF CancelServiceLock, At, Starts, NeedsProvider, Label, RequestOK,
        StateType
<1>15. CASE CancelServiceWrite(r)
  BY <1>15, GotoOK DEF CancelServiceWrite, At, Starts, NeedsProvider, Label, RequestOK,
        StateType
<1>16. CASE CancelServiceSweep(r)
  BY <1>16, ReturnOK DEF CancelServiceSweep, At, Starts, NeedsProvider, Label,
        RequestOK, StateType
<1>17. CASE CancelSearchWrite(r)
  BY <1>17, ReturnOK DEF CancelSearchWrite, At, Starts, NeedsProvider, Label, RequestOK,
        StateType
<1>18. CASE ProviderTimeoutRelease(r)
  BY <1>18, GotoOK DEF ProviderTimeoutRelease, At, Starts, NeedsProvider, Label,
        RequestOK, StateType
<1>19. CASE ProviderTimeoutWrite(r)
  BY <1>19, ReturnOK DEF ProviderTimeoutWrite, At, Starts, NeedsProvider, Label,
        RequestOK, StateType
<1>20. CASE GoOfflineClear(r)
  BY <1>20, ReturnOK DEF GoOfflineClear, At, Starts, NeedsProvider, Label, RequestOK,
        StateType
<1> QED BY <1>1, <1>2, <1>3, <1>4, <1>5, <1>6, <1>7, <1>8, <1>9, <1>10, <1>11, <1>12,
        <1>13, <1>14, <1>15, <1>16, <1>17, <1>18, <1>19, <1>20 DEF CallStep

LEMMA NewCallRequest ==
    ASSUME IInv, NEW r \in Request, NewCallStep(r)
    PROVE  ReqType' /\ RequestOK'
<1>. ReqType /\ RequestOK /\ StateType
  BY DEF IInv
<1>1. ASSUME NEW p \in Provider, PlaceBid(r, p)
     PROVE  ReqType' /\ RequestOK'
  BY <1>1, EnterOK DEF PlaceBid, NeedsProvider, Label, StateType
<1>2. ASSUME NEW p \in Provider, RejectBid(r, p)
     PROVE  ReqType' /\ RequestOK'
  BY <1>2, EnterOK DEF RejectBid, NeedsProvider, Label, StateType
<1>3. ASSUME NEW p \in Provider, AcceptBid(r, p)
     PROVE  ReqType' /\ RequestOK'
  BY <1>3, EnterOK DEF AcceptBid, NeedsProvider, Label, StateType
<1>4. ASSUME NEW p \in Provider, AcceptOffer(r, p)
     PROVE  ReqType' /\ RequestOK'
  BY <1>4, EnterOK DEF AcceptOffer, NeedsProvider, Label, StateType
<1>5. ASSUME NEW p \in Provider, GoOffline(r, p)
     PROVE  ReqType' /\ RequestOK'
  BY <1>5, EnterOK DEF GoOffline, NeedsProvider, Label, StateType
<1>6. ASSUME NEW p \in Provider, GoOnline(r, p)
     PROVE  ReqType' /\ RequestOK'
  BY <1>6, ReturnOK DEF GoOnline, NeedsProvider, Label, StateType
<1>7. ASSUME NEW p \in Provider, BusyElsewhere(r, p)
     PROVE  ReqType' /\ RequestOK'
  BY <1>7, ReturnOK DEF BusyElsewhere, NeedsProvider, Label, StateType
<1>8. CASE ProviderCancelService(r)
  BY <1>8, EnterOK DEF ProviderCancelService, NeedsProvider, Label, StateType
<1>9. CASE CancelService(r)
  BY <1>9, EnterOK DEF CancelService, NeedsProvider, Label, StateType
<1>10. CASE CancelSearch(r)
  BY <1>10, EnterOK DEF CancelSearch, NeedsProvider, Label, StateType
<1>11. CASE HandleProviderTimeout(r)
  BY <1>11, EnterOK DEF HandleProviderTimeout, NeedsProvider, Label, StateType
<1> QED BY <1>1, <1>2, <1>3, <1>4, <1>5, <1>6, <1>7, <1>8, <1>9, <1>10, <1>11 DEF NewCallStep

-----------------------------------------------------------------------------
(* Types of the stores *)

LEMMA CleanupType ==
    ASSUME CleanupServiceKeys
    PROVE  /\ cool' \subseteq Provider /\ bidLock' \subseteq Provider
           /\ sent' \in [Provider -> 0..MaxSend + 1]
           /\ stop' \in BOOLEAN /\ locked' \in BOOLEAN /\ swept' \in BOOLEAN
<1>1. cool' \subseteq Provider /\ bidLock' \subseteq Provider
  BY DEF CleanupServiceKeys
<1>2. sent' \in [Provider -> 0..MaxSend + 1]
  BY DiscoveryAssumption DEF CleanupServiceKeys
<1>3. stop' \in BOOLEAN /\ locked' \in BOOLEAN /\ swept' \in BOOLEAN
  BY DEF CleanupServiceKeys
<1> QED BY <1>1, <1>2, <1>3

LEMMA CallStepType ==
    ASSUME IInv, NEW r \in Request, CallStep(r)
    PROVE  StateType'
<1>. StateType /\ RequestOK /\ ReqType
  BY DEF IInv
<1>. req[r].p \in Provider \union {NoProvider}
  BY DEF ReqType, Call
<1>. USE DEF StateType, At
<1>1. CASE PlaceBidLock(r)
  BY <1>1, DiscoveryAssumption DEF PlaceBidLock, doc, fleet, past, flags, marks,
        RequestOK, NeedsProvider, Statuses
<1>2. CASE PlaceBidInsert(r)
  BY <1>2 DEF PlaceBidInsert, flags, marks, fleet, past, doc, RequestOK, NeedsProvider,
        Statuses
<1>3. CASE RejectBidThaw(r)
  BY <1>3, DiscoveryAssumption DEF RejectBidThaw, doc, fleet, past, flags, marks,
        RequestOK, NeedsProvider, Statuses
<1>4. CASE AcceptBidLock(r)
  BY <1>4 DEF AcceptBidLock, doc, marks, past, RequestOK, NeedsProvider, Statuses
<1>5. CASE AcceptBidAssign(r)
  BY <1>5 DEF AcceptBidAssign, flags, marks, fleet, past, doc, RequestOK, NeedsProvider,
        Statuses
<1>6. CASE AcceptBidUndo(r)
  BY <1>6 DEF AcceptBidUndo, doc, marks, past, RequestOK, NeedsProvider, Statuses
<1>7. CASE AcceptBidUnlist(r)
  BY <1>7 DEF AcceptBidUnlist, Holds, doc, flags, marks, RequestOK, NeedsProvider,
        Statuses
<1>8. CASE ProviderCancelRelease(r)
  BY <1>8 DEF ProviderCancelRelease, Listed, NotListed, doc, marks, RequestOK,
        NeedsProvider, Statuses
<1>9. CASE ProviderCancelReopen(r)
  BY <1>9 DEF ProviderCancelReopen, Abandons, flags, marks, fleet, past, doc, RequestOK,
        NeedsProvider, Statuses
<1>10. CASE ProviderCancelRespawn(r)
  BY <1>10 DEF ProviderCancelRespawn, doc, marks, fleet, past, flags, RequestOK,
        NeedsProvider, Statuses
<1>11. CASE AcceptOfferClaim(r)
  BY <1>11 DEF AcceptOfferClaim, flags, marks, fleet, past, doc, RequestOK,
        NeedsProvider, Statuses
<1>12. CASE StopAllDiscovery(r)
  BY <1>12 DEF StopAllDiscovery, doc, marks, fleet, past, flags, RequestOK,
        NeedsProvider, Statuses
<1>13. CASE StopAllDiscoveryThaw(r)
  BY <1>13, CleanupType DEF StopAllDiscoveryThaw, doc,
        fleet, past, flags, marks, RequestOK, NeedsProvider, Statuses
<1>14. CASE CancelServiceLock(r)
  BY <1>14 DEF CancelServiceLock, Listed, NotListed, doc, marks, RequestOK,
        NeedsProvider, Statuses
<1>15. CASE CancelServiceWrite(r)
  BY <1>15 DEF CancelServiceWrite, Abandons, flags, marks, fleet, past, doc, RequestOK,
        NeedsProvider, Statuses
<1>16. CASE CancelServiceSweep(r)
  BY <1>16, CleanupType DEF CancelServiceSweep, doc, fleet,
        past, flags, marks, RequestOK, NeedsProvider, Statuses
<1>17. CASE CancelSearchWrite(r)
  BY <1>17 DEF CancelSearchWrite, Abandons, flags, marks, fleet, past, doc, RequestOK,
        NeedsProvider, Statuses
<1>18. CASE ProviderTimeoutRelease(r)
  BY <1>18, CleanupType DEF ProviderTimeoutRelease, Listed,
        NotListed, doc, RequestOK, NeedsProvider, Statuses
<1>19. CASE ProviderTimeoutWrite(r)
  BY <1>19 DEF ProviderTimeoutWrite, Abandons, flags, marks, fleet, past, doc,
        RequestOK, NeedsProvider, Statuses
<1>20. CASE GoOfflineClear(r)
  BY <1>20 DEF GoOfflineClear, Leaves, doc, flags, marks, RequestOK, NeedsProvider,
        Statuses
<1> QED BY <1>1, <1>2, <1>3, <1>4, <1>5, <1>6, <1>7, <1>8, <1>9, <1>10, <1>11, <1>12,
        <1>13, <1>14, <1>15, <1>16, <1>17, <1>18, <1>19, <1>20 DEF CallStep

LEMMA NewCallType ==
    ASSUME IInv, NEW r \in Request, NewCallStep(r)
    PROVE  StateType'
<1>. StateType
  BY DEF IInv
<1>. USE DEF StateType
<1>1. ASSUME NEW p \in Provider, PlaceBid(r, p)
      PROVE  StateType'
  BY <1>1 DEF PlaceBid, doc, flags, marks, fleet, past
<1>2. ASSUME NEW p \in Provider, RejectBid(r, p)
      PROVE  StateType'
  BY <1>2 DEF RejectBid, doc, flags, marks, fleet, past
<1>3. ASSUME NEW p \in Provider, AcceptBid(r, p)
      PROVE  StateType'
  BY <1>3 DEF AcceptBid, doc, flags, marks, fleet, past
<1>4. ASSUME NEW p \in Provider, AcceptOffer(r, p)
      PROVE  StateType'
  BY <1>4 DEF AcceptOffer, doc, flags, marks, fleet, past
<1>5. ASSUME NEW p \in Provider, GoOffline(r, p)
      PROVE  StateType'
  <2>1. {stop, locked, swept}' \subseteq BOOLEAN
    BY <1>5 DEF GoOffline
  <2>2. {provider, former}' \subseteq Provider \union {NoProvider}
    BY <1>5 DEF GoOffline
  <2> QED BY <1>5, <2>1, <2>2 DEF GoOffline, marks, fleet
<1>6. ASSUME NEW p \in Provider, GoOnline(r, p)
      PROVE  StateType'
  BY <1>6 DEF GoOnline, Listed, doc, flags, marks
<1>7. ASSUME NEW p \in Provider, BusyElsewhere(r, p)
      PROVE  StateType'
  BY <1>7 DEF BusyElsewhere, doc, flags, marks, past
<1>8. CASE ProviderCancelService(r)
  BY <1>8 DEF ProviderCancelService, doc, flags, marks, fleet, past
<1>9. CASE CancelService(r)
  BY <1>9 DEF CancelService, doc, flags, marks, fleet, past
<1>10. CASE CancelSearch(r)
  BY <1>10 DEF CancelSearch, doc, marks, fleet, past, flags
<1>11. CASE HandleProviderTimeout(r)
  BY <1>11 DEF HandleProviderTimeout, doc, flags, marks, fleet, past
<1> QED BY <1>1, <1>2, <1>3, <1>4, <1>5, <1>6, <1>7, <1>8, <1>9, <1>10, <1>11 DEF NewCallStep

LEMMA SearchStepType ==
    ASSUME IInv, NEW g \in Search, SearchStep(g)
    PROVE  StateType'
<1>. StateType /\ SearchType
  BY DEF IInv
<1>. USE DEF StateType
<1>1. CASE SearchExit(g)
  BY <1>1 DEF SearchExit, doc, flags, marks, fleet, past, SearchType, Task, Statuses,
        Doing, Tried, Sendable
<1>2. CASE SearchRound(g)
  BY <1>2 DEF SearchRound, doc, flags, marks, fleet, past, SearchType, Task, Statuses,
        Doing, Tried, Sendable
<1>3. CASE SearchTimeout(g)
  BY <1>3 DEF SearchTimeout, doc, marks, fleet, past, flags, SearchType, Task, Statuses,
        Doing, Tried, Sendable
<1>4. CASE SearchCancel(g)
  BY <1>4 DEF SearchCancel, Abandons, flags, marks, fleet, past, doc, SearchType, Task,
        Statuses, Doing, Tried, Sendable
<1>5. CASE SearchWait(g)
  BY <1>5 DEF SearchWait, doc, flags, marks, fleet, past, SearchType, Task, Statuses,
        Doing, Tried, Sendable
<1>6. CASE SearchScript(g)
  BY <1>6, DiscoveryAssumption DEF SearchScript, doc, flags, fleet, past, marks,
        SearchType, Task, Statuses, Doing, Tried, Sendable
<1>7. CASE SearchSend(g)
  BY <1>7 DEF SearchSend, doc, flags, marks, fleet, past, SearchType, Task, Statuses,
        Doing, Tried, Sendable
<1> QED BY <1>1, <1>2, <1>3, <1>4, <1>5, <1>6, <1>7 DEF SearchStep

LEMMA OtherType ==
    ASSUME IInv,
           \/ \E p \in Provider : FreeElsewhere(p)
           \/ Complete \/ CleanupWorker \/ StopExpires
           \/ ExpireBidLock \/ ExpireCooldown \/ ExpireWindow
    PROVE  StateType'
<1>. StateType
  BY DEF IInv
<1>. USE DEF StateType
<1>1. ASSUME NEW p \in Provider, FreeElsewhere(p)
      PROVE  StateType'
  BY <1>1 DEF FreeElsewhere, Listed, doc, flags, marks, Statuses
<1>2. CASE Complete
  BY <1>2 DEF Complete, Listed, NotListed, marks, Statuses
<1>3. CASE CleanupWorker
  BY <1>3, DiscoveryAssumption DEF CleanupWorker, doc, flags, fleet, past, marks,
        Statuses
<1>4. CASE StopExpires
  BY <1>4 DEF StopExpires, doc, marks, fleet, past, flags, Statuses
<1>5. CASE ExpireBidLock
  BY <1>5 DEF ExpireBidLock, doc, flags, fleet, past, marks, Statuses
<1>6. CASE ExpireCooldown
  BY <1>6 DEF ExpireCooldown, doc, flags, fleet, past, marks, Statuses
<1>7. CASE ExpireWindow
  BY <1>7 DEF ExpireWindow, doc, marks, fleet, past, flags, Statuses
<1> QED BY <1>1, <1>2, <1>3, <1>4, <1>5, <1>6, <1>7

-----------------------------------------------------------------------------
(* Searches *)

LEMMA SearchStepSearch ==
    ASSUME IInv, NEW g \in Search, SearchStep(g)
    PROVE  SearchType' /\ LateOK'
<1>. search \in [Search -> Task] /\ SearchType /\ LateOK
  BY DEF IInv, SearchType
<1>. Off \in Task /\ Off.at = "top" /\ Off.list = {}
  BY DEF Off, Task
<1>. USE DEF SearchType, LateOK, Doing, Step, Exit, Task
<1>1. CASE SearchExit(g)
  BY <1>1 DEF SearchExit, past
<1>2. CASE SearchRound(g)
  <2>1. late' = [late EXCEPT ![g] = 0]
    BY <1>2 DEF SearchRound, Gone
  <2>2. search' = [search EXCEPT ![g].at = "script", ![g].list = {}]
    BY <1>2 DEF SearchRound
  <2>3. SearchType'
    <3>1. [search[g] EXCEPT !.at = "script", !.list = {}] \in Task
      OBVIOUS
    <3>2. search' \in [Search -> Task]
      BY <2>2
    <3> QED BY <2>2, <3>2
  <2>4. LateOK'
    BY <2>1, <2>2
  <2> QED BY <2>3, <2>4
<1>3. CASE SearchTimeout(g)
  BY <1>3 DEF SearchTimeout, past
<1>4. CASE SearchCancel(g)
  BY <1>4 DEF SearchCancel
<1>5. CASE SearchWait(g)
  BY <1>5 DEF SearchWait, past
<1>6. CASE SearchScript(g)
  <2>1. CASE Held
    BY <1>6, <2>1 DEF SearchScript
  <2>2. CASE ~Held
    <3>1. search' = [search EXCEPT ![g].list = Sendable(g),
                        ![g].at = IF Sendable(g) = {} THEN "top" ELSE "send"]
      BY <1>6, <2>2 DEF SearchScript
    <3>2. Sendable(g) \subseteq Provider
      BY DEF Sendable, Tried, IInv, StateType
    <3>3. SearchType'
      BY <3>1, <3>2
    <3>4. late[g] = 0 /\ late' = [late EXCEPT ![g] = IF status = Wanted(g) THEN 0 ELSE 1]
      BY <1>6, <2>2 DEF SearchScript
    <3>5. search'[g].at # "script" /\ \A h \in Search \ {g} : search'[h] = search[h]
      BY <3>1
    <3>6. LateOK'
      BY <3>4, <3>5
    <3> QED BY <3>3, <3>6
  <2> QED BY <2>1, <2>2
<1>7. CASE SearchSend(g)
  BY <1>7 DEF SearchSend
<1> QED BY <1>1, <1>2, <1>3, <1>4, <1>5, <1>6, <1>7 DEF SearchStep

LEMMA CallStepSearch ==
    ASSUME IInv, NEW r \in Request, CallStep(r)
    PROVE  SearchType' /\ LateOK'
<1>1. CASE ProviderCancelRespawn(r)
  <2>1. PICK g \in Search : /\ search' = [search EXCEPT ![g] =
                                   [Off EXCEPT !.kind = "fixed", !.excl = req[r].p]]
                            /\ late' = [late EXCEPT ![g] = 0]
    BY <1>1 DEF ProviderCancelRespawn
  <2>2. [Off EXCEPT !.kind = "fixed", !.excl = req[r].p] \in Task
    BY <1>1 DEF Off, Task, ProviderCancelRespawn, IInv, RequestOK, At, NeedsProvider
  <2>3. [Off EXCEPT !.kind = "fixed", !.excl = req[r].p].list = {}
    BY DEF Off
  <2>4. [Off EXCEPT !.kind = "fixed", !.excl = req[r].p].at = "top"
    BY DEF Off
  <2> QED BY <2>1, <2>2, <2>3, <2>4 DEF IInv, SearchType, LateOK
<1>2. CASE ~ProviderCancelRespawn(r)
  <2>1. UNCHANGED <<search, late>>
    BY <1>2 DEF CallStep, PlaceBidLock, PlaceBidInsert, RejectBidThaw, AcceptBidLock,
        AcceptBidAssign, AcceptBidUndo, AcceptBidUnlist, ProviderCancelRelease,
        ProviderCancelReopen, AcceptOfferClaim, StopAllDiscovery, StopAllDiscoveryThaw,
        CancelServiceLock, CancelServiceWrite, CancelServiceSweep, CancelSearchWrite,
        ProviderTimeoutRelease, ProviderTimeoutWrite, GoOfflineClear, past
  <2> QED BY <2>1 DEF IInv, SearchType, LateOK
<1> QED BY <1>1, <1>2

LEMMA OthersSearch ==
    ASSUME IInv, \/ \E r \in Request : NewCallStep(r)
                 \/ \E p \in Provider : FreeElsewhere(p)
                 \/ Complete \/ CleanupWorker \/ StopExpires
                 \/ ExpireBidLock \/ ExpireCooldown \/ ExpireWindow
    PROVE  SearchType' /\ LateOK'
<1>1. UNCHANGED <<search, late>>
  BY DEF NewCallStep, PlaceBid, RejectBid, AcceptBid, AcceptOffer, GoOffline, GoOnline,
        BusyElsewhere, ProviderCancelService, CancelService, CancelSearch,
        HandleProviderTimeout, FreeElsewhere, Complete, CleanupWorker, StopExpires,
        ExpireBidLock, ExpireCooldown, ExpireWindow, past
<1> QED BY <1>1 DEF IInv, SearchType, LateOK

-----------------------------------------------------------------------------
(* Clean-up *)

LEMMA CallStepSwept ==
    ASSUME IInv, NEW r \in Request, CallStep(r)
    PROVE  SweptOK'
<1>. SweptOK /\ StateType
  BY DEF IInv
<1>. USE DEF SweptOK, SweptStaysClean
<1>1. CASE PlaceBidLock(r)
  BY <1>1 DEF PlaceBidLock, doc, fleet, past, flags, marks
<1>2. CASE PlaceBidInsert(r)
  BY <1>2 DEF PlaceBidInsert, flags, marks, fleet, past, doc
<1>3. CASE RejectBidThaw(r)
  BY <1>3 DEF RejectBidThaw, doc, fleet, past, flags, marks
<1>4. CASE AcceptBidLock(r)
  BY <1>4 DEF AcceptBidLock, doc, marks, past
<1>5. CASE AcceptBidAssign(r)
  BY <1>5 DEF AcceptBidAssign, flags, marks, fleet, past, doc
<1>6. CASE AcceptBidUndo(r)
  BY <1>6 DEF AcceptBidUndo, doc, marks, past
<1>7. CASE AcceptBidUnlist(r)
  BY <1>7 DEF AcceptBidUnlist, doc, flags, marks
<1>8. CASE ProviderCancelRelease(r)
  BY <1>8 DEF ProviderCancelRelease, doc, marks
<1>9. CASE ProviderCancelReopen(r)
  BY <1>9 DEF ProviderCancelReopen, flags, marks, fleet, past, doc
<1>10. CASE ProviderCancelRespawn(r)
  BY <1>10 DEF ProviderCancelRespawn, doc, marks, fleet, past, flags
<1>11. CASE AcceptOfferClaim(r)
  BY <1>11 DEF AcceptOfferClaim, flags, marks, fleet, past, doc
<1>12. CASE StopAllDiscovery(r)
  BY <1>12 DEF StopAllDiscovery, doc, marks, fleet, past, flags
<1>13. CASE StopAllDiscoveryThaw(r)
  BY <1>13 DEF StopAllDiscoveryThaw, CleanupServiceKeys, doc, fleet, past, flags, marks
<1>14. CASE CancelServiceLock(r)
  BY <1>14 DEF CancelServiceLock, doc, marks
<1>15. CASE CancelServiceWrite(r)
  BY <1>15 DEF CancelServiceWrite, flags, marks, fleet, past, doc
<1>16. CASE CancelServiceSweep(r)
  BY <1>16 DEF CancelServiceSweep, CleanupServiceKeys, doc, fleet, past, flags, marks
<1>17. CASE CancelSearchWrite(r)
  BY <1>17 DEF CancelSearchWrite, flags, marks, fleet, past, doc
<1>18. CASE ProviderTimeoutRelease(r)
  BY <1>18 DEF ProviderTimeoutRelease, CleanupServiceKeys, doc
<1>19. CASE ProviderTimeoutWrite(r)
  BY <1>19 DEF ProviderTimeoutWrite, flags, marks, fleet, past, doc
<1>20. CASE GoOfflineClear(r)
  BY <1>20 DEF GoOfflineClear, doc, flags, marks
<1> QED BY <1>1, <1>2, <1>3, <1>4, <1>5, <1>6, <1>7, <1>8, <1>9, <1>10, <1>11, <1>12,
        <1>13, <1>14, <1>15, <1>16, <1>17, <1>18, <1>19, <1>20 DEF CallStep

LEMMA NewCallSwept ==
    ASSUME IInv, NEW r \in Request, NewCallStep(r)
    PROVE  SweptOK'
<1>. SweptOK /\ StateType
  BY DEF IInv
<1>. USE DEF SweptOK, SweptStaysClean
<1>1. ASSUME NEW p \in Provider, PlaceBid(r, p)
      PROVE  SweptOK'
  BY <1>1 DEF PlaceBid, doc, flags, marks, fleet, past
<1>2. ASSUME NEW p \in Provider, RejectBid(r, p)
      PROVE  SweptOK'
  BY <1>2 DEF RejectBid, doc, flags, marks, fleet, past
<1>3. ASSUME NEW p \in Provider, AcceptBid(r, p)
      PROVE  SweptOK'
  BY <1>3 DEF AcceptBid, doc, flags, marks, fleet, past
<1>4. ASSUME NEW p \in Provider, AcceptOffer(r, p)
      PROVE  SweptOK'
  BY <1>4 DEF AcceptOffer, doc, flags, marks, fleet, past
<1>5. ASSUME NEW p \in Provider, GoOffline(r, p)
      PROVE  SweptOK'
  BY <1>5 DEF GoOffline, marks, fleet, past, doc, flags
<1>6. ASSUME NEW p \in Provider, GoOnline(r, p)
      PROVE  SweptOK'
  BY <1>6 DEF GoOnline, doc, flags, marks
<1>7. ASSUME NEW p \in Provider, BusyElsewhere(r, p)
      PROVE  SweptOK'
  BY <1>7 DEF BusyElsewhere, doc, flags, marks, past
<1>8. CASE ProviderCancelService(r)
  BY <1>8 DEF ProviderCancelService, doc, flags, marks, fleet, past
<1>9. CASE CancelService(r)
  BY <1>9 DEF CancelService, doc, flags, marks, fleet, past
<1>10. CASE CancelSearch(r)
  BY <1>10 DEF CancelSearch, doc, marks, fleet, past, flags
<1>11. CASE HandleProviderTimeout(r)
  BY <1>11 DEF HandleProviderTimeout, doc, flags, marks, fleet, past
<1> QED BY <1>1, <1>2, <1>3, <1>4, <1>5, <1>6, <1>7, <1>8, <1>9, <1>10, <1>11 DEF NewCallStep

LEMMA SearchStepSwept ==
    ASSUME IInv, NEW g \in Search, SearchStep(g)
    PROVE  SweptOK'
<1>. SweptOK /\ StateType
  BY DEF IInv
<1>. USE DEF SweptOK, SweptStaysClean
<1>1. CASE SearchExit(g)
  BY <1>1 DEF SearchExit, doc, flags, marks, fleet, past
<1>2. CASE SearchRound(g)
  BY <1>2 DEF SearchRound, doc, flags, marks, fleet, past
<1>3. CASE SearchTimeout(g)
  BY <1>3 DEF SearchTimeout, doc, marks, fleet, past, flags
<1>4. CASE SearchCancel(g)
  BY <1>4 DEF SearchCancel, flags, marks, fleet, past, doc
<1>5. CASE SearchWait(g)
  BY <1>5 DEF SearchWait, doc, flags, marks, fleet, past
<1>6. CASE SearchScript(g)
  BY <1>6 DEF SearchScript, Held, doc, flags, fleet, past, marks
<1>7. CASE SearchSend(g)
  BY <1>7 DEF SearchSend, doc, flags, marks, fleet, past
<1> QED BY <1>1, <1>2, <1>3, <1>4, <1>5, <1>6, <1>7 DEF SearchStep

LEMMA OtherSwept ==
    ASSUME IInv,
           \/ \E p \in Provider : FreeElsewhere(p)
           \/ Complete \/ CleanupWorker \/ StopExpires
           \/ ExpireBidLock \/ ExpireCooldown \/ ExpireWindow
    PROVE  SweptOK'
<1>. SweptOK /\ StateType
  BY DEF IInv
<1>. USE DEF SweptOK, SweptStaysClean
<1>1. ASSUME NEW p \in Provider, FreeElsewhere(p)
      PROVE  SweptOK'
  BY <1>1 DEF FreeElsewhere, doc, flags, marks
<1>2. CASE Complete
  BY <1>2 DEF Complete, marks
<1>3. CASE CleanupWorker
  BY <1>3 DEF CleanupWorker, doc, flags, fleet, past, marks
<1>4. CASE StopExpires
  BY <1>4 DEF StopExpires, doc, marks, fleet, past, flags
<1>5. CASE ExpireBidLock
  BY <1>5 DEF ExpireBidLock, doc, flags, fleet, past, marks
<1>6. CASE ExpireCooldown
  BY <1>6 DEF ExpireCooldown, doc, flags, fleet, past, marks
<1>7. CASE ExpireWindow
  BY <1>7 DEF ExpireWindow, doc, marks, fleet, past, flags
<1> QED BY <1>1, <1>2, <1>3, <1>4, <1>5, <1>6, <1>7

-----------------------------------------------------------------------------
(* Reachability *)

\* a call that moves on, and neither is about to clear a mechanic nor has just released p
LEMMA StaysExcused ==
    ASSUME NEW p \in Provider, Excused(p), NEW r \in Request, req[r].at # "offline_clear",
           \A q \in Request \ {r} : req'[q] = req[q],
           req'[r].at \in Released => req'[r].p # p,
           Holds(p) => Holds(p)'
    PROVE  Excused(p)'
<1>1. CASE Leaving(p)
  BY <1>1 DEF Leaving, Excused
<1>2. CASE Holds(p) /\ \A q \in Request : req[q].at \in Released => req[q].p # p
  BY <1>2 DEF Excused, Released
<1> QED BY <1>1, <1>2 DEF Excused

LEMMA ListedOK ==
    ASSUME NEW p, Listed(p) \/ NotListed(p)
    PROVE  /\ p \in Provider => p \in geo' \union unlisted'
           /\ \A q : q # p /\ q \in geo \union unlisted => q \in geo' \union unlisted'
BY DiscoveryAssumption DEF Listed, NotListed

\* the calls that touch neither the document nor the list
Elsewhere(r) ==
    \/ PlaceBidLock(r) \/ PlaceBidInsert(r) \/ RejectBidThaw(r) \/ AcceptBidLock(r)
    \/ AcceptBidUndo(r) \/ ProviderCancelRespawn(r) \/ StopAllDiscovery(r)
    \/ StopAllDiscoveryThaw(r) \/ CancelServiceSweep(r)

LEMMA ElsewhereReach ==
    ASSUME IInv, NEW r \in Request, Elsewhere(r)
    PROVE  ReachOK'
<1>. ReqType /\ RequestOK
  BY DEF IInv
<1>1. UNCHANGED <<status, provider, online, geo, away, unlisted>>
  BY DEF Elsewhere, PlaceBidLock, PlaceBidInsert, RejectBidThaw, AcceptBidLock,
        AcceptBidUndo, ProviderCancelRespawn, StopAllDiscovery, StopAllDiscoveryThaw,
        CancelServiceSweep, doc, fleet, past
<1>2. req[r].at # "offline_clear"
  BY DEF Elsewhere, PlaceBidLock, PlaceBidInsert, RejectBidThaw, AcceptBidLock,
        AcceptBidUndo, ProviderCancelRespawn, StopAllDiscovery, StopAllDiscoveryThaw,
        CancelServiceSweep, At
<1>3. \/ \E label \in {"bid_insert", "offer_thaw"} : Goto(r, label)
      \/ req' = [req EXCEPT ![r].at = "accept_assign", ![r].known = req[r].p \in geo]
      \/ Return(r)
  BY DEF Elsewhere, PlaceBidLock, PlaceBidInsert, RejectBidThaw, AcceptBidLock,
        AcceptBidUndo, ProviderCancelRespawn, StopAllDiscovery, StopAllDiscoveryThaw,
        CancelServiceSweep
<1>4. req'[r].at \notin Released /\ \A q \in Request \ {r} : req'[q] = req[q]
  BY <1>3 DEF Goto, Return, ReqType, Call, NewCall, Released
<1>. SUFFICES ASSUME NEW p \in Provider, Missing(p)' PROVE Excused(p)'
  BY DEF ReachOK
<1>5. Excused(p)
  BY <1>1 DEF IInv, ReachOK, Missing
<1> QED BY <1>1, <1>2, <1>4, <1>5, StaysExcused DEF Holds

LEMMA CallStepReach ==
    ASSUME IInv, NEW r \in Request, CallStep(r)
    PROVE  ReachOK'
<1>. ReqType /\ RequestOK /\ ReachOK
  BY DEF IInv
<1>1. CASE Elsewhere(r)
  BY <1>1, ElsewhereReach
<1>. SUFFICES ASSUME NEW p \in Provider, Missing(p)', ~Elsewhere(r)
              PROVE  Excused(p)'
  BY <1>1 DEF ReachOK
<1>2. CASE AcceptBidAssign(r)
  <2>1. /\ req[r].at # "offline_clear" /\ req'[r].at \notin Released
        /\ \A q \in Request \ {r} : req'[q] = req[q]
    BY <1>2, GotoOK DEF AcceptBidAssign, At, NeedsProvider, Label, RequestOK, Released
  <2>2. Excused(p)
    BY <1>2 DEF AcceptBidAssign, ReachOK, Missing, fleet, past
  <2>3. Holds(p) => Holds(p)'
    BY <1>2 DEF AcceptBidAssign, Holds
  <2> QED BY <2>1, <2>2, <2>3, StaysExcused
<1>3. CASE AcceptBidUnlist(r)
  <2>1. /\ req[r].at # "offline_clear" /\ req'[r].at \notin Released
        /\ \A q \in Request \ {r} : req'[q] = req[q]
    BY <1>3, ReturnOK DEF AcceptBidUnlist, At, Released
  <2>2. Holds(p) => Holds(p)'
    BY <1>3 DEF AcceptBidUnlist, doc, Holds
  <2>3. CASE p = req[r].p
    <3>1. Holds(p) /\ \A q \in Request \ {r} : req[q].p # p
      BY <1>3, <2>3 DEF AcceptBidUnlist, Missing
    <3> QED BY <2>1, <2>2, <3>1 DEF Excused
  <2>4. CASE p # req[r].p
    <3>1. Excused(p)
      BY <1>3, <2>4 DEF AcceptBidUnlist, Missing, ReachOK
    <3> QED BY <2>1, <2>2, <3>1, StaysExcused
  <2> QED BY <2>3, <2>4
<1>4. CASE ProviderCancelRelease(r)
  <2>1. /\ req[r].at # "offline_clear" /\ req'[r].p = req[r].p
        /\ \A q \in Request \ {r} : req'[q] = req[q]
    BY <1>4, GotoOK DEF ProviderCancelRelease, At, NeedsProvider, Label, RequestOK
  <2>2. p # req[r].p /\ Excused(p)
    BY <1>4, ListedOK DEF ProviderCancelRelease, Missing, ReachOK
  <2>3. Holds(p) => Holds(p)'
    BY <1>4 DEF ProviderCancelRelease, doc, Holds
  <2> QED BY <2>1, <2>2, <2>3, StaysExcused
<1>5. CASE ProviderCancelReopen(r)
  <2>1. /\ req[r].at # "offline_clear" /\ req'[r].at \notin Released
        /\ \A q \in Request \ {r} : req'[q] = req[q]
    BY <1>5, GotoOK DEF ProviderCancelReopen, At, NeedsProvider, Label, RequestOK, Released
  <2>2. Excused(p) /\ (provider = p => req[r].p = p)
    BY <1>5, DiscoveryAssumption DEF ProviderCancelReopen, Abandons, Missing, ReachOK, fleet
  <2>3. Leaving(p)
    BY <1>5, <2>2 DEF Excused, Holds, ProviderCancelReopen, At, Released
  <2> QED BY <2>1, <2>3 DEF Leaving, Excused
<1>6. CASE AcceptOfferClaim(r)
  <2>1. /\ req[r].at # "offline_clear" /\ req'[r].at \notin Released
        /\ \A q \in Request \ {r} : req'[q] = req[q]
    BY <1>6, GotoOK, ReturnOK
       DEF AcceptOfferClaim, At, NeedsProvider, Label, RequestOK, Released
  <2>2. Excused(p)
    BY <1>6 DEF AcceptOfferClaim, ReachOK, Missing, fleet, past
  <2>3. Holds(p) => Holds(p)'
    BY <1>6 DEF AcceptOfferClaim, Claimable, Holds
  <2> QED BY <2>1, <2>2, <2>3, StaysExcused
<1>7. CASE CancelServiceLock(r)
  <2>1. /\ req[r].at # "offline_clear" /\ req'[r].p = req[r].p
        /\ \A q \in Request \ {r} : req'[q] = req[q]
    BY <1>7, GotoOK DEF CancelServiceLock, At, NeedsProvider, Label, RequestOK
  <2>2. p # req[r].p /\ Excused(p)
    BY <1>7, ListedOK, DiscoveryAssumption DEF CancelServiceLock, Missing, ReachOK
  <2>3. Holds(p) => Holds(p)'
    BY <1>7 DEF CancelServiceLock, doc, Holds
  <2> QED BY <2>1, <2>2, <2>3, StaysExcused
<1>8. CASE CancelServiceWrite(r)
  <2>1. /\ req[r].at # "offline_clear" /\ req'[r].at \notin Released
        /\ \A q \in Request \ {r} : req'[q] = req[q]
    BY <1>8, GotoOK DEF CancelServiceWrite, At, NeedsProvider, Label, RequestOK, Released
  <2>2. Excused(p) /\ (provider = p => req[r].p = p)
    BY <1>8, DiscoveryAssumption DEF CancelServiceWrite, Abandons, Missing, ReachOK, fleet
  <2>3. Leaving(p)
    BY <1>8, <2>2 DEF Excused, Holds, CancelServiceWrite, At, Released
  <2> QED BY <2>1, <2>3 DEF Leaving, Excused
<1>9. CASE CancelSearchWrite(r)
  <2>1. /\ req[r].at # "offline_clear" /\ req'[r].at \notin Released
        /\ \A q \in Request \ {r} : req'[q] = req[q]
    BY <1>9, ReturnOK DEF CancelSearchWrite, At, Released
  <2>2. Excused(p) /\ provider # p
    BY <1>9, DiscoveryAssumption DEF CancelSearchWrite, Abandons, Missing, ReachOK, fleet
  <2> QED BY <2>1, <2>2 DEF Leaving, Excused, Holds
<1>10. CASE ProviderTimeoutRelease(r)
  <2>1. /\ req[r].at # "offline_clear" /\ req'[r].p = req[r].p
        /\ \A q \in Request \ {r} : req'[q] = req[q]
    BY <1>10, GotoOK DEF ProviderTimeoutRelease, At, NeedsProvider, Label, RequestOK
  <2>2. p # req[r].p /\ Excused(p)
    BY <1>10, ListedOK DEF ProviderTimeoutRelease, Missing, ReachOK
  <2>3. Holds(p) => Holds(p)'
    BY <1>10 DEF ProviderTimeoutRelease, doc, Holds
  <2> QED BY <2>1, <2>2, <2>3, StaysExcused
<1>11. CASE ProviderTimeoutWrite(r)
  <2>1. /\ req[r].at # "offline_clear" /\ req'[r].at \notin Released
        /\ \A q \in Request \ {r} : req'[q] = req[q]
    BY <1>11, ReturnOK DEF ProviderTimeoutWrite, At, Released
  <2>2. Excused(p) /\ (provider = p => req[r].p = p)
    BY <1>11, DiscoveryAssumption DEF ProviderTimeoutWrite, Abandons, Missing, ReachOK, fleet
  <2>3. Leaving(p)
    BY <1>11, <2>2 DEF Excused, Holds, ProviderTimeoutWrite, At, Released
  <2> QED BY <2>1, <2>3 DEF Leaving, Excused
<1>12. CASE GoOfflineClear(r)
  <2>1. /\ req'[r].at \notin Released
        /\ \A q \in Request \ {r} : req'[q] = req[q]
    BY <1>12, ReturnOK DEF GoOfflineClear, Released
  <2>2. p # req[r].p /\ Excused(p)
    BY <1>12 DEF GoOfflineClear, Leaves, Missing, ReachOK
  <2>3. Holds(p) => Holds(p)'
    BY <1>12 DEF GoOfflineClear, doc, Holds
  <2>4. CASE Leaving(p)
    BY <2>1, <2>2, <2>4 DEF Leaving, Excused
  <2>5. CASE ~Leaving(p)
    BY <2>1, <2>2, <2>3, <2>5 DEF Excused
  <2> QED BY <2>4, <2>5
<1> QED BY <1>2, <1>3, <1>4, <1>5, <1>6, <1>7, <1>8, <1>9, <1>10, <1>11, <1>12
        DEF CallStep, Elsewhere

LEMMA NewCallReach ==
    ASSUME IInv, NEW r \in Request, NewCallStep(r)
    PROVE  ReachOK'
<1>. ReqType /\ RequestOK /\ ReachOK /\ StateType
  BY DEF IInv
<1>1. /\ \A q \in Request \ {r} : req'[q] = req[q]
      /\ req[r].at # "offline_clear" /\ req'[r].at \notin Released
  <2>1. \/ \E label \in Label \ Released, p \in Provider \union {NoProvider} :
             Enter(r, label, p)
        \/ Return(r)
    BY DEF StateType, NewCallStep, PlaceBid, RejectBid, AcceptBid, AcceptOffer, GoOffline,
        GoOnline, BusyElsewhere, ProviderCancelService, CancelService, CancelSearch,
        HandleProviderTimeout, Label, Released
  <2>2. req[r].at = "new"
    BY DEF NewCallStep, PlaceBid, RejectBid, AcceptBid, AcceptOffer, GoOffline, GoOnline,
        BusyElsewhere, ProviderCancelService, CancelService, CancelSearch,
        HandleProviderTimeout, Starts, At
  <2> QED BY <2>1, <2>2 DEF Enter, Return, NewCall, ReqType, Released
<1>. SUFFICES ASSUME NEW p \in Provider, Missing(p)' PROVE Excused(p)'
  BY DEF ReachOK
<1>2. ASSUME NEW q \in Provider, GoOffline(r, q)
      PROVE  Excused(p)'
  <2>1. Excused(p)
    BY <1>2 DEF GoOffline, Missing, ReachOK, fleet
  <2>2. CASE p = q
    <3>1. req'[r].at = "offline_clear" /\ req'[r].p = p
      BY <1>2, <2>2, EnterOK DEF GoOffline, Label, NeedsProvider, StateType
    <3> QED BY <3>1 DEF Excused, Leaving
  <2>3. CASE p # q
    <3>1. Holds(p) => Holds(p)'
      BY <1>2, <2>3 DEF GoOffline, Holds
    <3> QED BY <1>1, <2>1, <3>1, StaysExcused
  <2> QED BY <2>2, <2>3
<1>3. CASE \A q \in Provider : ~GoOffline(r, q)
  <2>1. Holds(p) => Holds(p)'
    BY <1>3 DEF NewCallStep, PlaceBid, RejectBid, AcceptBid, AcceptOffer, GoOnline,
        BusyElsewhere, ProviderCancelService, CancelService, CancelSearch,
        HandleProviderTimeout, Holds, doc
  <2>2. Missing(p)
    <3>1. ASSUME NEW q \in Provider, GoOnline(r, q)
          PROVE  Missing(p)
      BY <3>1 DEF GoOnline, Listed, Missing
    <3>2. ASSUME NEW q \in Provider, BusyElsewhere(r, q)
          PROVE  Missing(p)
      BY <3>2 DEF BusyElsewhere, Missing, past
    <3>3. CASE \A q \in Provider : ~GoOnline(r, q) /\ ~BusyElsewhere(r, q)
      BY <1>3, <3>3 DEF NewCallStep, PlaceBid, RejectBid, AcceptBid, AcceptOffer,
        ProviderCancelService, CancelService, CancelSearch, HandleProviderTimeout,
        Missing, fleet, past
    <3> QED BY <3>1, <3>2, <3>3
  <2> QED BY <1>1, <2>1, <2>2, StaysExcused DEF ReachOK
<1> QED BY <1>2, <1>3

\* steps that no call makes
LEMMA OtherReach ==
    ASSUME IInv,
           \/ \E g \in Search : SearchStep(g)
           \/ \E p \in Provider : FreeElsewhere(p)
           \/ Complete \/ CleanupWorker \/ StopExpires
           \/ ExpireBidLock \/ ExpireCooldown \/ ExpireWindow
    PROVE  ReachOK'
<1>. ReachOK /\ StateType
  BY DEF IInv
<1>1. req' = req
  BY DEF SearchStep, SearchExit, SearchRound, SearchTimeout, SearchCancel, SearchWait,
        SearchScript, SearchSend, FreeElsewhere, Complete, CleanupWorker, StopExpires,
        ExpireBidLock, ExpireCooldown, ExpireWindow
<1>. SUFFICES ASSUME NEW p \in Provider, Missing(p)' PROVE Excused(p)'
  BY DEF ReachOK
<1>2. ASSUME NEW g \in Search, SearchCancel(g)
      PROVE  Excused(p)'
  <2>1. Excused(p) /\ provider # p
    BY <1>2, DiscoveryAssumption DEF SearchCancel, Abandons, Missing, ReachOK, fleet
  <2> QED BY <1>1, <2>1 DEF Excused, Leaving, Holds
<1>3. CASE Complete
  <2>1. provider # p /\ Excused(p)
    BY <1>3, ListedOK DEF Complete, Missing, ReachOK
  <2> QED BY <1>1, <2>1 DEF Excused, Leaving, Holds
<1>4. CASE ~Complete /\ \A g \in Search : ~SearchCancel(g)
  <2>1. UNCHANGED <<status, provider>>
    BY <1>4 DEF SearchStep, SearchExit, SearchRound, SearchTimeout, SearchWait,
        SearchScript, SearchSend, FreeElsewhere, CleanupWorker, StopExpires,
        ExpireBidLock, ExpireCooldown, ExpireWindow, doc
  <2>2. Missing(p)
    <3>1. ASSUME NEW q \in Provider, FreeElsewhere(q)
          PROVE  Missing(p)
      BY <3>1 DEF FreeElsewhere, Listed, Missing
    <3>2. CASE \A q \in Provider : ~FreeElsewhere(q)
      BY <1>4, <3>2 DEF SearchStep, SearchExit, SearchRound, SearchTimeout, SearchWait,
        SearchScript, SearchSend, CleanupWorker, StopExpires, ExpireBidLock,
        ExpireCooldown, ExpireWindow, fleet, past, Missing
    <3> QED BY <3>1, <3>2
  <2> QED BY <1>1, <2>1, <2>2 DEF ReachOK, Excused, Leaving, Holds
<1> QED BY <1>2, <1>3, <1>4

-----------------------------------------------------------------------------
(* The award *)

\* a booking that is searched for or offered has no mechanic
SearchedFree == status \in {"searching", "searching_after_cancel"} => provider = NoProvider

\* calls that act for a booking which had a mechanic when they read it
AfterAward == {"withdraw_release", "withdraw_reopen", "timeout_release", "timeout_write"}

\* a booking is searched for once: no call finds it back at its start
PastSearch == \A r \in Request : req[r].at \in AfterAward => status # "searching"

AwardInv == SearchedFree /\ PastSearch

\* the two ways a mechanic gets the booking
Awarding ==
    /\ status \in {"searching", "searching_after_cancel"} /\ provider = NoProvider
    /\ status' \in {"provider_assigned", "confirmed"} /\ provider' \in Provider

\* the booking is offered again
Reopening == status # "searching" /\ status' = "searching_after_cancel" /\ provider' = NoProvider

\* the booking goes on without a change of mechanic
Closing ==
    /\ provider' = provider
    /\ status' \notin {"searching", "searching_after_cancel"}

\* the mechanic is taken off
Withdrawing ==
    /\ provider' = NoProvider
    /\ \/ status' = "cancelled"
       \/ status = "provider_assigned" /\ status' = status

\* what a step does to the booking's award
AwardMove == Awarding \/ Reopening \/ Closing \/ Withdrawing \/ UNCHANGED <<status, provider>>

\* each of these moves is a step of the abstract award
LEMMA MoveAgrees ==
    ASSUME SearchedFree, AwardMove
    PROVE  [Abstract!Next]_(Abstract!vars)
<1>. DEFINE was == [b \in {"this"} |-> Phase]
            had == [b \in {"this"} |-> provider]
<1>0. /\ was["this"] = Phase /\ had["this"] = provider
      /\ \A x : [was EXCEPT !["this"] = x] = [b \in {"this"} |-> x]
      /\ \A x : [had EXCEPT !["this"] = x] = [b \in {"this"} |-> x]
  OBVIOUS
<1>1. ASSUME NEW phase_, NEW holder_, Phase' = phase_, provider' = holder_
      PROVE  /\ was' = [was EXCEPT !["this"] = phase_]
             /\ had' = [had EXCEPT !["this"] = holder_]
  BY <1>1, <1>0
<1>. HIDE DEF was, had
<1>2. CASE Awarding
  <2>1. Phase \in {"open", "offered"} /\ Phase' = "taken"
    BY <1>2 DEF Awarding, Phase
  <2>2. PICK p \in Provider : provider' = p
    BY <1>2 DEF Awarding
  <2>3. Abstract!Award("this", p)
    BY <1>2, <2>1, <2>2, <1>0, <1>1 DEF Abstract!Award, Abstract!Move, Awarding, was, had
  <2> QED BY <2>3 DEF Abstract!Next
<1>3. CASE Reopening
  <2>1. Phase \in {"taken", "offered"} /\ Phase' = "offered"
    BY <1>3 DEF Reopening, Phase
  <2>2. Abstract!Offer("this")
    BY <1>3, <2>1, <1>0, <1>1 DEF Abstract!Offer, Abstract!Move, Reopening, was, had
  <2> QED BY <2>2 DEF Abstract!Next
<1>4. CASE Closing
  <2>1. Phase # "none" /\ Phase' = "taken"
    BY <1>4 DEF Closing, Phase
  <2>2. Abstract!Close("this")
    BY <1>4, <2>1, <1>0, <1>1 DEF Abstract!Close, Abstract!Move, Closing, was, had
  <2> QED BY <2>2 DEF Abstract!Next
<1>5. CASE Withdrawing
  <2>1. Phase' = "taken"
    BY <1>5 DEF Withdrawing, Phase
  <2>2. CASE Phase = "taken"
    <3>1. Abstract!Withdraw("this")
      BY <1>5, <2>1, <2>2, <1>0, <1>1 DEF Abstract!Withdraw, Abstract!Move, Withdrawing, was, had
    <3> QED BY <3>1 DEF Abstract!Next
  <2>3. CASE Phase # "taken"
    <3>1. provider = NoProvider /\ Phase # "none"
      BY <2>3 DEF SearchedFree, Phase
    <3>2. Abstract!Close("this")
      BY <1>5, <2>1, <3>1, <1>0, <1>1 DEF Abstract!Close, Abstract!Move, Withdrawing, was, had
    <3> QED BY <3>2 DEF Abstract!Next
  <2> QED BY <2>2, <2>3
<1>6. CASE UNCHANGED <<status, provider>>
  BY <1>6 DEF Abstract!vars, Phase
<1> QED BY <1>2, <1>3, <1>4, <1>5, <1>6 DEF AwardMove

\* the moves keep the facts, if no call begins to act for a booking still searched for
LEMMA MoveKeeps ==
    ASSUME AwardInv, AwardMove,
           \A q \in Request : req'[q].at \in AfterAward
                                => req[q].at \in AfterAward \/ status # "searching"
    PROVE  AwardInv'
<1>1. SearchedFree'
  BY DEF AwardInv, AwardMove, Awarding, Reopening, Closing, Withdrawing, SearchedFree
<1>2. status' = "searching" => status = "searching"
  BY DEF AwardMove, Awarding, Reopening, Closing, Withdrawing
<1>3. PastSearch'
  BY <1>2 DEF AwardInv, PastSearch
<1> QED BY <1>1, <1>3 DEF AwardInv

\* the calls whose steps write neither the status nor the mechanic
LEMMA CallStepMove ==
    ASSUME IInv, AwardInv, NEW r \in Request, CallStep(r)
    PROVE  AwardMove
<1>. RequestOK
  BY DEF IInv
<1>1. CASE AcceptBidAssign(r)
  BY <1>1 DEF AcceptBidAssign, At, RequestOK, NeedsProvider, AwardMove, Awarding
<1>2. CASE AcceptOfferClaim(r)
  BY <1>2 DEF AcceptOfferClaim, Claimable, At, RequestOK, NeedsProvider, AwardInv, SearchedFree,
        AwardMove, Awarding
<1>3. CASE ProviderCancelReopen(r)
  BY <1>3 DEF ProviderCancelReopen, At, AwardInv, PastSearch, AfterAward, AwardMove, Reopening
<1>4. CASE CancelServiceWrite(r) \/ CancelSearchWrite(r)
  BY <1>4 DEF CancelServiceWrite, CancelSearchWrite, AwardMove, Closing
<1>5. CASE ProviderTimeoutWrite(r)
  BY <1>5 DEF ProviderTimeoutWrite, AwardMove, Withdrawing
<1>6. ASSUME UNCHANGED <<status, provider>> PROVE AwardMove
  BY <1>6 DEF AwardMove
<1> QED BY <1>1, <1>2, <1>3, <1>4, <1>5, <1>6
        DEF CallStep, doc, PlaceBidLock, PlaceBidInsert, RejectBidThaw, AcceptBidLock,
            AcceptBidUndo, AcceptBidUnlist, ProviderCancelRelease, ProviderCancelRespawn,
            StopAllDiscovery, StopAllDiscoveryThaw, CancelServiceLock, CancelServiceSweep,
            ProviderTimeoutRelease, GoOfflineClear

LEMMA NewCallMove ==
    ASSUME NEW r \in Request, NewCallStep(r)
    PROVE  AwardMove
<1>1. ASSUME NEW p \in Provider, GoOffline(r, p) PROVE AwardMove
  BY <1>1 DEF GoOffline, AwardMove, Withdrawing
<1>2. ASSUME UNCHANGED <<status, provider>> PROVE AwardMove
  BY <1>2 DEF AwardMove
<1> QED BY <1>1, <1>2
        DEF NewCallStep, doc, PlaceBid, RejectBid, AcceptBid, AcceptOffer, GoOnline,
            BusyElsewhere, ProviderCancelService, CancelService, CancelSearch,
            HandleProviderTimeout

\* steps that no call makes
LEMMA OtherMove ==
    ASSUME \/ \E g \in Search : SearchStep(g)
           \/ \E p \in Provider : FreeElsewhere(p)
           \/ Complete \/ CleanupWorker \/ StopExpires
           \/ ExpireBidLock \/ ExpireCooldown \/ ExpireWindow
    PROVE  AwardMove
<1>1. ASSUME NEW g \in Search, SearchCancel(g) PROVE AwardMove
  BY <1>1 DEF SearchCancel, AwardMove, Closing
<1>2. CASE Complete
  BY <1>2 DEF Complete, AwardMove, Closing
<1>3. ASSUME UNCHANGED <<status, provider>> PROVE AwardMove
  BY <1>3 DEF AwardMove
<1> QED BY <1>1, <1>2, <1>3
        DEF SearchStep, doc, SearchExit, SearchRound, SearchTimeout, SearchWait, SearchScript,
            SearchSend, FreeElsewhere, CleanupWorker, StopExpires, ExpireBidLock,
            ExpireCooldown, ExpireWindow

\* where a step may take a call
LEMMA CallStepLabel ==
    ASSUME ReqType, NEW r \in Request, CallStep(r), NEW q \in Request, req'[q].at \in AfterAward
    PROVE  req[q].at \in AfterAward
<1>1. CASE ProviderCancelRelease(r) \/ ProviderTimeoutRelease(r)
  BY <1>1 DEF ProviderCancelRelease, ProviderTimeoutRelease, Goto, At, ReqType, Call, AfterAward
<1>2. ASSUME \/ \E label \in Label \ AfterAward : Goto(r, label)
             \/ req' = [req EXCEPT ![r].at = "accept_assign", ![r].known = req[r].p \in geo]
             \/ Return(r)
      PROVE  req[q].at \in AfterAward
  BY <1>2 DEF Goto, Return, NewCall, ReqType, Call, AfterAward
<1> QED BY <1>1, <1>2
        DEF CallStep, PlaceBidLock, PlaceBidInsert, RejectBidThaw, AcceptBidLock, AcceptBidAssign,
            AcceptBidUndo, AcceptBidUnlist, ProviderCancelReopen, ProviderCancelRespawn,
            AcceptOfferClaim, StopAllDiscovery, StopAllDiscoveryThaw, CancelServiceLock,
            CancelServiceWrite, CancelServiceSweep, CancelSearchWrite, ProviderTimeoutWrite,
            GoOfflineClear, Label, AfterAward

LEMMA NewCallLabel ==
    ASSUME ReqType, AwardInv, NEW r \in Request, NewCallStep(r),
           NEW q \in Request, req'[q].at \in AfterAward
    PROVE  req[q].at \in AfterAward \/ status # "searching"
<1>1. CASE ProviderCancelService(r) \/ HandleProviderTimeout(r)
  <2>1. status # "searching"
    BY <1>1 DEF ProviderCancelService, HandleProviderTimeout, AwardInv, SearchedFree
  <2> QED BY <2>1
<1>2. ASSUME \/ \E label \in Label \ AfterAward, p \in Provider \union {NoProvider, provider} :
                    Enter(r, label, p)
             \/ Return(r)
      PROVE  req[q].at \in AfterAward
  BY <1>2 DEF Enter, Return, NewCall, ReqType, Call, AfterAward
<1> QED BY <1>1, <1>2
        DEF NewCallStep, PlaceBid, RejectBid, AcceptBid, AcceptOffer, GoOffline, GoOnline,
            BusyElsewhere, CancelService, CancelSearch, Label, AfterAward

LEMMA NextAward == IInv /\ AwardInv /\ [Next]_vars => AwardMove /\ AwardInv'
<1>. SUFFICES ASSUME IInv, AwardInv, [Next]_vars PROVE AwardMove /\ AwardInv'
  OBVIOUS
<1>. ReqType
  BY DEF IInv
<1>1. ASSUME NEW r \in Request, CallStep(r) PROVE AwardMove /\ AwardInv'
  BY <1>1, CallStepMove, CallStepLabel, MoveKeeps
<1>2. ASSUME NEW r \in Request, NewCallStep(r) PROVE AwardMove /\ AwardInv'
  BY <1>2, NewCallMove, NewCallLabel, MoveKeeps
<1>3. CASE \/ \E g \in Search : SearchStep(g)
           \/ \E p \in Provider : FreeElsewhere(p)
           \/ Complete \/ CleanupWorker \/ StopExpires
           \/ ExpireBidLock \/ ExpireCooldown \/ ExpireWindow
  <2>1. req' = req
    BY <1>3 DEF SearchStep, SearchExit, SearchRound, SearchTimeout, SearchCancel, SearchWait,
        SearchScript, SearchSend, FreeElsewhere, Complete, CleanupWorker, StopExpires,
        ExpireBidLock, ExpireCooldown, ExpireWindow
  <2> QED BY <1>3, <2>1, OtherMove, MoveKeeps
<1>4. CASE UNCHANGED vars
  <2>1. AwardMove /\ req' = req
    BY <1>4 DEF vars, doc, AwardMove
  <2> QED BY <2>1, MoveKeeps
<1> QED BY <1>1, <1>2, <1>3, <1>4 DEF Next

-----------------------------------------------------------------------------
(* The theorems *)

LEMMA InitIInv == Init => IInv
<1>. SUFFICES ASSUME Init PROVE IInv
  OBVIOUS
<1>. PICK kind \in {"open", "fixed"}, was \in Provider \union {NoProvider} : Start(kind, was)
  BY DiscoveryAssumption DEF Init
<1>1. StateType
  <2>1. provider = NoProvider /\ former \in Provider \union {NoProvider}
    BY DEF Init, Start
  <2>2. located \in BOOLEAN /\ bids \subseteq Provider /\ asked \subseteq Provider
    BY DEF Start
  <2>3. sent \in [Provider -> 0..MaxSend + 1]
    BY DiscoveryAssumption DEF Start
  <2>4. status \in Statuses
    BY DEF Start, Statuses
  <2>5. {located, stop, locked, window, swept} \subseteq BOOLEAN
    BY <2>2 DEF Init
  <2> QED BY <2>1, <2>2, <2>3, <2>4, <2>5 DEF Init, StateType
<1>2. SearchType
  <2>1. Off \in Task /\ Off.list = {}
    BY DEF Off, Task
  <2>2. former \in Provider \union {NoProvider}
    BY DEF Start
  <2>3. /\ [Off EXCEPT !.kind = kind, !.excl = former] \in Task
        /\ [Off EXCEPT !.kind = kind, !.excl = former].list = {}
    BY <2>2 DEF Off, Task
  <2> QED BY <2>1, <2>3 DEF Start, SearchType
<1>3. ReqType /\ RequestOK
  <2>1. NewCall \in Call
    BY DEF NewCall, Call, Label
  <2> QED BY <2>1 DEF Init, ReqType, RequestOK, NewCall, NeedsProvider
<1>4. LateOK
  BY DEF Init, LateOK
<1>5. SweptOK /\ ReachOK
  BY DEF Init, SweptOK, ReachOK, Missing
<1> QED BY <1>1, <1>2, <1>3, <1>4, <1>5 DEF IInv

LEMMA NextIInv == IInv /\ [Next]_vars => IInv'
<1>. SUFFICES ASSUME IInv, [Next]_vars PROVE IInv'
  OBVIOUS
<1>1. ASSUME NEW r \in Request, CallStep(r)
      PROVE  IInv'
  BY <1>1, CallStepRequest, CallStepType, CallStepSearch, CallStepSwept, CallStepReach DEF IInv
<1>2. ASSUME NEW r \in Request, NewCallStep(r)
      PROVE  IInv'
  BY <1>2, NewCallRequest, NewCallType, OthersSearch, NewCallSwept, NewCallReach DEF IInv
<1>3. ASSUME NEW g \in Search, SearchStep(g)
      PROVE  IInv'
  <2>1. req' = req
    BY <1>3 DEF SearchStep, SearchExit, SearchRound, SearchTimeout, SearchCancel,
        SearchWait, SearchScript, SearchSend
  <2>2. ReqType' /\ RequestOK'
    BY <2>1 DEF IInv, ReqType, RequestOK
  <2> QED BY <1>3, <2>2, SearchStepType, SearchStepSearch, SearchStepSwept, OtherReach DEF IInv
<1>4. CASE \/ \E p \in Provider : FreeElsewhere(p)
           \/ Complete \/ CleanupWorker \/ StopExpires
           \/ ExpireBidLock \/ ExpireCooldown \/ ExpireWindow
  <2>1. req' = req
    BY <1>4 DEF FreeElsewhere, Complete, CleanupWorker, StopExpires, ExpireBidLock,
        ExpireCooldown, ExpireWindow
  <2>2. ReqType' /\ RequestOK'
    BY <2>1 DEF IInv, ReqType, RequestOK
  <2> QED BY <1>4, <2>2, OtherType, OthersSearch, OtherSwept, OtherReach DEF IInv
<1>5. CASE UNCHANGED vars
  <2>. USE <1>5 DEF vars, doc, flags, marks, fleet, past, IInv
  <2>1. StateType'
    BY DEF StateType
  <2>2. SearchType' /\ ReqType' /\ RequestOK' /\ LateOK' /\ SweptOK'
    BY DEF SearchType, ReqType, RequestOK, LateOK, SweptOK, SweptStaysClean
  <2>3. ReachOK'
    BY DEF ReachOK, Missing, Excused, Leaving, Holds
  <2> QED BY <2>1, <2>2, <2>3
<1> QED BY <1>1, <1>2, <1>3, <1>4, <1>5 DEF Next

LEMMA Always == Spec => []IInv
BY InitIInv, NextIInv, PTL DEF Spec

\* Every variable keeps its type, whatever calls, workers and searches do.
THEOREM DiscoveryTypeCorrect == Spec => []TypeOK
BY Always, IInvProperties, PTL

\* A search that has lost its booking writes to mechanics at most once more: the status is
\* read at the top of a round, and the script of that round is the only one it can run.
THEOREM OneLateRoundAlways == Spec => []OneLateRound
BY Always, IInvProperties, PTL

\* Between the clean-up of a cancelled search and the end of service:stop no script sets a
\* cooldown or counts a request again.
THEOREM SweptStaysCleanAlways == Spec => []SweptStaysClean
BY Always, IInvProperties, PTL

\* A mechanic who is online, free and named by no call is in providers:geo, unless he was
\* dropped from it in one of the ways the code is known to have.
THEOREM ReachableAlways == Spec => []Reachable
BY Always, IInvProperties, PTL

\* Whatever bids, offers, withdrawals and workers meet, each step changes the booking as the
\* abstract award allows: one mechanic at a time, and none once the search for one is over.
THEOREM AwardAgreed == Spec => AwardAgrees
<1>1. Init => AwardInv
  BY DEF Init, AwardInv, SearchedFree, PastSearch, AfterAward, NewCall
<1>2. IInv /\ AwardInv /\ [Next]_vars => [Abstract!Next]_(Abstract!vars)
  BY NextAward, MoveAgrees DEF AwardInv
<1> QED BY <1>1, <1>2, Always, NextAward, PTL DEF Spec, AwardAgrees

=============================================================================
