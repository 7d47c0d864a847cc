------------------------- MODULE Assignment_proofs -------------------------
(***************************************************************************)
(* Proofs about modules Assignment and Cancelled, for any number of        *)
(* bookings, mechanics, customers and requests in flight.                  *)
(***************************************************************************)
EXTENDS Cancelled, TLAPS

-----------------------------------------------------------------------------
(* The inductive invariant *)

\* TypeOK without the requests
StateType ==
    /\ status    \in [Service -> Status]
    /\ provider  \in [Service -> Provider \union {NoProvider}]
    /\ former    \in [Service -> Provider \union {NoProvider}]
    /\ payment   \in [Service -> PaymentStatus]
    /\ stale     \subseteq Service
    /\ locked    \subseteq Service
    /\ stop      \subseteq Service
    /\ busy      \in [Provider -> Service \union {NoService}]
    /\ online    \subseteq Provider
    /\ loop      \in [Service -> {"off", "running", "expired"}]
    /\ fixed     \subseteq Service
    /\ initiated \subseteq Service
    /\ held      \in [Service -> SUBSET Provider]
    /\ lost      \subseteq Provider \X Service

ReqType == req \in [Request -> Call]

\* the labels at which the second argument is a mechanic, and those of UpdateStatus
NeedsProvider == {"bid_lock", "bid_stop", "bid_assign", "bid_undo",
                  "withdraw_release", "withdraw_reopen", "withdraw_respawn",
                  "offer_claim", "offer_freeze", "offer_thaw",
                  "offline_drop", "offline_unlock", "offline_clear", "paid_orphan"}
Journey == {"journey_settle", "journey_free", "journey_unlock", "journey_write"}

\* what a request in flight knows about its arguments
CallOK(c) ==
    /\ c.pc \notin {"idle", "offline_clear"} => c.s \in Service
    /\ c.pc \in NeedsProvider => c.p \in Provider
    /\ c.pc \in Journey => c.to \in JourneyInput

RequestOK == \A r \in Request : CallOK(req[r])

\* the labels that only a booking which has been awarded reaches
After == {"withdraw_release", "withdraw_reopen", "withdraw_respawn", "paid_load", "paid_orphan"}

PlaceOK(c) ==
    /\ c.pc = "search_insert" => status[c.s] = "absent"
    /\ c.pc \notin {"idle", "search_insert", "offline_clear"} => status[c.s] # "absent"
    /\ c.pc \in After => status[c.s] \notin {"absent", "searching"}

\* before its first award a booking has no past; searched for or offered, it has no mechanic
LifeOK ==
    /\ \A s \in Service :
          /\ status[s] \in {"absent", "searching"} => held[s] = {} /\ s \notin initiated
          /\ status[s] \in {"absent", "searching", "searching_after_cancel"}
                => provider[s] = NoProvider
          /\ loop[s] # "off" => status[s] # "absent"
    /\ \A r \in Request : PlaceOK(req[r])
    /\ \A q, r \in Request :
          q # r /\ req[q].pc = "search_insert" /\ req[r].pc = "search_insert" => req[q].s # req[r].s

IInv == StateType /\ ReqType /\ RequestOK /\ LifeOK

-----------------------------------------------------------------------------
(* Requests *)

LEMMA EnterOK ==
    ASSUME ReqType, RequestOK, NEW r \in Request, NEW label \in Label,
           NEW s \in Service \union {NoService}, NEW p \in Provider \union {NoProvider},
           Enter(r, label, s, p),
           label \notin {"idle", "offline_clear"} => s \in Service,
           label \in NeedsProvider => p \in Provider,
           label \notin Journey
    PROVE  /\ ReqType' /\ RequestOK'
           /\ req'[r].pc = label /\ req'[r].s = s /\ req'[r].p = p
           /\ \A q \in Request \ {r} : req'[q] = req[q]
<1>1. ReqType'
    BY DEF ReqType, Enter, Call, Status
<1>2. /\ req'[r].pc = label /\ req'[r].s = s /\ req'[r].p = p
      /\ \A q \in Request \ {r} : req'[q] = req[q]
    BY DEF ReqType, Enter
<1> QED BY <1>1, <1>2 DEF RequestOK, CallOK

LEMMA GotoOK ==
    ASSUME ReqType, RequestOK, NEW r \in Request, NEW label \in Label, Goto(r, label),
           req[r].pc \notin {"idle", "offline_clear"},
           label \in NeedsProvider => req[r].pc \in NeedsProvider,
           label \in Journey => req[r].pc \in Journey
    PROVE  /\ ReqType' /\ RequestOK'
           /\ req'[r].pc = label /\ req'[r].s = req[r].s /\ req'[r].p = req[r].p
           /\ \A q \in Request \ {r} : req'[q] = req[q]
<1>1. ReqType'
    BY DEF ReqType, Goto, Call
<1>2. /\ req'[r].pc = label /\ req'[r].s = req[r].s /\ req'[r].p = req[r].p
      /\ req'[r].to = req[r].to
      /\ \A q \in Request \ {r} : req'[q] = req[q]
    BY DEF ReqType, Goto, Call
<1> QED BY <1>1, <1>2 DEF RequestOK, CallOK

LEMMA ReturnOK ==
    ASSUME ReqType, RequestOK, NEW r \in Request, Return(r)
    PROVE  /\ ReqType' /\ RequestOK'
           /\ req'[r].pc = "idle" /\ \A q \in Request \ {r} : req'[q] = req[q]
<1>1. Idle \in Call /\ Idle.pc = "idle"
    BY DEF Idle, Call, Label, Status
<1>2. req'[r] = Idle /\ \A q \in Request \ {r} : req'[q] = req[q]
    BY DEF ReqType, Return
<1> QED BY <1>1, <1>2 DEF ReqType, Return, RequestOK, CallOK, NeedsProvider, Journey

LEMMA FreedType ==
    ASSUME busy \in [Provider -> Service \union {NoService}], NEW p
    PROVE  Freed(p) \in [Provider -> Service \union {NoService}]
BY DEF Freed

-----------------------------------------------------------------------------
(* The round trips of the requests in flight *)

LEMMA ContinueType ==
    ASSUME IInv, NEW r \in Request, Continue(r)
    PROVE  StateType'
<1>. /\ req[r].pc \notin {"idle", "offline_clear"} => req[r].s \in Service
     /\ req[r].pc \in NeedsProvider => req[r].p \in Provider
     /\ req[r].pc \in Journey => req[r].to \in Status
     /\ Freed(req[r].p) \in [Provider -> Service \union {NoService}]
  BY FreedType, Assumption DEF IInv, StateType, RequestOK, CallOK
<1>. USE DEF IInv, At, StateType
<1>1. CASE StartSearchInsert(r)
    BY <1>1 DEF StartSearchInsert, flags, fleet, money, past, Status
<1>2. CASE AcceptBidLock(r)
    BY <1>2 DEF AcceptBidLock, doc, tasks, money, past, NeedsProvider
<1>3. CASE AcceptBidRefuse(r)
    BY <1>3 DEF AcceptBidRefuse, doc, flags, fleet, tasks, money, past
<1>4. CASE AcceptBidStop(r)
    BY <1>4 DEF AcceptBidStop, doc, fleet, tasks, money, past
<1>5. CASE AcceptBidAssign(r)
    BY <1>5 DEF AcceptBidAssign, flags, fleet, tasks, money, Status, PaymentStatus, NeedsProvider
<1>6. CASE AcceptBidLose(r)
    BY <1>6 DEF AcceptBidLose, doc, flags, fleet, tasks, money, past
<1>7. CASE AcceptBidUndo(r)
    BY <1>7 DEF AcceptBidUndo, doc, tasks, money, past, NeedsProvider
<1>8. CASE ProviderCancelRefuse(r)
    BY <1>8 DEF ProviderCancelRefuse, doc, flags, fleet, tasks, money, past
<1>9. CASE ProviderCancelRelease(r)
    BY <1>9 DEF ProviderCancelRelease, doc, tasks, money, past, NeedsProvider
<1>10. CASE ProviderCancelReopen(r)
    BY <1>10 DEF ProviderCancelReopen, flags, fleet, tasks, money, past, Status, NeedsProvider
<1>11. CASE ProviderCancelRespawn(r)
    BY <1>11 DEF ProviderCancelRespawn, doc, fleet, money, past
<1>12. CASE AcceptOfferWin(r)
    BY <1>12 DEF AcceptOfferWin, flags, fleet, tasks, money, Status, NeedsProvider
<1>13. CASE AcceptOfferLose(r)
    BY <1>13 DEF AcceptOfferLose, doc, flags, fleet, tasks, money, past
<1>14. CASE StopAllDiscovery(r)
    BY <1>14 DEF StopAllDiscovery, doc, flags, fleet, tasks, money, past
<1>15. CASE StopAllDiscoveryCleanup(r)
    BY <1>15 DEF StopAllDiscoveryCleanup, doc, flags, fleet, tasks, money, past
<1>16. CASE CancelServiceLock(r)
    BY <1>16 DEF CancelServiceLock, doc, tasks, money, past, NeedsProvider
<1>17. CASE CancelServiceWrite(r)
    BY <1>17 DEF CancelServiceWrite, flags, fleet, tasks, money, past, Status
<1>18. CASE CancelServiceCleanup(r)
    BY <1>18 DEF CancelServiceCleanup, doc, fleet, tasks, money, past
<1>19. CASE CancelSearchingLock(r)
    BY <1>19 DEF CancelSearchingLock, doc, fleet, tasks, money, past
<1>20. CASE CancelSearchingWrite(r)
    BY <1>20 DEF CancelSearchingWrite, flags, fleet, tasks, money, past, Status
<1>21. CASE HandleProviderTimeoutRelease(r)
    BY <1>21 DEF HandleProviderTimeoutRelease, doc, tasks, money, past, NeedsProvider
<1>22. CASE HandleProviderTimeoutWrite(r)
    BY <1>22 DEF HandleProviderTimeoutWrite, flags, fleet, tasks, money, past, Status
<1>23. CASE AssignmentCronRelease(r)
    BY <1>23 DEF AssignmentCronRelease, doc, tasks, money, past, NeedsProvider
<1>24. CASE AssignmentCronWrite(r)
    BY <1>24 DEF AssignmentCronWrite, flags, fleet, tasks, money, past, Status
<1>25. CASE GoOfflineDrop(r)
    BY <1>25 DEF GoOfflineDrop, flags, fleet, tasks, money, past, NeedsProvider
<1>26. CASE GoOfflineClear(r)
    BY <1>26 DEF GoOfflineClear, doc, flags, tasks, money, past, NeedsProvider
<1>27. CASE UpdateStatusSettle(r)
    BY <1>27 DEF UpdateStatusSettle, doc, flags, fleet, tasks, money, past
<1>28. CASE UpdateStatusWrite(r)
    BY <1>28 DEF UpdateStatusWrite, flags, fleet, tasks, money, past, Status, Journey
<1>29. CASE PaymentSuccessLoad(r)
    BY <1>29 DEF PaymentSuccessLoad, doc, flags, fleet, tasks, money, past
<1>30. CASE GoOfflineUnlock(r)
    BY <1>30 DEF GoOfflineUnlock, doc, fleet, tasks, money, past
<1>31. CASE UpdateStatusFree(r)
    BY <1>31 DEF UpdateStatusFree, doc, flags, tasks, money, past
<1>32. CASE UpdateStatusUnlock(r)
    BY <1>32 DEF UpdateStatusUnlock, doc, fleet, tasks, money, past
<1> QED BY <1>1, <1>2, <1>3, <1>4, <1>5, <1>6, <1>7, <1>8, <1>9, <1>10, <1>11, <1>12, 
          <1>13, <1>14, <1>15, <1>16, <1>17, <1>18, <1>19, <1>20, <1>21, <1>22, <1>23, 
          <1>24, <1>25, <1>26, <1>27, <1>28, <1>29, <1>30, <1>31, <1>32
    DEF Continue

LEMMA ContinueRequest ==
    ASSUME IInv, NEW r \in Request, Continue(r)
    PROVE  ReqType' /\ RequestOK'
<1>. /\ req[r].pc \notin {"idle", "offline_clear"} => req[r].s \in Service
     /\ req[r].pc \in NeedsProvider => req[r].p \in Provider
  BY DEF IInv, RequestOK, CallOK
<1>. USE DEF IInv, At, Label, NeedsProvider, Journey
<1>1. CASE StartSearchInsert(r)
    BY <1>1, ReturnOK DEF StartSearchInsert
<1>2. CASE AcceptBidLock(r)
    BY <1>2, GotoOK DEF AcceptBidLock
<1>3. CASE AcceptBidRefuse(r)
    BY <1>3, ReturnOK DEF AcceptBidRefuse
<1>4. CASE AcceptBidStop(r)
    BY <1>4, GotoOK DEF AcceptBidStop
<1>5. CASE AcceptBidAssign(r)
    BY <1>5, GotoOK, ReturnOK DEF AcceptBidAssign
<1>6. CASE AcceptBidLose(r)
    BY <1>6, GotoOK DEF AcceptBidLose
<1>7. CASE AcceptBidUndo(r)
    BY <1>7, ReturnOK DEF AcceptBidUndo
<1>8. CASE ProviderCancelRefuse(r)
    BY <1>8, ReturnOK DEF ProviderCancelRefuse
<1>9. CASE ProviderCancelRelease(r)
    BY <1>9, GotoOK DEF ProviderCancelRelease
<1>10. CASE ProviderCancelReopen(r)
    BY <1>10, GotoOK DEF ProviderCancelReopen
<1>11. CASE ProviderCancelRespawn(r)
    BY <1>11, ReturnOK DEF ProviderCancelRespawn
<1>12. CASE AcceptOfferWin(r)
    BY <1>12, GotoOK DEF AcceptOfferWin
<1>13. CASE AcceptOfferLose(r)
    BY <1>13, ReturnOK DEF AcceptOfferLose
<1>14. CASE StopAllDiscovery(r)
    BY <1>14, GotoOK, ReturnOK DEF StopAllDiscovery
<1>15. CASE StopAllDiscoveryCleanup(r)
    BY <1>15, ReturnOK DEF StopAllDiscoveryCleanup
<1>16. CASE CancelServiceLock(r)
    BY <1>16, GotoOK DEF CancelServiceLock
<1>17. CASE CancelServiceWrite(r)
    BY <1>17, GotoOK DEF CancelServiceWrite
<1>18. CASE CancelServiceCleanup(r)
    BY <1>18, ReturnOK DEF CancelServiceCleanup
<1>19. CASE CancelSearchingLock(r)
    BY <1>19, GotoOK DEF CancelSearchingLock
<1>20. CASE CancelSearchingWrite(r)
    BY <1>20, ReturnOK DEF CancelSearchingWrite
<1>21. CASE HandleProviderTimeoutRelease(r)
    BY <1>21, GotoOK DEF HandleProviderTimeoutRelease
<1>22. CASE HandleProviderTimeoutWrite(r)
    BY <1>22, ReturnOK DEF HandleProviderTimeoutWrite
<1>23. CASE AssignmentCronRelease(r)
    BY <1>23, GotoOK DEF AssignmentCronRelease
<1>24. CASE AssignmentCronWrite(r)
    BY <1>24, ReturnOK DEF AssignmentCronWrite
<1>25. CASE GoOfflineDrop(r)
    BY <1>25, GotoOK DEF GoOfflineDrop
<1>26. CASE GoOfflineClear(r)
    BY <1>26, ReturnOK DEF GoOfflineClear
<1>27. CASE UpdateStatusSettle(r)
    BY <1>27, GotoOK DEF UpdateStatusSettle
<1>28. CASE UpdateStatusWrite(r)
    BY <1>28, ReturnOK DEF UpdateStatusWrite
<1>29. CASE PaymentSuccessLoad(r)
  <2>1. CASE Orphaned(req[r].s)
    <3>1. req[r].s \in Service /\ former[req[r].s] \in Provider
        BY <1>29, <2>1 DEF PaymentSuccessLoad, Orphaned, StateType
    <3>2. Enter(r, "paid_orphan", req[r].s, former[req[r].s])
        BY <1>29, <2>1 DEF PaymentSuccessLoad
    <3> QED BY <3>1, <3>2, EnterOK
  <2>2. CASE ~Orphaned(req[r].s)
    BY <1>29, <2>2, ReturnOK DEF PaymentSuccessLoad
  <2> QED BY <2>1, <2>2
<1>30. CASE GoOfflineUnlock(r)
    BY <1>30, GotoOK DEF GoOfflineUnlock
<1>31. CASE UpdateStatusFree(r)
    BY <1>31, GotoOK DEF UpdateStatusFree
<1>32. CASE UpdateStatusUnlock(r)
    BY <1>32, GotoOK, ReturnOK DEF UpdateStatusUnlock
<1> QED BY <1>1, <1>2, <1>3, <1>4, <1>5, <1>6, <1>7, <1>8, <1>9, <1>10, <1>11, <1>12, 
          <1>13, <1>14, <1>15, <1>16, <1>17, <1>18, <1>19, <1>20, <1>21, <1>22, <1>23, 
          <1>24, <1>25, <1>26, <1>27, <1>28, <1>29, <1>30, <1>31, <1>32
    DEF Continue

LEMMA ContinueLife ==
    ASSUME IInv, NEW r \in Request, Continue(r)
    PROVE  LifeOK'
<1>. /\ req[r].pc \notin {"idle", "offline_clear"} => req[r].s \in Service
     /\ req[r].pc \in NeedsProvider => req[r].p \in Provider
     /\ req[r].pc \in Journey => req[r].to \notin {"absent", "searching", "searching_after_cancel"}
  BY Assumption DEF IInv, RequestOK, CallOK
<1>. USE DEF IInv, At, Label, NeedsProvider, Journey, LifeOK, PlaceOK, After, doc, tasks, past, money
<1>1. CASE StartSearchInsert(r)
    BY <1>1, ReturnOK DEF StartSearchInsert, StateType
<1>2. CASE AcceptBidLock(r)
    BY <1>2, GotoOK DEF AcceptBidLock, StateType
<1>3. CASE AcceptBidRefuse(r)
    BY <1>3, ReturnOK DEF AcceptBidRefuse, StateType
<1>4. CASE AcceptBidStop(r)
    BY <1>4, GotoOK DEF AcceptBidStop, StateType
<1>5. CASE AcceptBidAssign(r)
    BY <1>5, GotoOK, ReturnOK DEF AcceptBidAssign, StateType
<1>6. CASE AcceptBidLose(r)
    BY <1>6, GotoOK DEF AcceptBidLose, StateType
<1>7. CASE AcceptBidUndo(r)
    BY <1>7, ReturnOK DEF AcceptBidUndo, StateType
<1>8. CASE ProviderCancelRefuse(r)
    BY <1>8, ReturnOK DEF ProviderCancelRefuse, StateType
<1>9. CASE ProviderCancelRelease(r)
    BY <1>9, GotoOK DEF ProviderCancelRelease, StateType
<1>10. CASE ProviderCancelReopen(r)
    BY <1>10, GotoOK DEF ProviderCancelReopen, StateType
<1>11. CASE ProviderCancelRespawn(r)
    BY <1>11, ReturnOK DEF ProviderCancelRespawn, StateType
<1>12. CASE AcceptOfferWin(r)
    BY <1>12, GotoOK DEF AcceptOfferWin, StateType
<1>13. CASE AcceptOfferLose(r)
    BY <1>13, ReturnOK DEF AcceptOfferLose, StateType
<1>14. CASE StopAllDiscovery(r)
    BY <1>14, GotoOK, ReturnOK DEF StopAllDiscovery, StateType
<1>15. CASE StopAllDiscoveryCleanup(r)
    BY <1>15, ReturnOK DEF StopAllDiscoveryCleanup, StateType
<1>16. CASE CancelServiceLock(r)
    BY <1>16, GotoOK DEF CancelServiceLock, StateType
<1>17. CASE CancelServiceWrite(r)
    BY <1>17, GotoOK DEF CancelServiceWrite, StateType
<1>18. CASE CancelServiceCleanup(r)
    BY <1>18, ReturnOK DEF CancelServiceCleanup, StateType
<1>19. CASE CancelSearchingLock(r)
    BY <1>19, GotoOK DEF CancelSearchingLock, StateType
<1>20. CASE CancelSearchingWrite(r)
    BY <1>20, ReturnOK DEF CancelSearchingWrite, StateType
<1>21. CASE HandleProviderTimeoutRelease(r)
    BY <1>21, GotoOK DEF HandleProviderTimeoutRelease, StateType
<1>22. CASE HandleProviderTimeoutWrite(r)
    BY <1>22, ReturnOK DEF HandleProviderTimeoutWrite, StateType
<1>23. CASE AssignmentCronRelease(r)
    BY <1>23, GotoOK DEF AssignmentCronRelease, StateType
<1>24. CASE AssignmentCronWrite(r)
    BY <1>24, ReturnOK DEF AssignmentCronWrite, StateType
<1>25. CASE GoOfflineDrop(r)
    BY <1>25, GotoOK DEF GoOfflineDrop, StateType
<1>26. CASE GoOfflineClear(r)
    BY <1>26, ReturnOK DEF GoOfflineClear, StateType
<1>27. CASE UpdateStatusSettle(r)
    BY <1>27, GotoOK, ReturnOK DEF UpdateStatusSettle, StateType
<1>28. CASE UpdateStatusWrite(r)
    BY <1>28, ReturnOK DEF UpdateStatusWrite, StateType
<1>29. CASE PaymentSuccessLoad(r)
  <2>1. CASE Orphaned(req[r].s)
    <3>1. req[r].s \in Service /\ former[req[r].s] \in Provider
        BY <1>29, <2>1 DEF PaymentSuccessLoad, Orphaned, StateType
    <3>2. Enter(r, "paid_orphan", req[r].s, former[req[r].s])
        BY <1>29, <2>1 DEF PaymentSuccessLoad
    <3> QED BY <1>29, <3>1, <3>2, EnterOK DEF PaymentSuccessLoad
  <2>2. CASE ~Orphaned(req[r].s)
    BY <1>29, <2>2, ReturnOK DEF PaymentSuccessLoad
  <2> QED BY <2>1, <2>2
<1>30. CASE GoOfflineUnlock(r)
    BY <1>30, GotoOK DEF GoOfflineUnlock
<1>31. CASE UpdateStatusFree(r)
    BY <1>31, GotoOK DEF UpdateStatusFree
<1>32. CASE UpdateStatusUnlock(r)
    BY <1>32, GotoOK, ReturnOK DEF UpdateStatusUnlock
<1> QED BY <1>1, <1>2, <1>3, <1>4, <1>5, <1>6, <1>7, <1>8, <1>9, <1>10, <1>11, <1>12, 
          <1>13, <1>14, <1>15, <1>16, <1>17, <1>18, <1>19, <1>20, <1>21, <1>22, <1>23, 
          <1>24, <1>25, <1>26, <1>27, <1>28, <1>29, <1>30, <1>31, <1>32
    DEF Continue

-----------------------------------------------------------------------------
(* Calls *)

LEMMA BeginInv ==
    ASSUME IInv, NEW r \in Request, Begin(r)
    PROVE  IInv'
<1>. USE DEF IInv, Label, NeedsProvider, Journey, Starts, Exists
<1>1. ASSUME NEW s \in Service, StartSearch(r, s)
      PROVE  IInv'
  <2>1. /\ ReqType' /\ RequestOK'
        /\ req'[r].pc = "search_insert" /\ req'[r].s = s
        /\ \A q \in Request \ {r} : req'[q] = req[q]
    BY <1>1, EnterOK DEF StartSearch, StateType
  <2>2. StateType'
    BY <1>1 DEF StartSearch, StateType, doc, flags, fleet, tasks, money, past
  <2>3. LifeOK'
    BY <1>1, <2>1 DEF StartSearch, At, LifeOK, PlaceOK, After, doc, tasks, money, past
  <2> QED BY <2>1, <2>2, <2>3
<1>2. ASSUME NEW s \in Service, CancelService(r, s)
      PROVE  IInv'
  <2>1. /\ ReqType' /\ RequestOK'
        /\ req'[r].pc = "cancel_lock" /\ req'[r].s = s
        /\ \A q \in Request \ {r} : req'[q] = req[q]
    BY <1>2, EnterOK DEF CancelService, StateType
  <2>2. StateType'
    BY <1>2 DEF CancelService, StateType, doc, flags, fleet, tasks, money, past
  <2>3. LifeOK'
    BY <1>2, <2>1 DEF CancelService, LifeOK, PlaceOK, After, doc, tasks, money, past
  <2> QED BY <2>1, <2>2, <2>3
<1>3. ASSUME NEW s \in Service, CancelSearchingService(r, s)
      PROVE  IInv'
  <2>1. /\ ReqType' /\ RequestOK'
        /\ req'[r].pc = "abort_lock" /\ req'[r].s = s
        /\ \A q \in Request \ {r} : req'[q] = req[q]
    BY <1>3, EnterOK DEF CancelSearchingService, StateType
  <2>2. StateType'
    BY <1>3 DEF CancelSearchingService, StateType, doc, flags, fleet, tasks, money, past
  <2>3. LifeOK'
    BY <1>3, <2>1 DEF CancelSearchingService, LifeOK, PlaceOK, After, doc, tasks, money, past
  <2> QED BY <2>1, <2>2, <2>3
<1>4. ASSUME NEW s \in Service, SearchWatchdog(r, s)
      PROVE  IInv'
  <2>1. /\ ReqType' /\ RequestOK'
        /\ req'[r].pc = "abort_lock" /\ req'[r].s = s
        /\ \A q \in Request \ {r} : req'[q] = req[q]
    BY <1>4, EnterOK DEF SearchWatchdog, StateType
  <2>2. StateType'
    BY <1>4 DEF SearchWatchdog, StateType, doc, flags, fleet, tasks, money, past
  <2>3. LifeOK'
    BY <1>4, <2>1 DEF SearchWatchdog, LifeOK, PlaceOK, After, doc, tasks, money, past
  <2> QED BY <2>1, <2>2, <2>3
<1>5. ASSUME NEW s \in Service, HandleProviderTimeout(r, s)
      PROVE  IInv'
  <2>1. /\ ReqType' /\ RequestOK'
        /\ req'[r].pc = "timeout_release" /\ req'[r].s = s
        /\ \A q \in Request \ {r} : req'[q] = req[q]
    BY <1>5, EnterOK DEF HandleProviderTimeout, Stuck, StateType
  <2>2. StateType'
    BY <1>5 DEF HandleProviderTimeout, StateType, doc, flags, fleet, tasks, money, past
  <2>3. LifeOK'
    BY <1>5, <2>1 DEF HandleProviderTimeout, Stuck, LifeOK, PlaceOK, After, doc, tasks, money, past
  <2> QED BY <2>1, <2>2, <2>3
<1>6. ASSUME NEW s \in Service, AssignmentCron(r, s)
      PROVE  IInv'
  <2>1. /\ ReqType' /\ RequestOK'
        /\ req'[r].pc = "cron_release" /\ req'[r].s = s
        /\ \A q \in Request \ {r} : req'[q] = req[q]
    BY <1>6, EnterOK DEF AssignmentCron, Stuck, StateType
  <2>2. StateType'
    BY <1>6 DEF AssignmentCron, StateType, doc, flags, fleet, tasks, money, past
  <2>3. LifeOK'
    BY <1>6, <2>1 DEF AssignmentCron, Stuck, LifeOK, PlaceOK, After, doc, tasks, money, past
  <2> QED BY <2>1, <2>2, <2>3
<1>7. ASSUME NEW s \in Service, PaymentSuccess(r, s)
      PROVE  IInv'
  <2>1. /\ ReqType' /\ RequestOK'
        /\ req'[r].pc = "paid_load" /\ req'[r].s = s
        /\ \A q \in Request \ {r} : req'[q] = req[q]
    BY <1>7, EnterOK DEF PaymentSuccess, StateType
  <2>2. StateType'
    BY <1>7 DEF PaymentSuccess, StateType, doc, flags, fleet, tasks, money, past, Status, PaymentStatus
  <2>3. LifeOK'
    BY <1>7, <2>1 DEF PaymentSuccess, StateType, LifeOK, PlaceOK, After, doc, tasks, money, past
  <2> QED BY <2>1, <2>2, <2>3
<1>8. ASSUME NEW s \in Service, NEW p \in Provider, AcceptBid(r, s, p)
      PROVE  IInv'
  <2>1. /\ ReqType' /\ RequestOK'
        /\ req'[r].pc = "bid_lock" /\ req'[r].s = s
        /\ \A q \in Request \ {r} : req'[q] = req[q]
    BY <1>8, EnterOK DEF AcceptBid, StateType
  <2>2. StateType'
    BY <1>8 DEF AcceptBid, StateType, doc, flags, fleet, tasks, money, past
  <2>3. LifeOK'
    BY <1>8, <2>1 DEF AcceptBid, LifeOK, PlaceOK, After, doc, tasks, money, past
  <2> QED BY <2>1, <2>2, <2>3
<1>9. ASSUME NEW s \in Service, NEW p \in Provider, ProviderCancelService(r, s, p)
      PROVE  IInv'
  <2>1. /\ ReqType' /\ RequestOK'
        /\ req'[r].pc = "withdraw_release" /\ req'[r].s = s
        /\ \A q \in Request \ {r} : req'[q] = req[q]
    BY <1>9, EnterOK DEF ProviderCancelService, At, StateType
  <2>2. StateType'
    BY <1>9 DEF ProviderCancelService, StateType, doc, flags, fleet, tasks, money, past
  <2>3. LifeOK'
    BY <1>9, <2>1 DEF ProviderCancelService, At, StateType, LifeOK, PlaceOK, After, doc, tasks, money, past
  <2> QED BY <2>1, <2>2, <2>3
<1>10. ASSUME NEW s \in Service, NEW p \in Provider, AcceptOffer(r, s, p)
      PROVE  IInv'
  <2>1. /\ ReqType' /\ RequestOK'
        /\ req'[r].pc = "offer_claim" /\ req'[r].s = s
        /\ \A q \in Request \ {r} : req'[q] = req[q]
    BY <1>10, EnterOK DEF AcceptOffer, StateType
  <2>2. StateType'
    BY <1>10 DEF AcceptOffer, StateType, doc, flags, fleet, tasks, money, past
  <2>3. LifeOK'
    BY <1>10, <2>1 DEF AcceptOffer, LifeOK, PlaceOK, After, doc, tasks, money, past
  <2> QED BY <2>1, <2>2, <2>3
<1>11. ASSUME NEW s \in Service, NEW to \in JourneyInput, UpdateStatus(r, s, to)
      PROVE  IInv'
  <2>1. /\ ReqType'
        /\ req'[r].pc \in Journey /\ req'[r].s = s /\ req'[r].to = to
        /\ \A q \in Request \ {r} : req'[q] = req[q]
    BY <1>11, Assumption DEF UpdateStatus, ReqType, Call, StateType
  <2>2. RequestOK'
    BY <2>1 DEF RequestOK, CallOK
  <2>3. StateType'
    BY <1>11 DEF UpdateStatus, StateType, doc, flags, fleet, tasks, money, past
  <2>4. LifeOK'
    BY <1>11, <2>1 DEF UpdateStatus, LifeOK, PlaceOK, After, doc, tasks, money, past
  <2> QED BY <2>1, <2>2, <2>3, <2>4
<1>12. ASSUME NEW p \in Provider, GoOffline(r, p)
      PROVE  IInv'
  <2>1. PICK s \in Service \union {NoService}, label \in {"offline_drop", "offline_unlock", "offline_clear"} :
          /\ s = NoService => label = "offline_clear"
          /\ s \in Service => provider[s] = p
          /\ Enter(r, label, s, p)
    BY <1>12, Assumption DEF GoOffline, ActiveServices
  <2>2. /\ ReqType' /\ RequestOK'
        /\ req'[r].pc = label /\ req'[r].s = s
        /\ \A q \in Request \ {r} : req'[q] = req[q]
    BY <2>1, EnterOK
  <2>3. StateType'
    BY <1>12 DEF GoOffline, StateType, doc, flags, fleet, tasks, money, past
  <2>4. label # "offline_clear" => s \in Service /\ status[s] # "absent"
    BY <2>1, Assumption DEF LifeOK
  <2>5. LifeOK'
    BY <1>12, <2>1, <2>2, <2>4 DEF GoOffline, LifeOK, PlaceOK, After, doc, tasks, money, past
  <2> QED BY <2>2, <2>3, <2>5
<1> QED BY <1>1, <1>2, <1>3, <1>4, <1>5, <1>6, <1>7, <1>8, <1>9, <1>10, <1>11, <1>12 DEF Begin

-----------------------------------------------------------------------------
(* Goroutines, single round trips, expiry and crashes *)

LEMMA StoreFailsInv ==
    ASSUME IInv, NEW r \in Request, StoreFails(r)
    PROVE  IInv'
<1>. ReqType /\ RequestOK /\ StateType
    BY DEF IInv
<1>1. UNCHANGED <<doc, flags, fleet, tasks, money, past>>
    BY DEF StoreFails
<1>2. StateType'
    BY <1>1 DEF StateType, doc, flags, fleet, tasks, money, past
<1>3. CASE Return(r)
  <2>1. /\ ReqType' /\ RequestOK'
        /\ req'[r].pc = "idle" /\ \A q \in Request \ {r} : req'[q] = req[q]
    BY <1>3, ReturnOK
  <2>2. LifeOK'
    BY <1>1, <2>1 DEF IInv, LifeOK, PlaceOK, After, doc, tasks, money, past
  <2> QED BY <1>2, <2>1, <2>2 DEF IInv
<1>4. CASE At(r, "offline_drop") /\ Goto(r, "offline_unlock")
  <2>1. /\ ReqType' /\ RequestOK'
        /\ req'[r].pc = "offline_unlock" /\ req'[r].s = req[r].s
        /\ \A q \in Request \ {r} : req'[q] = req[q]
    BY <1>4, GotoOK DEF At, Label, NeedsProvider, Journey
  <2>2. LifeOK'
    BY <1>1, <1>4, <2>1 DEF IInv, At, LifeOK, PlaceOK, After, doc, tasks, money, past
  <2> QED BY <1>2, <2>1, <2>2 DEF IInv
<1> QED BY <1>3, <1>4 DEF StoreFails

LEMMA OtherInv ==
    ASSUME IInv,
           \/ \E s \in Service :
                 \/ SearchRound(s) \/ FixedPriceExit(s) \/ Minutes(s) \/ UpdateLiveLocation(s)
                 \/ InitiatePayment(s) \/ PaymentFailure(s) \/ LockExpires(s) \/ StopExpires(s)
           \/ \E p \in Provider : GoOnline(p) \/ BusyExpires(p)
           \/ Crash
           \/ UNCHANGED vars
    PROVE  IInv'
<1>. USE DEF IInv, StateType, ReqType, RequestOK, CallOK, LifeOK, PlaceOK, doc, flags, fleet, tasks, money, past
<1>1. ASSUME NEW s \in Service, FindProvidersExit(s)
      PROVE  IInv'
  <2>1. StateType'
    BY <1>1 DEF FindProvidersExit
  <2>2. UNCHANGED req /\ ReqType' /\ RequestOK'
    BY <1>1 DEF FindProvidersExit
  <2>3. LifeOK'
    BY <1>1, <2>2 DEF FindProvidersExit, After
  <2> QED BY <2>1, <2>2, <2>3
<1>2. ASSUME NEW s \in Service, FindProvidersExpire(s)
      PROVE  IInv'
  <2>1. StateType'
    BY <1>2 DEF FindProvidersExpire
  <2>2. UNCHANGED req /\ ReqType' /\ RequestOK'
    BY <1>2 DEF FindProvidersExpire
  <2>3. LifeOK'
    BY <1>2, <2>2 DEF FindProvidersExpire, After
  <2> QED BY <2>1, <2>2, <2>3
<1>3. ASSUME NEW s \in Service, FindProvidersCancel(s)
      PROVE  IInv'
  <2>1. StateType'
    BY <1>3 DEF FindProvidersCancel, Status, PaymentStatus
  <2>2. ReqType' /\ RequestOK' /\ LifeOK'
    BY <1>3 DEF FindProvidersCancel, After
  <2> QED BY <2>1, <2>2
<1>4. ASSUME NEW s \in Service, FixedPriceExit(s)
      PROVE  IInv'
  <2>1. StateType'
    BY <1>4 DEF FixedPriceExit
  <2>2. UNCHANGED req /\ ReqType' /\ RequestOK'
    BY <1>4 DEF FixedPriceExit
  <2>3. LifeOK'
    BY <1>4, <2>2 DEF FixedPriceExit, After
  <2> QED BY <2>1, <2>2, <2>3
<1>5. ASSUME NEW s \in Service, Minutes(s)
      PROVE  IInv'
  <2>1. StateType'
    BY <1>5 DEF Minutes
  <2>2. UNCHANGED req /\ ReqType' /\ RequestOK'
    BY <1>5 DEF Minutes
  <2>3. LifeOK'
    BY <1>5, <2>2 DEF Minutes, After
  <2> QED BY <2>1, <2>2, <2>3
<1>6. ASSUME NEW s \in Service, UpdateLiveLocation(s)
      PROVE  IInv'
  <2>1. StateType'
    BY <1>6 DEF UpdateLiveLocation
  <2>2. UNCHANGED req /\ ReqType' /\ RequestOK'
    BY <1>6 DEF UpdateLiveLocation
  <2>3. LifeOK'
    BY <1>6, <2>2 DEF UpdateLiveLocation, After
  <2> QED BY <2>1, <2>2, <2>3
<1>7. ASSUME NEW s \in Service, InitiatePayment(s)
      PROVE  IInv'
  <2>1. StateType'
    BY <1>7 DEF InitiatePayment
  <2>2. UNCHANGED req /\ ReqType' /\ RequestOK'
    BY <1>7 DEF InitiatePayment
  <2>3. LifeOK'
    BY <1>7, <2>2, Assumption DEF InitiatePayment, After
  <2> QED BY <2>1, <2>2, <2>3
<1>8. ASSUME NEW s \in Service, PaymentFailure(s)
      PROVE  IInv'
  <2>1. StateType'
    BY <1>8 DEF PaymentFailure, Status, PaymentStatus
  <2>2. ReqType' /\ RequestOK' /\ LifeOK'
    BY <1>8 DEF PaymentFailure, After
  <2> QED BY <2>1, <2>2
<1>9. ASSUME NEW s \in Service, LockExpires(s)
      PROVE  IInv'
  <2>1. StateType'
    BY <1>9 DEF LockExpires
  <2>2. UNCHANGED req /\ ReqType' /\ RequestOK'
    BY <1>9 DEF LockExpires
  <2>3. LifeOK'
    BY <1>9, <2>2 DEF LockExpires, After
  <2> QED BY <2>1, <2>2, <2>3
<1>10. ASSUME NEW s \in Service, StopExpires(s)
      PROVE  IInv'
  <2>1. StateType'
    BY <1>10 DEF StopExpires
  <2>2. UNCHANGED req /\ ReqType' /\ RequestOK'
    BY <1>10 DEF StopExpires
  <2>3. LifeOK'
    BY <1>10, <2>2 DEF StopExpires, After
  <2> QED BY <2>1, <2>2, <2>3
<1>11. ASSUME NEW p \in Provider, GoOnline(p)
      PROVE  IInv'
    BY <1>11 DEF GoOnline
<1>12. ASSUME NEW p \in Provider, BusyExpires(p)
      PROVE  IInv'
    BY <1>12 DEF BusyExpires
<1>13. CASE Crash
    BY <1>13 DEF Crash, Idle, Call, Label, Status, NeedsProvider, Journey, After, Holding
<1>14. CASE UNCHANGED vars
    BY <1>14 DEF vars
<1> QED BY <1>1, <1>2, <1>3, <1>4, <1>5, <1>6, <1>7, <1>8, <1>9, <1>10, <1>11, <1>12, 
          <1>13, <1>14 DEF SearchRound

LEMMA InitInv == Init => IInv
<1>. SUFFICES ASSUME Init PROVE IInv
    OBVIOUS
<1>. USE DEF Init
<1>1. StateType
    BY DEF StateType, Status, PaymentStatus
<1>2. ReqType /\ \A r \in Request : req[r].pc = "idle"
    BY DEF ReqType, Idle, Call, Label, Status
<1>3. RequestOK /\ LifeOK
    BY <1>2 DEF RequestOK, CallOK, LifeOK, PlaceOK, After, NeedsProvider, Journey
<1> QED BY <1>1, <1>2, <1>3 DEF IInv

LEMMA StepInv == IInv /\ [Next]_vars => IInv'
<1>. SUFFICES ASSUME IInv, [Next]_vars PROVE IInv'
    OBVIOUS
<1>1. ASSUME NEW r \in Request, Begin(r) PROVE IInv'
    BY <1>1, BeginInv
<1>2. ASSUME NEW r \in Request, Continue(r) PROVE IInv'
    BY <1>2, ContinueType, ContinueRequest, ContinueLife DEF IInv
<1> QED BY <1>1, <1>2, StoreFailsInv, OtherInv DEF Next

\* The inductive invariant holds in every state.
THEOREM Inductive == Spec => []IInv
BY InitInv, StepInv, PTL DEF Spec

\* Every variable keeps its type; in particular a request in flight always carries the
\* booking and the mechanic that its next round trip needs.
THEOREM TypeCorrect == Spec => []TypeOK
<1>1. IInv => TypeOK
    BY DEF IInv, StateType, ReqType, TypeOK
<1> QED BY <1>1, Inductive, PTL

-----------------------------------------------------------------------------
(* Blocked mechanics *)

\* a step that blocks nobody, forgets no award and interrupts no accept
Harmless ==
    /\ \A p \in Provider : busy'[p] \in {busy[p], NoService}
    /\ \A s \in Service : held[s] \subseteq held'[s]
    /\ lost \subseteq lost'
    /\ \A r \in Request : Holding(r) => Holding(r)' /\ req'[r].p = req[r].p /\ req'[r].s = req[r].s

LEMMA HarmlessBusy ==
    ASSUME StateType, BusyTraceable, Harmless
    PROVE  BusyTraceable'
BY Assumption DEF StateType, BusyTraceable, Harmless

LEMMA BeginHarmless ==
    ASSUME IInv, NEW r \in Request, Begin(r)
    PROVE  Harmless
<1>1. UNCHANGED <<busy, held, lost>>
    BY DEF Begin, StartSearch, CancelService, CancelSearchingService, SearchWatchdog, 
          HandleProviderTimeout, AssignmentCron, PaymentSuccess, AcceptBid, 
          ProviderCancelService, AcceptOffer, UpdateStatus, GoOffline,
           fleet, past
<1>2. \A q \in Request \ {r} : req'[q] = req[q]
    BY DEF Begin, StartSearch, CancelService, CancelSearchingService, SearchWatchdog, 
          HandleProviderTimeout, AssignmentCron, PaymentSuccess, AcceptBid, 
          ProviderCancelService, AcceptOffer, UpdateStatus, GoOffline,
           Enter, IInv, ReqType
<1>3. ~Holding(r)
    BY DEF Begin, StartSearch, CancelService, CancelSearchingService, SearchWatchdog, 
          HandleProviderTimeout, AssignmentCron, PaymentSuccess, AcceptBid, 
          ProviderCancelService, AcceptOffer, UpdateStatus, GoOffline,
           Starts, At, Holding
<1> QED BY <1>1, <1>2, <1>3 DEF Harmless, Holding, IInv, StateType

LEMMA ContinueHarmless ==
    ASSUME IInv, NEW r \in Request, Continue(r), ~Holding(r), ~AcceptBidLock(r)
    PROVE  Harmless
<1>1. busy' = busy \/ busy' = Freed(req[r].p)
    BY DEF Continue, Holding, At, fleet,
           StartSearchInsert, AcceptBidLock, AcceptBidRefuse, AcceptBidStop,
          AcceptBidAssign, AcceptBidLose, AcceptBidUndo, ProviderCancelRefuse,
          ProviderCancelRelease, ProviderCancelReopen, ProviderCancelRespawn,
          AcceptOfferWin, AcceptOfferLose, StopAllDiscovery, StopAllDiscoveryCleanup,
          CancelServiceLock, CancelServiceWrite, CancelServiceCleanup,
          CancelSearchingLock, CancelSearchingWrite, HandleProviderTimeoutRelease,
          HandleProviderTimeoutWrite, AssignmentCronRelease, AssignmentCronWrite,
          GoOfflineDrop, GoOfflineUnlock, GoOfflineClear, UpdateStatusSettle,
          UpdateStatusFree, UpdateStatusUnlock, UpdateStatusWrite,
          PaymentSuccessLoad
<1>2. /\ \A s \in Service : held[s] \subseteq held'[s]
      /\ lost' = lost
  <2>1. UNCHANGED past \/ AcceptOfferWin(r) \/ AcceptBidAssign(r)
    BY DEF Continue,
           StartSearchInsert, AcceptBidLock, AcceptBidRefuse, AcceptBidStop,
          AcceptBidLose, AcceptBidUndo, ProviderCancelRefuse,
          ProviderCancelRelease, ProviderCancelReopen, ProviderCancelRespawn,
          AcceptOfferLose, StopAllDiscovery, StopAllDiscoveryCleanup,
          CancelServiceLock, CancelServiceWrite, CancelServiceCleanup,
          CancelSearchingLock, CancelSearchingWrite, HandleProviderTimeoutRelease,
          HandleProviderTimeoutWrite, AssignmentCronRelease, AssignmentCronWrite,
          GoOfflineDrop, GoOfflineUnlock, GoOfflineClear, UpdateStatusSettle,
          UpdateStatusFree, UpdateStatusUnlock, UpdateStatusWrite,
          PaymentSuccessLoad
  <2>2. CASE UNCHANGED past
    BY <2>2 DEF past
  <2>3. CASE AcceptOfferWin(r)
    BY <2>3 DEF AcceptOfferWin, IInv, StateType
  <2>4. CASE AcceptBidAssign(r)
    BY <2>4 DEF AcceptBidAssign, At, Holding
  <2> QED BY <2>1, <2>2, <2>3, <2>4
<1>3. \A p \in Provider : busy'[p] \in {busy[p], NoService}
    BY <1>1 DEF Freed
<1>4. \A q \in Request \ {r} : req'[q] = req[q]
    BY DEF Continue, Enter, Goto, Return, IInv, ReqType,
           StartSearchInsert, AcceptBidLock, AcceptBidRefuse, AcceptBidStop, 
          AcceptBidAssign, AcceptBidLose, AcceptBidUndo, ProviderCancelRefuse, 
          ProviderCancelRelease, ProviderCancelReopen, ProviderCancelRespawn, 
          AcceptOfferWin, AcceptOfferLose, StopAllDiscovery, StopAllDiscoveryCleanup, 
          CancelServiceLock, CancelServiceWrite, CancelServiceCleanup, 
          CancelSearchingLock, CancelSearchingWrite, HandleProviderTimeoutRelease, 
          HandleProviderTimeoutWrite, AssignmentCronRelease, AssignmentCronWrite, 
          GoOfflineDrop, GoOfflineUnlock, GoOfflineClear, UpdateStatusSettle,
          UpdateStatusFree, UpdateStatusUnlock, UpdateStatusWrite, 
          PaymentSuccessLoad
<1> QED BY <1>2, <1>3, <1>4 DEF Harmless, Holding

\* the four round trips of AcceptBid that hold the two keys, and the one that takes them
LEMMA AcceptBidBusy ==
    ASSUME IInv, BusyTraceable, NEW r \in Request,
           \/ AcceptBidLock(r) \/ AcceptBidStop(r) \/ AcceptBidAssign(r)
           \/ AcceptBidLose(r) \/ AcceptBidUndo(r)
    PROVE  BusyTraceable'
<1>. /\ req[r].s \in Service /\ req[r].p \in Provider
  BY DEF IInv, RequestOK, CallOK, NeedsProvider, At, AcceptBidLock, AcceptBidStop, AcceptBidAssign,
         AcceptBidLose, AcceptBidUndo
<1>. USE DEF IInv, StateType, ReqType, Call, At, Goto, Return, Idle, fleet, past
<1>1. \A q \in Request \ {r} : req'[q] = req[q]
    BY DEF AcceptBidLock, AcceptBidStop, AcceptBidAssign, AcceptBidLose, AcceptBidUndo
<1>2. CASE AcceptBidLock(r)
  <2>1. /\ req'[r].pc = "bid_stop" /\ req'[r].p = req[r].p /\ req'[r].s = req[r].s
        /\ busy' = [busy EXCEPT ![req[r].p] = req[r].s] /\ UNCHANGED <<held, lost>>
    BY <1>2 DEF AcceptBidLock
  <2>2. ~Holding(r)
    BY <1>2 DEF AcceptBidLock, Holding
  <2> QED BY <1>1, <2>1, <2>2 DEF BusyTraceable, Holding
<1>3. CASE AcceptBidStop(r)
    BY <1>1, <1>3, HarmlessBusy DEF AcceptBidStop, Harmless, Holding
<1>4. CASE AcceptBidLose(r)
    BY <1>1, <1>4, HarmlessBusy DEF AcceptBidLose, Harmless, Holding
<1>5. CASE AcceptBidAssign(r)
  <2>1. /\ req[r].p \in held'[req[r].s] /\ \A s \in Service : held[s] \subseteq held'[s]
        /\ UNCHANGED <<busy, lost>>
    BY <1>5 DEF AcceptBidAssign
  <2> QED BY <1>1, <2>1 DEF BusyTraceable, Holding
<1>6. CASE AcceptBidUndo(r)
  <2>1. /\ \A p \in Provider : busy'[p] = IF p = req[r].p THEN NoService ELSE busy[p]
        /\ UNCHANGED <<held, lost>>
    BY <1>6 DEF AcceptBidUndo, Freed
  <2>2. SUFFICES ASSUME NEW p \in Provider, NEW s \in Service, busy'[p] = s
                 PROVE  \/ p \in held[s] \/ <<p, s>> \in lost
                        \/ \E q \in Request : Holding(q)' /\ req'[q].p = p /\ req'[q].s = s
    BY <2>1 DEF BusyTraceable
  <2>3. p # req[r].p /\ busy[p] = s
    BY <2>1, <2>2, Assumption
  <2> QED BY <1>1, <2>3 DEF BusyTraceable, Holding
<1> QED BY <1>2, <1>3, <1>4, <1>5, <1>6

LEMMA CrashBusy ==
    ASSUME IInv, BusyTraceable, Crash
    PROVE  BusyTraceable'
<1>1. UNCHANGED <<busy, held>> /\ lost \subseteq lost'
    BY DEF Crash, fleet
<1>2. \A r \in Request : Holding(r) => <<req[r].p, req[r].s>> \in lost'
    BY DEF Crash
<1> QED BY <1>1, <1>2 DEF BusyTraceable, IInv, StateType

LEMMA BusyStep == IInv /\ BusyTraceable /\ [Next]_vars => BusyTraceable'
<1>. SUFFICES ASSUME IInv, BusyTraceable, [Next]_vars PROVE BusyTraceable'
    OBVIOUS
<1>. StateType
    BY DEF IInv
<1>1. ASSUME NEW r \in Request, Begin(r) PROVE BusyTraceable'
    BY <1>1, BeginHarmless, HarmlessBusy
<1>2. ASSUME NEW r \in Request, Continue(r) PROVE BusyTraceable'
  <2>1. CASE Holding(r) \/ AcceptBidLock(r)
    <3>1. \/ AcceptBidLock(r) \/ AcceptBidStop(r) \/ AcceptBidAssign(r)
          \/ AcceptBidLose(r) \/ AcceptBidUndo(r)
        BY <1>2, <2>1 DEF Continue, Holding, At,
           StartSearchInsert, AcceptBidRefuse, ProviderCancelRefuse, 
          ProviderCancelRelease, ProviderCancelReopen, ProviderCancelRespawn, 
          AcceptOfferWin, AcceptOfferLose, StopAllDiscovery, StopAllDiscoveryCleanup, 
          CancelServiceLock, CancelServiceWrite, CancelServiceCleanup, 
          CancelSearchingLock, CancelSearchingWrite, HandleProviderTimeoutRelease, 
          HandleProviderTimeoutWrite, AssignmentCronRelease, AssignmentCronWrite, 
          GoOfflineDrop, GoOfflineUnlock, GoOfflineClear, UpdateStatusSettle,
          UpdateStatusFree, UpdateStatusUnlock, UpdateStatusWrite, 
          PaymentSuccessLoad
    <3> QED BY <3>1, AcceptBidBusy
  <2>2. CASE ~Holding(r) /\ ~AcceptBidLock(r)
    BY <1>2, <2>2, ContinueHarmless, HarmlessBusy
  <2> QED BY <2>1, <2>2
<1>3. CASE Crash
    BY <1>3, CrashBusy
<1>4. ASSUME \/ \E s \in Service :
                  \/ SearchRound(s) \/ FixedPriceExit(s) \/ Minutes(s) \/ UpdateLiveLocation(s)
                  \/ InitiatePayment(s) \/ PaymentFailure(s) \/ LockExpires(s) \/ StopExpires(s)
             \/ \E p \in Provider : GoOnline(p) \/ BusyExpires(p)
             \/ UNCHANGED vars
      PROVE  BusyTraceable'
  <2>1. Harmless
    BY <1>4 DEF Harmless, Holding, IInv, StateType, SearchRound, FindProvidersExit, FindProvidersExpire, FindProvidersCancel, FixedPriceExit, 
          Minutes, UpdateLiveLocation, InitiatePayment, PaymentFailure, LockExpires, 
          StopExpires, GoOnline, BusyExpires,
           fleet, past, vars
  <2> QED BY <2>1, HarmlessBusy
<1>5. ASSUME NEW r \in Request, StoreFails(r) PROVE BusyTraceable'
  <2>1. Harmless
    BY <1>5 DEF StoreFails, Harmless, Holding, At, Goto, Return, IInv, StateType, ReqType, fleet, past
  <2> QED BY <2>1, HarmlessBusy
<1> QED BY <1>1, <1>2, <1>3, <1>4, <1>5 DEF Next

\* A mechanic is blocked by provider:busy only on account of an award, of an accept in
\* flight, or of one that died with its process: a failed AcceptBid takes its block back.
THEOREM BlockedForAReason == Spec => []BusyTraceable
<1>1. Init => BusyTraceable
  <2>1. ASSUME busy = [p \in Provider |-> NoService], NEW p \in Provider, NEW s \in Service
        PROVE  busy[p] # s
    BY <2>1, Assumption
  <2> QED BY <2>1 DEF Init, BusyTraceable
<1> QED BY <1>1, BusyStep, Inductive, PTL DEF Spec

-----------------------------------------------------------------------------
(* What the timeout workers see *)

LEMMA WaitingStep == IInv /\ WaitingIsUnpaid /\ [Next]_vars => WaitingIsUnpaid'
<1>. SUFFICES ASSUME IInv, WaitingIsUnpaid, [Next]_vars PROVE WaitingIsUnpaid'
    OBVIOUS
<1>. USE DEF IInv, StateType, WaitingIsUnpaid
<1>1. ASSUME NEW r \in Request, Begin(r) PROVE WaitingIsUnpaid'
    BY <1>1 DEF Begin, doc,
           StartSearch, CancelService, CancelSearchingService, SearchWatchdog, 
          HandleProviderTimeout, AssignmentCron, PaymentSuccess, AcceptBid, 
          ProviderCancelService, AcceptOffer, UpdateStatus, GoOffline
<1>2. ASSUME NEW r \in Request, Continue(r) PROVE WaitingIsUnpaid'
  <2>1. req[r].pc \in Journey => req[r].to # "provider_assigned"
    BY Assumption DEF RequestOK, CallOK
  <2> QED BY <1>2, <2>1 DEF Continue, At, Journey, doc,
           StartSearchInsert, AcceptBidLock, AcceptBidRefuse, AcceptBidStop, 
          AcceptBidAssign, AcceptBidLose, AcceptBidUndo, ProviderCancelRefuse, 
          ProviderCancelRelease, ProviderCancelReopen, ProviderCancelRespawn, 
          AcceptOfferWin, AcceptOfferLose, StopAllDiscovery, StopAllDiscoveryCleanup, 
          CancelServiceLock, CancelServiceWrite, CancelServiceCleanup, 
          CancelSearchingLock, CancelSearchingWrite, HandleProviderTimeoutRelease, 
          HandleProviderTimeoutWrite, AssignmentCronRelease, AssignmentCronWrite, 
          GoOfflineDrop, GoOfflineUnlock, GoOfflineClear, UpdateStatusSettle,
          UpdateStatusFree, UpdateStatusUnlock, UpdateStatusWrite, 
          PaymentSuccessLoad
<1> QED BY <1>1, <1>2 DEF Next, SearchRound, Crash, StoreFails, vars, doc,
           FindProvidersExit, FindProvidersExpire, FindProvidersCancel, FixedPriceExit, 
          Minutes, UpdateLiveLocation, InitiatePayment, PaymentFailure, LockExpires, 
          StopExpires, GoOnline, BusyExpires

\* The status by which both timeout workers choose their victims implies that nobody has
\* paid, so the cron, which does not look at paymentStatus, starts with no paid booking.
THEOREM VictimsUnpaid == Spec => []WaitingIsUnpaid
<1>1. Init => WaitingIsUnpaid
    BY DEF Init, WaitingIsUnpaid
<1> QED BY <1>1, WaitingStep, Inductive, PTL DEF Spec

-----------------------------------------------------------------------------
(* The abstract award *)

\* the abstract phases change with the statuses
LEMMA PhaseMoves ==
    ASSUME StateType, NEW s \in Service, NEW x \in Status, status' = [status EXCEPT ![s] = x]
    PROVE  [t \in Service |-> Phase(status[t])]'
             = [[t \in Service |-> Phase(status[t])] EXCEPT ![s] = Phase(x)]
BY DEF StateType

LEMMA Closes ==
    ASSUME StateType, NEW s \in Service, status[s] # "absent", UNCHANGED provider,
           NEW x \in Status \ {"absent", "searching", "searching_after_cancel"},
           status' = [status EXCEPT ![s] = x]
    PROVE  Abstract!Close(s)
<1>1. Phase(x) = "taken" /\ Phase(status[s]) # "none"
    BY DEF Phase
<1>2. provider' = [provider EXCEPT ![s] = provider[s]]
    BY DEF StateType
<1> QED BY <1>1, <1>2, PhaseMoves DEF Abstract!Close, Abstract!Move

\* a mechanic leaves; the booking stays what it is, or is over
LEMMA Withdraws ==
    ASSUME IInv, NEW s \in Service, status[s] # "absent",
           NEW x \in Status, status' = [status EXCEPT ![s] = x], Phase(x) = "taken",
           provider' = [provider EXCEPT ![s] = NoProvider]
    PROVE  Abstract!Close(s) \/ Abstract!Withdraw(s)
<1>1. CASE Phase(status[s]) = "taken"
    BY <1>1, PhaseMoves DEF IInv, Abstract!Withdraw, Abstract!Move
<1>2. CASE Phase(status[s]) # "taken"
  <2>1. Phase(status[s]) # "none" /\ provider[s] = NoProvider
    BY <1>2 DEF Phase, IInv, LifeOK
  <2> QED BY <2>1, PhaseMoves DEF IInv, Abstract!Close, Abstract!Move
<1> QED BY <1>1, <1>2

LEMMA ContinueAward ==
    ASSUME IInv, NEW r \in Request, Continue(r)
    PROVE  [Abstract!Next]_(Abstract!vars)
<1>. DEFINE s == req[r].s
            p == req[r].p
<1>. /\ req[r].pc \notin {"idle", "offline_clear"} => s \in Service
     /\ req[r].pc \in NeedsProvider => p \in Provider
     /\ req[r].pc \in Journey
          => req[r].to \in Status \ {"absent", "searching", "searching_after_cancel"}
     /\ req[r].pc \in {"cancel_write", "abort_write", "timeout_write", "cron_write",
                       "offline_drop", "journey_write", "withdraw_reopen"}
          => status[s] # "absent"
  BY Assumption DEF IInv, RequestOK, CallOK, LifeOK, PlaceOK
<1>. StateType
  BY DEF IInv
<1>. USE DEF At
<1>1. CASE StartSearchInsert(r)
  <2>1. s \in Service /\ status[s] = "absent" /\ provider[s] = NoProvider
    BY <1>1 DEF StartSearchInsert, IInv, LifeOK, PlaceOK
  <2>2. status' = [status EXCEPT ![s] = "searching"] /\ provider' = [provider EXCEPT ![s] = NoProvider]
    BY <1>1, <2>1 DEF StartSearchInsert, StateType
  <2>3. Phase(status[s]) = "none" /\ Phase("searching") = "open"
    BY <2>1 DEF Phase
  <2>4. Abstract!Open(s)
    BY <2>1, <2>2, <2>3, PhaseMoves DEF Abstract!Open, Abstract!Move, Status
  <2> QED BY <2>1, <2>4 DEF Abstract!Next
<1>2. CASE AcceptBidAssign(r)
  <2>1. /\ s \in Service /\ p \in Provider /\ status[s] = "searching" /\ provider[s] = NoProvider
        /\ status' = [status EXCEPT ![s] = "provider_assigned"] /\ provider' = [provider EXCEPT ![s] = p]
    BY <1>2 DEF AcceptBidAssign, Unassigned, NeedsProvider
  <2>2. Phase(status[s]) = "open" /\ Phase("provider_assigned") = "taken"
    BY <2>1 DEF Phase
  <2>3. Abstract!Award(s, p)
    BY <2>1, <2>2, PhaseMoves DEF Abstract!Award, Abstract!Move, Status
  <2> QED BY <2>1, <2>3 DEF Abstract!Next
<1>3. CASE AcceptOfferWin(r)
  <2>1. /\ s \in Service /\ p \in Provider /\ status[s] = "searching_after_cancel"
        /\ status' = [status EXCEPT ![s] = "confirmed"] /\ provider' = [provider EXCEPT ![s] = p]
    BY <1>3 DEF AcceptOfferWin, NeedsProvider
  <2>2. Phase(status[s]) = "offered" /\ Phase("confirmed") = "taken" /\ provider[s] = NoProvider
    BY <2>1 DEF Phase, IInv, LifeOK
  <2>3. Abstract!Award(s, p)
    BY <2>1, <2>2, PhaseMoves DEF Abstract!Award, Abstract!Move, Status
  <2> QED BY <2>1, <2>3 DEF Abstract!Next
<1>4. CASE ProviderCancelReopen(r)
  <2>1. /\ s \in Service /\ status[s] \notin {"absent", "searching"}
        /\ status' = [status EXCEPT ![s] = "searching_after_cancel"]
        /\ provider' = [provider EXCEPT ![s] = NoProvider]
    BY <1>4 DEF ProviderCancelReopen, IInv, LifeOK, PlaceOK, After
  <2>2. Phase(status[s]) \in {"taken", "offered"} /\ Phase("searching_after_cancel") = "offered"
    BY <2>1 DEF Phase
  <2>3. [t \in Service |-> Phase(status[t])]'
          = [[t \in Service |-> Phase(status[t])] EXCEPT ![s] = "offered"]
    BY <2>1, <2>2, PhaseMoves DEF Status
  <2>4. Abstract!Offer(s)
    BY <2>1, <2>2, <2>3 DEF Abstract!Offer, Abstract!Move
  <2> QED BY <2>1, <2>4 DEF Abstract!Next
<1>5. CASE CancelServiceWrite(r) \/ CancelSearchingWrite(r) \/ AssignmentCronWrite(r) \/ UpdateStatusWrite(r)
  <2>1. /\ s \in Service /\ status[s] # "absent" /\ UNCHANGED provider
        /\ \E x \in Status \ {"absent", "searching", "searching_after_cancel"} :
              status' = [status EXCEPT ![s] = x]
    BY <1>5 DEF CancelServiceWrite, CancelSearchingWrite, AssignmentCronWrite, UpdateStatusWrite,
                Status, Journey
  <2> QED BY <2>1, Closes DEF Abstract!Next
<1>6. CASE HandleProviderTimeoutWrite(r)
  <2>1. /\ s \in Service /\ status[s] # "absent"
        /\ status' = [status EXCEPT ![s] = "cancelled"] /\ provider' = [provider EXCEPT ![s] = NoProvider]
    BY <1>6 DEF HandleProviderTimeoutWrite
  <2>2. Phase("cancelled") = "taken" /\ "cancelled" \in Status
    BY DEF Phase, Status
  <2> QED BY <2>1, <2>2, Withdraws DEF Abstract!Next
<1>7. CASE GoOfflineDrop(r)
  <2>1. /\ s \in Service /\ status[s] # "absent" /\ UNCHANGED status
        /\ provider' = [provider EXCEPT ![s] = NoProvider]
    BY <1>7 DEF GoOfflineDrop
  <2>2. CASE Phase(status[s]) = "taken"
    <3>1. status' = [status EXCEPT ![s] = status[s]] /\ status[s] \in Status
        BY <2>1 DEF StateType
    <3> QED BY <2>1, <2>2, <3>1, Withdraws DEF Abstract!Next
  <2>3. CASE Phase(status[s]) # "taken"
    <3>1. provider[s] = NoProvider
        BY <2>1, <2>3 DEF Phase, IInv, LifeOK
    <3>2. UNCHANGED provider
        BY <2>1, <3>1 DEF StateType
    <3> QED BY <2>1, <3>2 DEF Abstract!vars
  <2> QED BY <2>2, <2>3
<1>8. CASE UNCHANGED <<status, provider>>
    BY <1>8 DEF Abstract!vars
<1>9. \/ StartSearchInsert(r) \/ AcceptBidAssign(r) \/ AcceptOfferWin(r) \/ ProviderCancelReopen(r)
      \/ CancelServiceWrite(r) \/ CancelSearchingWrite(r) \/ AssignmentCronWrite(r)
      \/ UpdateStatusWrite(r) \/ HandleProviderTimeoutWrite(r) \/ GoOfflineDrop(r)
      \/ UNCHANGED <<status, provider>>
    BY DEF Continue, doc,
           AcceptBidLock, AcceptBidRefuse, AcceptBidStop, AcceptBidLose, AcceptBidUndo, 
          ProviderCancelRefuse, ProviderCancelRelease, ProviderCancelRespawn, 
          AcceptOfferLose, StopAllDiscovery, StopAllDiscoveryCleanup, 
          CancelServiceLock, CancelServiceCleanup, CancelSearchingLock, 
          HandleProviderTimeoutRelease, AssignmentCronRelease, GoOfflineUnlock, GoOfflineClear,
          UpdateStatusSettle, UpdateStatusFree, UpdateStatusUnlock, PaymentSuccessLoad
<1> QED BY <1>1, <1>2, <1>3, <1>4, <1>5, <1>6, <1>7, <1>8, <1>9

LEMMA AwardStep == IInv /\ [Next]_vars => [Abstract!Next]_(Abstract!vars)
<1>. SUFFICES ASSUME IInv, [Next]_vars PROVE [Abstract!Next]_(Abstract!vars)
    OBVIOUS
<1>. StateType
    BY DEF IInv
<1>1. ASSUME NEW r \in Request, Continue(r) PROVE [Abstract!Next]_(Abstract!vars)
    BY <1>1, ContinueAward
<1>2. ASSUME NEW s \in Service,
             \/ FindProvidersCancel(s) \/ PaymentFailure(s)
             \/ \E r \in Request : PaymentSuccess(r, s)
      PROVE  [Abstract!Next]_(Abstract!vars)
  <2>1. /\ status[s] # "absent" /\ UNCHANGED provider
        /\ \E x \in Status \ {"absent", "searching", "searching_after_cancel"} :
              status' = [status EXCEPT ![s] = x]
    BY <1>2 DEF FindProvidersCancel, PaymentFailure, PaymentSuccess, IInv, LifeOK, Status
  <2> QED BY <2>1, Closes DEF Abstract!Next
<1>3. CASE UNCHANGED <<status, provider>>
    BY <1>3 DEF Abstract!vars
<1>4. \/ \E r \in Request : Continue(r)
      \/ \E s \in Service : \/ FindProvidersCancel(s) \/ PaymentFailure(s)
                            \/ \E r \in Request : PaymentSuccess(r, s)
      \/ UNCHANGED <<status, provider>>
    BY DEF Next, Begin, SearchRound, Crash, StoreFails, doc, vars,
           StartSearch, CancelService, CancelSearchingService, SearchWatchdog, 
          HandleProviderTimeout, AssignmentCron, AcceptBid, ProviderCancelService, 
          AcceptOffer, UpdateStatus, GoOffline, FindProvidersExit, 
          FindProvidersExpire, FixedPriceExit, Minutes, UpdateLiveLocation, 
          InitiatePayment, LockExpires, StopExpires, GoOnline, BusyExpires
<1> QED BY <1>1, <1>2, <1>3, <1>4

\* The two conditional updates suffice: whatever the unconditional writers do, a booking has
\* one mechanic at a time, gets one only while it is searched for or offered, and is searched
\* for once.
THEOREM AwardImplemented == Spec => AwardRefined
<1>1. Init => Abstract!Init
    BY DEF Init, Abstract!Init, Phase
<1> QED BY <1>1, AwardStep, Inductive, PTL DEF Spec, AwardRefined, Abstract!Spec
-----------------------------------------------------------------------------
(* A cancelled booking *)

\* who is past the look and was not overtaken still has the booking alive
LookOK ==
    \A r \in Request : req[r].pc \in Looked => r \in overtaken \/ status[req[r].s] # "cancelled"

\* r was past its look, at the same booking, or has looked in this step
Looking(r) ==
    req'[r].pc \in Looked
        => \/ req[r].pc \in Looked /\ req'[r].s = req[r].s
           \/ status[req'[r].s] # "cancelled" /\ status' = status

LEMMA BeginLooks ==
    ASSUME IInv, NEW x \in Request, Begin(x), NEW r \in Request
    PROVE  Looking(r)
<1>. req \in [Request -> Call]
    BY DEF IInv, ReqType
<1>1. CASE r # x
  <2>1. req'[r] = req[r]
    BY <1>1 DEF Begin, StartSearch, CancelService, CancelSearchingService, SearchWatchdog,
          HandleProviderTimeout, AssignmentCron, PaymentSuccess, AcceptBid,
          ProviderCancelService, AcceptOffer, UpdateStatus, GoOffline, Enter
  <2> QED BY <2>1 DEF Looking
<1>2. CASE r = x
  <2>1. ASSUME NEW s \in Service, NEW p \in Provider, ProviderCancelService(x, s, p)
        PROVE  Looking(r)
    BY <1>2, <2>1 DEF ProviderCancelService, Withdrawable, Enter, Looking, doc
  <2>2. ASSUME NEW s \in Service, NEW to \in JourneyInput, UpdateStatus(x, s, to)
        PROVE  Looking(r)
    BY <1>2, <2>2 DEF UpdateStatus, Looking, doc
  <2>3. ASSUME NEW label \in Label \ Looked, NEW s, NEW p, Enter(x, label, s, p)
        PROVE  Looking(r)
    BY <1>2, <2>3 DEF Enter, Looking
  <2>4. ASSUME NEW s \in Service,
               \/ StartSearch(x, s) \/ CancelService(x, s) \/ CancelSearchingService(x, s)
               \/ SearchWatchdog(x, s) \/ HandleProviderTimeout(x, s) \/ AssignmentCron(x, s)
               \/ PaymentSuccess(x, s)
               \/ \E p \in Provider : AcceptBid(x, s, p) \/ AcceptOffer(x, s, p)
        PROVE  Looking(r)
    BY <2>3, <2>4 DEF StartSearch, CancelService, CancelSearchingService, SearchWatchdog,
          HandleProviderTimeout, AssignmentCron, PaymentSuccess, AcceptBid, AcceptOffer,
          Label, Looked
  <2>5. ASSUME NEW p \in Provider, GoOffline(x, p) PROVE Looking(r)
    BY <2>3, <2>5 DEF GoOffline, Label, Looked
  <2> QED BY <2>1, <2>2, <2>4, <2>5 DEF Begin
<1> QED BY <1>1, <1>2

LEMMA ContinueLooks ==
    ASSUME IInv, NEW x \in Request, Continue(x), NEW r \in Request
    PROVE  Looking(r)
<1>. req \in [Request -> Call]
    BY DEF IInv, ReqType
<1>1. CASE r # x
  <2>1. req'[r] = req[r]
    BY <1>1 DEF Continue, Enter, Goto, Return,
           StartSearchInsert, AcceptBidLock, AcceptBidRefuse, AcceptBidStop,
          AcceptBidAssign, AcceptBidLose, AcceptBidUndo, ProviderCancelRefuse,
          ProviderCancelRelease, ProviderCancelReopen, ProviderCancelRespawn,
          AcceptOfferWin, AcceptOfferLose, StopAllDiscovery, StopAllDiscoveryCleanup,
          CancelServiceLock, CancelServiceWrite, CancelServiceCleanup,
          CancelSearchingLock, CancelSearchingWrite, HandleProviderTimeoutRelease,
          HandleProviderTimeoutWrite, AssignmentCronRelease, AssignmentCronWrite,
          GoOfflineDrop, GoOfflineUnlock, GoOfflineClear, UpdateStatusSettle,
          UpdateStatusFree, UpdateStatusUnlock, UpdateStatusWrite,
          PaymentSuccessLoad
  <2> QED BY <2>1 DEF Looking
<1>2. CASE r = x
  <2>1. \/ req'[r] = Idle
        \/ \E label \in Label : Goto(x, label) /\ (label \in Looked => req[x].pc \in Looked)
        \/ \E s, p : Enter(x, "paid_orphan", s, p)
    BY <1>2 DEF Continue, Return, At, Label, Looked,
           StartSearchInsert, AcceptBidLock, AcceptBidRefuse, AcceptBidStop,
          AcceptBidAssign, AcceptBidLose, AcceptBidUndo, ProviderCancelRefuse,
          ProviderCancelRelease, ProviderCancelReopen, ProviderCancelRespawn,
          AcceptOfferWin, AcceptOfferLose, StopAllDiscovery, StopAllDiscoveryCleanup,
          CancelServiceLock, CancelServiceWrite, CancelServiceCleanup,
          CancelSearchingLock, CancelSearchingWrite, HandleProviderTimeoutRelease,
          HandleProviderTimeoutWrite, AssignmentCronRelease, AssignmentCronWrite,
          GoOfflineDrop, GoOfflineUnlock, GoOfflineClear, UpdateStatusSettle,
          UpdateStatusFree, UpdateStatusUnlock, UpdateStatusWrite,
          PaymentSuccessLoad
  <2>2. CASE req'[r] = Idle
    BY <2>2 DEF Idle, Looked, Looking
  <2>3. ASSUME NEW label \in Label, Goto(x, label), label \in Looked => req[x].pc \in Looked
        PROVE  Looking(r)
    BY <1>2, <2>3 DEF Goto, Looking, Call
  <2>4. ASSUME NEW s, NEW p, Enter(x, "paid_orphan", s, p) PROVE Looking(r)
    BY <1>2, <2>4 DEF Enter, Looking, Looked
  <2> QED BY <2>1, <2>2, <2>3, <2>4
<1> QED BY <1>1, <1>2

\* Nobody gets past the look on a cancelled booking.
LEMMA AllLook ==
    ASSUME IInv, [Next]_vars, NEW r \in Request
    PROVE  Looking(r)
<1>. req \in [Request -> Call]
    BY DEF IInv, ReqType
<1>1. ASSUME NEW x \in Request, StoreFails(x) PROVE Looking(r)
    BY <1>1 DEF StoreFails, At, Goto, Return, Idle, Looked, Looking, Call
<1>2. CASE Crash
    BY <1>2 DEF Crash, Idle, Looked, Looking
<1>3. CASE UNCHANGED req
    BY <1>3 DEF Looking
<1>4. CASE \/ UNCHANGED vars
           \/ \E s \in Service :
                 \/ SearchRound(s) \/ FixedPriceExit(s)
                 \/ Minutes(s) \/ UpdateLiveLocation(s) \/ InitiatePayment(s) \/ PaymentFailure(s)
                 \/ LockExpires(s) \/ StopExpires(s)
           \/ \E p \in Provider : GoOnline(p) \/ BusyExpires(p)
    BY <1>3, <1>4 DEF vars, SearchRound, FindProvidersExit, FindProvidersExpire,
          FindProvidersCancel, FixedPriceExit, Minutes, UpdateLiveLocation, InitiatePayment,
          PaymentFailure, LockExpires, StopExpires, GoOnline, BusyExpires
<1> QED BY <1>1, <1>2, <1>4, BeginLooks, ContinueLooks DEF Next

LEMMA LookStep ==
    ASSUME IInv, LookOK, [WatchedNext]_WatchedVars
    PROVE  LookOK'
<1>1. CASE UNCHANGED WatchedVars
    BY <1>1 DEF WatchedVars, vars, doc, LookOK
<1>2. CASE WatchedNext
  <2>1. SUFFICES ASSUME NEW r \in Request, req'[r].pc \in Looked
                 PROVE  r \in overtaken' \/ status'[req'[r].s] # "cancelled"
    BY DEF LookOK
  <2>2. CASE req[r].pc \in Looked /\ req'[r].s = req[r].s
    BY <1>2, <2>1, <2>2 DEF WatchedNext, Overtakes, LookOK
  <2>3. CASE status[req'[r].s] # "cancelled" /\ status' = status
    BY <2>3
  <2>4. [Next]_vars
    BY <1>2 DEF WatchedNext
  <2> QED BY <2>1, <2>2, <2>3, <2>4, AllLook DEF Looking
<1> QED BY <1>1, <1>2

\* The writers that may find the booking cancelled and leave it otherwise.
LEMMA Revivers ==
    ASSUME IInv, [Next]_vars, NEW s \in Service, status[s] = "cancelled", status'[s] # "cancelled"
    PROVE  \/ PaymentFailure(s) \/ \E r \in Request : PaymentSuccess(r, s)
           \/ \E r \in Request : req[r].s = s /\ (UpdateStatusWrite(r) \/ ProviderCancelReopen(r))
<1>. status \in [Service -> Status]
    BY DEF IInv, StateType
<1>1. ASSUME NEW t \in Service, NEW x, status' = [status EXCEPT ![t] = x]
      PROVE  t = s /\ x # "cancelled"
    BY <1>1
<1>2. ASSUME NEW r \in Request, Continue(r)
      PROVE  req[r].s = s /\ (UpdateStatusWrite(r) \/ ProviderCancelReopen(r))
  <2>1. CASE UpdateStatusWrite(r) \/ ProviderCancelReopen(r)
    <3>1. req[r].s \in Service
      BY <2>1 DEF UpdateStatusWrite, ProviderCancelReopen, At, IInv, RequestOK, CallOK
    <3> QED BY <1>1, <2>1, <3>1 DEF UpdateStatusWrite, ProviderCancelReopen
  <2>2. CASE StartSearchInsert(r)
    BY <2>2 DEF StartSearchInsert, At, IInv, LifeOK, PlaceOK
  <2>3. CASE AcceptBidAssign(r) \/ AcceptOfferWin(r)
    BY <2>3 DEF AcceptBidAssign, AcceptOfferWin, Unassigned
  <2>4. CASE \/ CancelServiceWrite(r) \/ CancelSearchingWrite(r)
             \/ HandleProviderTimeoutWrite(r) \/ AssignmentCronWrite(r)
    BY <2>4 DEF CancelServiceWrite, CancelSearchingWrite, HandleProviderTimeoutWrite,
          AssignmentCronWrite
  <2>5. ASSUME UNCHANGED status PROVE FALSE
    BY <2>5
  <2> QED BY <1>2, <2>1, <2>2, <2>3, <2>4, <2>5 DEF Continue, doc,
          AcceptBidLock, AcceptBidRefuse, AcceptBidStop, AcceptBidLose, AcceptBidUndo,
          ProviderCancelRefuse, ProviderCancelRelease, ProviderCancelRespawn, AcceptOfferLose,
          StopAllDiscovery, StopAllDiscoveryCleanup, CancelServiceLock, CancelServiceCleanup,
          CancelSearchingLock, HandleProviderTimeoutRelease, AssignmentCronRelease,
          GoOfflineDrop, GoOfflineUnlock, GoOfflineClear, UpdateStatusSettle,
          UpdateStatusFree, UpdateStatusUnlock, PaymentSuccessLoad
<1>3. ASSUME NEW r \in Request, Begin(r) PROVE PaymentSuccess(r, s)
  <2>1. ASSUME NEW t \in Service, PaymentSuccess(r, t) PROVE PaymentSuccess(r, s)
    BY <1>1, <2>1 DEF PaymentSuccess
  <2>2. ASSUME UNCHANGED status PROVE FALSE
    BY <2>2
  <2> QED BY <1>3, <2>1, <2>2 DEF Begin, doc, StartSearch, CancelService, CancelSearchingService,
          SearchWatchdog, HandleProviderTimeout, AssignmentCron, AcceptBid,
          ProviderCancelService, AcceptOffer, UpdateStatus, GoOffline
<1>4. ASSUME NEW t \in Service, PaymentFailure(t) PROVE PaymentFailure(s)
    BY <1>1, <1>4 DEF PaymentFailure
<1>5. ASSUME NEW t \in Service, SearchRound(t) PROVE FALSE
    BY <1>1, <1>5 DEF SearchRound, FindProvidersExit, FindProvidersExpire, FindProvidersCancel, doc
<1>6. ASSUME UNCHANGED status PROVE FALSE
    BY <1>6
<1> QED BY <1>2, <1>3, <1>4, <1>5, <1>6 DEF Next, Crash, StoreFails, vars, doc, FixedPriceExit,
          Minutes, UpdateLiveLocation, InitiatePayment, LockExpires, StopExpires, GoOnline,
          BusyExpires

\* A cancelled booking comes back only by a payment, or by the late write of a journey report
\* or a withdrawal that had found it alive; for any number of calls, workers and bookings.
THEOREM CancelledStaysAlways == WatchedSpec => CancelledStays
<1>1. WatchedInit => Init /\ LookOK
  <2>1. WatchedInit => Init
    BY DEF WatchedInit
  <2>2. Init => \A r \in Request : req[r].pc = "idle"
    <3>1. Init => req = [r \in Request |-> Idle]
      BY DEF Init
    <3> QED BY <3>1 DEF Idle
  <2> QED BY <2>1, <2>2 DEF LookOK, Looked
<1>2. [WatchedNext]_WatchedVars => [Next]_vars
    BY DEF WatchedNext, WatchedVars
<1>3. IInv /\ LookOK /\ [WatchedNext]_WatchedVars => LookOK'
    BY LookStep
<1>4. IInv /\ LookOK /\ [WatchedNext]_WatchedVars
      => [\A s \in Service :
            status[s] = "cancelled" /\ status'[s] # "cancelled"
                => \/ PaymentFailure(s) \/ \E r \in Request : PaymentSuccess(r, s)
                   \/ \E r \in overtaken :
                         /\ req[r].s = s
                         /\ UpdateStatusWrite(r) \/ ProviderCancelReopen(r)]_WatchedVars
  <2>1. SUFFICES ASSUME IInv, LookOK, [Next]_vars, NEW s \in Service,
                        status[s] = "cancelled", status'[s] # "cancelled"
                 PROVE  \/ PaymentFailure(s) \/ \E r \in Request : PaymentSuccess(r, s)
                        \/ \E r \in overtaken :
                              /\ req[r].s = s
                              /\ UpdateStatusWrite(r) \/ ProviderCancelReopen(r)
    BY <1>2
  <2>2. ASSUME NEW r \in Request, req[r].s = s, UpdateStatusWrite(r) \/ ProviderCancelReopen(r)
        PROVE  r \in overtaken
    BY <2>1, <2>2 DEF UpdateStatusWrite, ProviderCancelReopen, At, LookOK, Looked
  <2> QED BY <2>1, <2>2, Revivers
<1>5. Init /\ [][Next]_vars => []IInv
    BY Inductive DEF Spec
<1> QED BY <1>1, <1>2, <1>3, <1>4, <1>5, PTL DEF WatchedSpec, CancelledStays
=============================================================================
