---------------------------- MODULE MCAssignment ----------------------------
(* Small instances of module Assignment. *)
EXTENDS Assignment, TLC

CONSTANTS s1, s2, p1, p2, u1, u2, r1, r2

\* each booking has a customer of its own, or both have the same one
OwnUser  == s1 :> u1 @@ s2 :> u2
OneUser  == [s \in Service |-> u1]

\* one mechanic: every handler and worker that payments and the journey may meet
HandlerOps == {"StartSearch", "AcceptBid", "ProviderCancelService", "AcceptOffer",
               "CancelService", "CancelSearchingService", "HandleProviderTimeout",
               "AssignmentCron", "UpdateStatus", "UpdateLiveLocation", "Payment"}

\* two mechanics: every way to win and to lose a booking before it is paid for
RaceOps == {"StartSearch", "AcceptBid", "ProviderCancelService", "AcceptOffer",
            "CancelService", "HandleProviderTimeout", "GoOffline", "StoreError"}

WaitOps == {"StartSearch", "SearchWatchdog", "AcceptBid", "HandleProviderTimeout",
            "GoOffline", "Crash", "StoreError", "Expiry"}

TwoJobOps  == {"StartSearch", "AcceptBid", "Payment", "GoOffline"}
TimeoutOps == {"StartSearch", "AcceptBid", "Payment", "HandleProviderTimeout"}
OfflineOps == {"StartSearch", "AcceptBid", "Payment", "GoOffline", "ProviderCancelService"}
CancelOps  == {"StartSearch", "AcceptBid", "Payment", "CancelService"}

\* the whole journey
Reports == {"started", "reached_location", "otp_verified", "in_progress", "completed"}

Mechanics == Permutations(Provider)
=============================================================================
