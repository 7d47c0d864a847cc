---------------------------- MODULE MCDiscovery ----------------------------
(* A small instance of module Discovery: two mechanics, two searches, two calls. *)
EXTENDS Discovery

CONSTANTS p1, p2, g1, g2, r1, r2

AllOps == {"Timeout", "PlaceBid", "RejectBid", "AcceptBid", "ProviderCancelService",
           "AcceptOffer", "CancelService", "CancelSearch", "HandleProviderTimeout",
           "Complete", "GoOnline", "GoOffline", "Elsewhere", "StopExpires", "StoreError"}

\* Both mechanics are alike but for Earlier, the other one: a search that stays under way
\* asks p1. Neither the bid windows nor the limits hold it back for good.
EveryoneAsked == Asked(p1)
=============================================================================
