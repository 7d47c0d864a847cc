------------------------------ MODULE Records ------------------------------
(***************************************************************************)
(* The records kept beside a booking: coupons, accounts, ratings,          *)
(* complaints, vehicles, and the phones notifications go to. They share    *)
(* nothing but the server that serves their calls, so that a behaviour     *)
(* concerns one part of them, and the other parts stay as they are.        *)
(***************************************************************************)
EXTENDS Coupons, Accounts, Ratings, Complaints, Vehicles, Devices

VARIABLE part

vars == <<part, call, couponVars, accountVars, ratingVars, complaintVars, vehicleVars,
          deviceVars>>

Part == {"coupons", "accounts", "ratings", "complaints", "vehicles", "devices"}

TypeOK ==
    /\ part \in Part
    /\ part = "coupons" => CouponTypeOK
    /\ part = "accounts" => AccountTypeOK
    /\ part = "ratings" => RatingTypeOK
    /\ part = "complaints" => ComplaintTypeOK
    /\ part = "vehicles" => VehicleTypeOK
    /\ part = "devices" => DeviceTypeOK

Init ==
    /\ part \in Part
    /\ CallInit
    /\ CouponInit /\ AccountInit /\ RatingInit /\ ComplaintInit /\ VehicleInit
    /\ DeviceInit
    /\ part # "coupons" => /\ code = CHOOSE c \in Codes : TRUE
                           /\ offers = CHOOSE list \in OfferLists : TRUE
                           /\ isNew = {}
    /\ part # "accounts" => accounts = <<>>
    /\ part # "devices" => signedIn = [o \in Person |-> {}]

Next ==
    /\ UNCHANGED part
    /\ \/ /\ part = "coupons" /\ CouponNext
          /\ UNCHANGED <<accountVars, ratingVars, complaintVars, vehicleVars, deviceVars>>
       \/ /\ part = "accounts" /\ AccountNext
          /\ UNCHANGED <<couponVars, ratingVars, complaintVars, vehicleVars, deviceVars>>
       \/ /\ part = "ratings" /\ RatingNext
          /\ UNCHANGED <<couponVars, accountVars, complaintVars, vehicleVars, deviceVars>>
       \/ /\ part = "complaints" /\ ComplaintNext
          /\ UNCHANGED <<couponVars, accountVars, ratingVars, vehicleVars, deviceVars>>
       \/ /\ part = "vehicles" /\ VehicleNext
          /\ UNCHANGED <<couponVars, accountVars, ratingVars, complaintVars, deviceVars>>
       \/ /\ part = "devices" /\ DeviceNext
          /\ UNCHANGED <<couponVars, accountVars, ratingVars, complaintVars, vehicleVars>>

Spec == Init /\ [][Next]_vars
=============================================================================
