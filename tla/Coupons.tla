------------------------------ MODULE Coupons ------------------------------
(***************************************************************************)
(* Promo codes and automatic discounts: a coupon is prepared on a booking, *)
(* copied into the payment, and counted when the payment has succeeded.    *)
(* The module follows one code; the bookings share its cap, a customer's   *)
(* bookings his limit. Amounts are whole, as is every percentage taken.    *)
(***************************************************************************)
EXTENDS Calls, Integers, Sequences, FiniteSetsExt

CONSTANTS
    Booking, Customer,
    Owner,          \* Owner[b]: the customer of booking b
    Price,          \* finalPrice of a booking
    Codes,          \* promo codes as the back office may define them
    OfferLists,     \* the active automatic discounts, in the order they are found
    Attempts,       \* runs of afterPaymentSuccess: three in the code
    CouponFaults    \* subset of {"StoreError", "Retry"}

Audience == {"all_users", "new_users", "existing_users"}

Discount == [percent : BOOLEAN, value : Nat, max : Nat, audience : Audience]
PromoCode == [percent : BOOLEAN, value : Nat, max : Nat, stacking : BOOLEAN,
              cap : Nat, limit : Nat, audience : Audience]

ASSUME CouponAssumption ==
    /\ Owner \in [Booking -> Customer]
    /\ Price \in Nat
    /\ Codes \subseteq PromoCode
    /\ OfferLists \subseteq Seq(Discount)
    /\ Attempts \in Nat \ {0}

VARIABLES
    code, offers,
    promoUsage,     \* usageCount of the code
    promoUse,       \* collection promoUse: the customers, in the order of insertion
    isNew,          \* customers who have not paid yet
    pendingCoupon,  \* on the bookings
    bare            \* history: callers whose booking has been without a code at some
                    \* moment of their call

couponVars == <<code, offers, promoUsage, promoUse, isNew, pendingCoupon, bare>>

NoPromo == -1
Nothing == [auto |-> 0, promo |-> NoPromo]
Coupon  == [auto : 0..Price, promo : 0..Price \union {NoPromo}]

\* then: what follows the automatic discount; fresh: isNew as the middleware read it;
\* blind: the look for a code already applied has failed
CouponCall ==
    [at : {"auto", "look", "save_auto", "apply", "count", "save_code", "finished",
           "paid", "use", "aged", "persist", "after"},
     b : Booking, by : Customer, fresh : BOOLEAN, coupon : Coupon,
     then : {"apply", "finished"}, blind : BOOLEAN, tries : 0..Attempts]

CouponTypeOK ==
    /\ promoUsage \in Nat
    /\ promoUse \in Seq(Customer)
    /\ isNew \subseteq Customer /\ bare \subseteq Caller
    /\ pendingCoupon \in [Booking -> Coupon]
    /\ \A r \in Caller : call[r] \in CouponCall \union {Fresh, Done}

CouponInit ==
    /\ code \in Codes /\ offers \in OfferLists
    /\ promoUsage = 0
    /\ promoUse = <<>>
    /\ isNew \in SUBSET Customer
    /\ pendingCoupon = [b \in Booking |-> Nothing]
    /\ bare = {}

-----------------------------------------------------------------------------
(* Amounts *)

\* mutation: a discount may exceed the amount
CalcDiscountWhole(d, amount) == IF d.percent THEN (amount * d.value) \div 100 ELSE d.value

CalcDiscount(d, amount) ==
    LET part == (amount * d.value) \div 100
        cut  == IF ~d.percent THEN d.value
                ELSE IF d.max > 0 THEN Min({part, d.max}) ELSE part
    IN  Min({cut, amount})

Eligible(audience, fresh) ==
    /\ audience = "new_users" => fresh
    /\ audience = "existing_users" => ~fresh

\* the first discount that is worth something
AutoDiscount(fresh) ==
    LET good == {i \in DOMAIN offers : /\ Eligible(offers[i].audience, fresh)
                                       /\ CalcDiscount(offers[i], Price) > 0}
    IN  IF good = {} THEN 0 ELSE CalcDiscount(offers[Min(good)], Price)

\* mutation: the automatic discount comes on top of every code
StackedAlways(auto) == auto

Stacked(auto) == IF code.stacking THEN auto ELSE 0

\* discountedAmount: the code's share is reckoned on the whole price
Payable(coupon) ==
    Price - coupon.auto - (IF coupon.promo = NoPromo THEN 0 ELSE coupon.promo)

HasPromo(b) == pendingCoupon[b].promo # NoPromo

Serves(r, b) == call[r] \notin {Fresh, Done} /\ call[r].b = b

Attach(b, coupon) ==
    /\ pendingCoupon' = [pendingCoupon EXCEPT ![b] = coupon]
    /\ bare' = IF coupon.promo = NoPromo THEN bare \union {r \in Caller : Serves(r, b)}
               ELSE bare

-----------------------------------------------------------------------------
(* ValidateCoupon and RemoveCoupon: both begin with ApplyAutoDiscount *)

Ask(b, c, then) ==
    [at |-> "auto", b |-> b, by |-> c, fresh |-> c \in isNew, coupon |-> Nothing,
     then |-> then, blind |-> FALSE, tries |-> 0]

\* nothing relates the customer who asks to the booking
ValidateCoupon(r, b, c) ==
    /\ At(r, "new")
    /\ Enter(r, Ask(b, c, "apply"))
    /\ bare' = IF HasPromo(b) THEN bare ELSE bare \union {r}
    /\ UNCHANGED <<code, offers, promoUsage, promoUse, isNew, pendingCoupon>>

RemoveCoupon(r, b, c) ==
    /\ At(r, "new")
    /\ pendingCoupon' = [pendingCoupon EXCEPT ![b] = Nothing]
    /\ bare' = bare \union {r} \union {q \in Caller : Serves(q, b)}
    /\ Enter(r, Ask(b, c, "finished"))
    /\ UNCHANGED <<code, offers, promoUsage, promoUse, isNew>>

ApplyAutoDiscount(r) ==
    /\ At(r, "auto")
    /\ call' = [call EXCEPT ![r].at = "look", ![r].coupon.auto = AutoDiscount(call[r].fresh)]
    /\ UNCHANGED couponVars

\* the discounts cannot be read: go on without, and save nothing
ApplyNoDiscount(r) ==
    /\ "StoreError" \in CouponFaults
    /\ At(r, "auto")
    /\ Goto(r, call[r].then)
    /\ UNCHANGED couponVars

\* mutation: a code on the booking is not looked for
AppliedNever(b) == FALSE

Applied(b) == HasPromo(b)

\* the second read of the booking: a code applied to it stays
LookForCode(r) ==
    /\ At(r, "look")
    /\ IF Applied(call[r].b)
       THEN call' = [call EXCEPT ![r].at = call[r].then,
                                 ![r].coupon = pendingCoupon[call[r].b]]
       ELSE Goto(r, "save_auto")
    /\ UNCHANGED couponVars

LookFails(r) ==
    /\ "StoreError" \in CouponFaults
    /\ At(r, "look")
    /\ call' = [call EXCEPT ![r].at = "save_auto", ![r].blind = TRUE]
    /\ UNCHANGED couponVars

\* a failing save is only logged
SaveAutoDiscount(r) ==
    /\ At(r, "save_auto")
    /\ \/ Attach(call[r].b, call[r].coupon)
       \/ "StoreError" \in CouponFaults /\ UNCHANGED <<pendingCoupon, bare>>
    /\ Goto(r, call[r].then)
    /\ UNCHANGED <<code, offers, promoUsage, promoUse, isNew>>

\* reads the code; it may be unknown, inactive, out of its time or its order value
ApplyPromoCode(r) ==
    /\ At(r, "apply")
    /\ \/ /\ Eligible(code.audience, call[r].fresh)
          /\ code.cap = 0 \/ promoUsage < code.cap
          /\ Goto(r, "count")
       \/ Return(r)
    /\ UNCHANGED couponVars

\* reads the uses of the code, by phone and by customer
CountByUser(r) ==
    /\ At(r, "count")
    /\ LET used == Cardinality({i \in DOMAIN promoUse : promoUse[i] = call[r].by})
           fits == /\ code.audience = "new_users" => used = 0
                   /\ code.limit > 0 => used < code.limit
       IN  IF fits
           THEN call' = [call EXCEPT ![r].at = "save_code",
                    ![r].coupon = [auto  |-> Stacked(call[r].coupon.auto),
                                   promo |-> CalcDiscount(code, Price)]]
           ELSE Return(r)
    /\ UNCHANGED couponVars

SavePromo(r) ==
    /\ At(r, "save_code")
    /\ \/ Attach(call[r].b, call[r].coupon)
       \/ "StoreError" \in CouponFaults /\ UNCHANGED <<pendingCoupon, bare>>
    /\ Return(r)
    /\ UNCHANGED <<code, offers, promoUsage, promoUse, isNew>>

CouponReturn(r) ==
    /\ At(r, "finished")
    /\ Return(r)
    /\ UNCHANGED couponVars

-----------------------------------------------------------------------------
(* InitiatePayment copies the coupon; afterPaymentSuccess counts it *)

InitiatePayment(r, b) ==
    /\ At(r, "new")
    /\ Enter(r, [Ask(b, Owner[b], "finished") EXCEPT
                    !.at = "paid", !.coupon = pendingCoupon[b], !.tries = 1])
    /\ UNCHANGED couponVars

\* mutation: $inc without the filter on the cap
IncrementMatchesAlways == TRUE

IncrementMatches == code.cap = 0 \/ promoUsage < code.cap

\* mutation: the use is recorded although the cap has refused it
AfterRefusalUse == "use"

\* ConfirmPromoUsage returns the error, which is only logged
AfterRefusal == "aged"

\* the update may have been made though its reply is lost
IncrementUsage(r) ==
    /\ At(r, "paid")
    /\ \/ /\ call[r].coupon.promo # NoPromo /\ IncrementMatches
          /\ promoUsage' = promoUsage + 1
          /\ Goto(r, "use")
       \/ /\ call[r].coupon.promo # NoPromo /\ ~IncrementMatches
          /\ Goto(r, AfterRefusal)
          /\ UNCHANGED promoUsage
       \/ /\ call[r].coupon.promo = NoPromo
          /\ Goto(r, "aged")
          /\ UNCHANGED promoUsage
       \/ /\ "StoreError" \in CouponFaults
          /\ call[r].coupon.promo # NoPromo
          /\ \/ IncrementMatches /\ promoUsage' = promoUsage + 1
             \/ UNCHANGED promoUsage
          /\ Goto(r, "aged")
    /\ UNCHANGED <<code, offers, promoUse, isNew, pendingCoupon, bare>>

InsertUse(r) ==
    /\ At(r, "use")
    /\ \/ promoUse' = Append(promoUse, call[r].by)
       \/ "StoreError" \in CouponFaults /\ UNCHANGED promoUse
    /\ Goto(r, "aged")
    /\ UNCHANGED <<code, offers, promoUsage, isNew, pendingCoupon, bare>>

NoLongerNew(r) ==
    /\ At(r, "aged")
    /\ \/ isNew' = isNew \ {call[r].by}
       \/ "StoreError" \in CouponFaults /\ UNCHANGED isNew
    /\ Goto(r, "persist")
    /\ UNCHANGED <<code, offers, promoUsage, promoUse, pendingCoupon, bare>>

\* appliedPromo and the amounts go to the booking, and its pendingCoupon goes
PersistCoupon(r) ==
    /\ At(r, "persist")
    /\ \/ Attach(call[r].b, Nothing)
       \/ "StoreError" \in CouponFaults /\ UNCHANGED <<pendingCoupon, bare>>
    /\ Goto(r, "after")
    /\ UNCHANGED <<code, offers, promoUsage, promoUse, isNew>>

\* what follows (module Payment) is done, or fails and is begun again as a whole
PaymentSettled(r) ==
    /\ At(r, "after")
    /\ \/ Return(r)
       \/ /\ "Retry" \in CouponFaults /\ call[r].tries < Attempts
          /\ call' = [call EXCEPT ![r].at = "paid", ![r].tries = @ + 1]
    /\ UNCHANGED couponVars

CouponNext ==
    \E r \in Caller :
        \/ \E b \in Booking, c \in Customer : ValidateCoupon(r, b, c) \/ RemoveCoupon(r, b, c)
        \/ \E b \in Booking : InitiatePayment(r, b)
        \/ ApplyAutoDiscount(r) \/ ApplyNoDiscount(r)
        \/ LookForCode(r) \/ LookFails(r) \/ SaveAutoDiscount(r)
        \/ ApplyPromoCode(r) \/ CountByUser(r) \/ SavePromo(r) \/ CouponReturn(r)
        \/ IncrementUsage(r) \/ InsertUse(r) \/ NoLongerNew(r)
        \/ PersistCoupon(r) \/ PaymentSettled(r)

-----------------------------------------------------------------------------
(* Properties *)

\* However many payments with the code succeed at once, are repeated, or lose their
\* replies, the counter of the code never passes its cap (promoCode_repo.go,
\* IncrementUsage).
CapHolds == code.cap > 0 => promoUsage <= code.cap

\* Every recorded use has been counted: the counter is never behind the collection the
\* limit per customer is taken from (ConfirmPromoUsage: increment first, insert after,
\* and no insert when the cap refuses).
UsesCounted == Len(promoUse) <= promoUsage

\* A code that does not stack never asks the customer for less than nothing, even where
\* the automatic discount comes from a coupon that was on the booking before. (One that
\* stacks may: its share is taken of the whole price.)
NoOverdraft == \A b \in Booking : code.stacking \/ Payable(pendingCoupon[b]) >= 0

\* The code on a booking goes by RemoveCoupon, by a payment, or by an automatic discount
\* that has failed to look for it or during whose call the booking was once without a
\* code: one applied before an automatic discount began survives it (coupon_service.go,
\* the second GetByID of ApplyAutoDiscount).
PromoKept == [][
    \A b \in Booking : HasPromo(b) /\ ~HasPromo(b)' =>
        \E r \in Caller :
            /\ call'[r] # call[r]
            /\ \/ At(r, "new") /\ call'[r].then = "finished"
               \/ At(r, "persist")
               \/ At(r, "save_auto") /\ (call[r].blind \/ r \in bare)
    ]_<<pendingCoupon, call>>
=============================================================================
