--------------------------- MODULE Coupons_proofs ---------------------------
(***************************************************************************)
(* Proofs about module Coupons, for any number of bookings, customers and  *)
(* callers, and any code and discounts of the types CouponAssumption gives *)
(* them. Module Records_proofs draws the conclusions for Records.          *)
(***************************************************************************)
EXTENDS Coupons, FiniteSetTheorems, WellFoundedInduction, TLAPS

-----------------------------------------------------------------------------
(* Amounts *)

LEMMA MinOfTwo ==
    \A a, b \in Nat : Min({a, b}) \in Nat /\ Min({a, b}) <= b
<1>. SUFFICES ASSUME NEW a \in Nat, NEW b \in Nat
              PROVE  Min({a, b}) \in Nat /\ Min({a, b}) <= b
  OBVIOUS
<1>1. \E x \in {a, b} : \A y \in {a, b} : x =< y
  <2>1. CASE a <= b
    BY <2>1
  <2>2. CASE ~(a <= b)
    BY <2>2
  <2> QED BY <2>1, <2>2
<1> QED BY <1>1 DEF Min

LEMMA SmallestIndex ==
    ASSUME NEW S, S \subseteq Nat, S # {}
    PROVE  Min(S) \in S
<1>1. PICK x \in S : \A y \in S : <<y, x>> \notin OpToRel(<, Nat)
  BY WFMin, NatLessThanWellFounded, Zenon
<1>2. \A y \in S : ~(y < x)
  BY <1>1, Zenon DEF OpToRel
<1>3. \A y \in S : x =< y
  BY <1>2
<1> QED BY <1>3 DEF Min

\* no discount is negative or exceeds the amount
LEMMA CalcDiscountBounds ==
    ASSUME NEW d, d.value \in Nat, d.max \in Nat, NEW amount \in Nat
    PROVE  CalcDiscount(d, amount) \in 0..amount
<1>. DEFINE part == (amount * d.value) \div 100
            cut  == IF ~d.percent THEN d.value
                    ELSE IF d.max > 0 THEN Min({part, d.max}) ELSE part
<1>1. part \in Nat
  <2>1. amount * d.value \in Nat
    OBVIOUS
  <2> QED BY <2>1
<1>2. Min({part, d.max}) \in Nat
  <2>. HIDE DEF part
  <2> QED BY <1>1, MinOfTwo, Zenon
<1>3. cut \in Nat
  BY <1>1, <1>2
<1>. HIDE DEF cut
<1>4. Min({cut, amount}) \in Nat /\ Min({cut, amount}) <= amount
  BY <1>3, MinOfTwo, Zenon
<1>5. Min({cut, amount}) \in 0..amount
  BY <1>4
<1> QED BY <1>5 DEF CalcDiscount, cut

LEMMA AutoDiscountBounds ==
    ASSUME offers \in OfferLists, NEW fresh
    PROVE  AutoDiscount(fresh) \in 0..Price
<1>. DEFINE good == {i \in DOMAIN offers : /\ Eligible(offers[i].audience, fresh)
                                           /\ CalcDiscount(offers[i], Price) > 0}
<1>1. offers \in Seq(Discount)
  BY CouponAssumption
<1>2. CASE good = {}
  BY <1>2, CouponAssumption DEF AutoDiscount
<1>3. CASE good # {}
  <2>1. good \subseteq Nat
    BY <1>1
  <2>2. Min(good) \in good
    BY <1>3, <2>1, SmallestIndex
  <2>3. offers[Min(good)] \in Discount
    BY <1>1, <2>2
  <2>4. CalcDiscount(offers[Min(good)], Price) \in 0..Price
    BY <2>3, CalcDiscountBounds, CouponAssumption DEF Discount
  <2> QED BY <1>3, <2>4 DEF AutoDiscount
<1> QED BY <1>2, <1>3

-----------------------------------------------------------------------------
(* The inductive invariant *)

\* a code that does not stack stands alone, and takes no more than the price
Fair(coupon) == ~code.stacking /\ coupon.promo # NoPromo => coupon.auto = 0

CouponState ==
    /\ code \in Codes /\ offers \in OfferLists
    /\ promoUsage \in Nat
    /\ promoUse \in Seq(Customer)
    /\ isNew \subseteq Customer /\ bare \subseteq Caller
    /\ pendingCoupon \in [Booking -> Coupon]
    /\ \A b \in Booking : Fair(pendingCoupon[b])
    /\ CapHolds

\* What a call knows: the automatic discount has no code yet; the code to be saved is
\* one; and a call that has not seen the code of its booking, for all its looking, has
\* met the booking without it.
CallOK(r) ==
    call[r] \in CouponCall =>
        /\ Fair(call[r].coupon)
        /\ call[r].at \in {"auto", "look"} =>
               call[r].coupon.promo = NoPromo /\ (r \in bare \/ HasPromo(call[r].b))
        /\ call[r].at = "save_auto" => call[r].blind \/ r \in bare
        /\ call[r].at = "save_code" => call[r].coupon.promo # NoPromo

CouponCalls ==
    /\ call \in [Caller -> CouponCall \union {Fresh, Done}]
    /\ \A r \in Caller : CallOK(r)

CouponIInv == CouponState /\ CouponCalls

LEMMA CouponInitOK == CouponInit => CouponState
<1>. SUFFICES ASSUME CouponInit PROVE CouponState
  OBVIOUS
<1>1. pendingCoupon \in [Booking -> Coupon] /\ \A b \in Booking : Fair(pendingCoupon[b])
  BY CouponAssumption DEF CouponInit, Nothing, Coupon, Fair
<1>2. code.cap \in Nat
  BY CouponAssumption DEF CouponInit, PromoCode
<1>3. CapHolds
  BY <1>2 DEF CouponInit, CapHolds
<1> QED BY <1>1, <1>3 DEF CouponInit, CouponState

LEMMA CouponCallsInit == CallInit => CouponCalls
BY DEF CallInit, CouponCalls, CallOK, Fresh, CouponCall

\* at a label of its own a call has the fields of a coupon call
LEMMA IsCall ==
    ASSUME CouponCalls, NEW r \in Caller, call[r] \notin {Fresh, Done}
    PROVE  call[r] \in CouponCall /\ CallOK(r)
BY DEF CouponCalls

CouponAt(label) == label \notin {"new", "done"}

LEMMA IsCallAt ==
    ASSUME CouponCalls, NEW r \in Caller, NEW label, At(r, label), CouponAt(label)
    PROVE  /\ call[r] \in CouponCall /\ CallOK(r)
           /\ call[r].at = label /\ call[r] \notin {Fresh, Done}
BY DEF CouponCalls, At, CouponAt, Fresh, Done

\* what a step does to the calls it does not make
LEMMA OthersOK ==
    ASSUME CouponState, CouponCalls, NEW r \in Caller, NEW q \in Caller \ {r},
           call'[q] = call[q], code' = code, bare \subseteq bare',
           \A b \in Booking : Serves(q, b) /\ HasPromo(b) => HasPromo(b)' \/ q \in bare'
    PROVE  call'[q] \in CouponCall \union {Fresh, Done} /\ CallOK(q)'
<1>1. call'[q] \in CouponCall \union {Fresh, Done}
  BY DEF CouponCalls
<1>2. ASSUME call[q] \in CouponCall
      PROVE  CallOK(q)'
  <2>1. CallOK(q) /\ call[q].b \in Booking
    BY <1>2 DEF CouponCalls, CouponCall
  <2>2. call[q] \notin {Fresh, Done}
    BY <1>2 DEF CouponCall, Fresh, Done
  <2>3. Fair(call[q].coupon)'
    BY <1>2, <2>1 DEF CallOK, Fair
  <2>4. call[q].at \in {"auto", "look"} => q \in bare' \/ HasPromo(call[q].b)'
    BY <1>2, <2>1, <2>2 DEF CallOK, Serves, HasPromo
  <2> QED BY <1>2, <2>1, <2>3, <2>4 DEF CallOK, HasPromo
<1> QED BY <1>1, <1>2 DEF CallOK

LEMMA Updated ==
    ASSUME CouponState, CouponCalls, NEW r \in Caller, NEW rec,
           call' = [call EXCEPT ![r] = rec], code' = code, bare \subseteq bare',
           \A b \in Booking, q \in Caller \ {r} :
               Serves(q, b) /\ HasPromo(b) => HasPromo(b)' \/ q \in bare',
           rec \in CouponCall \union {Fresh, Done}, CallOK(r)'
    PROVE  CouponCalls'
<1>1. \A q \in Caller \ {r} : call'[q] = call[q]
  BY DEF CouponCalls
<1>2. \A q \in Caller \ {r} : CallOK(q)'
  BY <1>1, OthersOK
<1> QED BY <1>2 DEF CouponCalls

-----------------------------------------------------------------------------
(* The stores *)

LEMMA AttachOK ==
    ASSUME CouponState, NEW b \in Booking, NEW coupon \in Coupon, Fair(coupon),
           Attach(b, coupon), code' = code
    PROVE  /\ pendingCoupon' \in [Booking -> Coupon]
           /\ \A x \in Booking : Fair(pendingCoupon[x])'
           /\ bare \subseteq bare' /\ bare' \subseteq Caller
           /\ \A x \in Booking, q \in Caller :
                 Serves(q, x) /\ HasPromo(x) => HasPromo(x)' \/ q \in bare'
<1>1. pendingCoupon' \in [Booking -> Coupon] /\ pendingCoupon'[b] = coupon
  BY DEF Attach, CouponState
<1>2. \A x \in Booking \ {b} : pendingCoupon'[x] = pendingCoupon[x]
  BY DEF Attach, CouponState
<1>3. \A x \in Booking : Fair(pendingCoupon[x])'
  BY <1>1, <1>2 DEF Fair, CouponState
<1>4. bare \subseteq bare' /\ bare' \subseteq Caller
  BY DEF Attach, CouponState
<1>5. ASSUME NEW x \in Booking, NEW q \in Caller, Serves(q, x), HasPromo(x)
      PROVE  HasPromo(x)' \/ q \in bare'
  <2>1. CASE x # b
    BY <1>2, <1>5, <2>1 DEF HasPromo
  <2>2. CASE x = b
    BY <1>1, <1>5, <2>2 DEF HasPromo, Attach
  <2> QED BY <2>1, <2>2
<1> QED BY <1>1, <1>3, <1>4, <1>5

LEMMA NothingOK == Nothing \in Coupon /\ Fair(Nothing)
BY CouponAssumption DEF Nothing, Coupon, Fair

\* RemoveCoupon leaves the booking bare for everyone who serves it
LEMMA RemoveOK ==
    ASSUME CouponState, NEW r \in Caller, NEW b \in Booking, NEW c \in Customer,
           RemoveCoupon(r, b, c)
    PROVE  /\ CouponState' /\ code' = code /\ bare \subseteq bare' /\ r \in bare'
           /\ \A x \in Booking, q \in Caller :
                 Serves(q, x) /\ HasPromo(x) => HasPromo(x)' \/ q \in bare'
<1>1. pendingCoupon' = [pendingCoupon EXCEPT ![b] = Nothing]
  BY DEF RemoveCoupon
<1>2. pendingCoupon' \in [Booking -> Coupon]
  BY <1>1, NothingOK DEF CouponState
<1>3. \A x \in Booking : Fair(pendingCoupon[x])'
  <2>1. code' = code
    BY DEF RemoveCoupon
  <2> QED BY <1>1, <2>1, NothingOK DEF CouponState, Fair
<1>4. bare' = bare \union {r} \union {q \in Caller : Serves(q, b)}
  BY DEF RemoveCoupon
<1>5. \A x \in Booking, q \in Caller :
          Serves(q, x) /\ HasPromo(x) => HasPromo(x)' \/ q \in bare'
  BY <1>1, <1>4 DEF HasPromo, CouponState
<1> QED BY <1>2, <1>3, <1>4, <1>5 DEF RemoveCoupon, CouponState, CapHolds

\* a save, or its failure
LEMMA SaveOK ==
    ASSUME CouponState, CouponCalls, NEW r \in Caller, NEW coupon \in Coupon, Fair(coupon),
           call[r] \in CouponCall,
           Attach(call[r].b, coupon) \/ UNCHANGED <<pendingCoupon, bare>>,
           UNCHANGED <<code, offers, promoUsage, promoUse, isNew>>
    PROVE  /\ CouponState' /\ bare \subseteq bare'
           /\ \A x \in Booking, q \in Caller :
                 Serves(q, x) /\ HasPromo(x) => HasPromo(x)' \/ q \in bare'
<1>1. CASE UNCHANGED <<pendingCoupon, bare>>
  BY <1>1 DEF CouponState, CapHolds, HasPromo, Fair
<1>2. CASE Attach(call[r].b, coupon)
  <2>1. call[r].b \in Booking
    BY DEF CouponCall
  <2> QED BY <1>2, <2>1, AttachOK DEF CouponState, CapHolds
<1> QED BY <1>1, <1>2

LEMMA PaidState ==
    ASSUME CouponState, CouponCalls, NEW r \in Caller,
           IncrementUsage(r) \/ InsertUse(r) \/ NoLongerNew(r)
    PROVE  CouponState' /\ UNCHANGED <<code, pendingCoupon, bare>>
<1>1. UNCHANGED <<code, offers, pendingCoupon, bare>>
  BY DEF IncrementUsage, InsertUse, NoLongerNew
<1>2. code.cap \in Nat
  BY CouponAssumption DEF CouponState, PromoCode
<1>3. promoUsage' \in Nat /\ CapHolds'
  BY <1>1, <1>2 DEF CouponState, CapHolds, IncrementUsage, InsertUse, NoLongerNew,
                    IncrementMatches
<1>4. promoUse' \in Seq(Customer)
  <2>1. call[r] \in CouponCall \/ ~InsertUse(r)
    BY IsCallAt DEF InsertUse, CouponAt
  <2> QED BY <2>1 DEF CouponState, CouponCall, IncrementUsage, InsertUse, NoLongerNew
<1>5. isNew' \subseteq Customer
  BY DEF CouponState, IncrementUsage, InsertUse, NoLongerNew
<1> QED BY <1>1, <1>3, <1>4, <1>5 DEF CouponState, Fair

-----------------------------------------------------------------------------
(* The calls *)

LEMMA GotoIs ==
    ASSUME NEW r, NEW label, Goto(r, label)
    PROVE  call' = [call EXCEPT ![r] = [call[r] EXCEPT !.at = label]]
BY DEF Goto

\* a call goes on, and knows no more than it did
LEMMA GoesOn ==
    ASSUME CouponState, CouponCalls, NEW r \in Caller, call[r] \in CouponCall,
           NEW label \in {"apply", "count", "finished", "use", "aged", "persist", "after"},
           Goto(r, label), code' = code, bare \subseteq bare',
           \A x \in Booking, q \in Caller :
               Serves(q, x) /\ HasPromo(x) => HasPromo(x)' \/ q \in bare'
    PROVE  CouponCalls'
<1>. DEFINE rec == [call[r] EXCEPT !.at = label]
<1>1. call' = [call EXCEPT ![r] = rec]
  BY GotoIs
<1>2. rec \in CouponCall /\ rec.at = label /\ rec.coupon = call[r].coupon
  BY DEF CouponCall
<1>3. call'[r] = rec
  BY <1>1 DEF CouponCalls
<1>4. CallOK(r)'
  BY <1>2, <1>3 DEF CallOK, CouponCalls, Fair
<1>. HIDE DEF rec
<1> QED BY <1>1, <1>2, <1>4, Updated

LEMMA GoesAway ==
    ASSUME CouponState, CouponCalls, NEW r \in Caller, Return(r), code' = code,
           bare \subseteq bare',
           \A x \in Booking, q \in Caller :
               Serves(q, x) /\ HasPromo(x) => HasPromo(x)' \/ q \in bare'
    PROVE  CouponCalls'
<1>1. call' = [call EXCEPT ![r] = Done]
  BY DEF Return, Enter
<1>2. call'[r] = Done /\ Done \notin CouponCall
  BY <1>1 DEF CouponCalls, Done, CouponCall
<1>3. CallOK(r)'
  BY <1>2 DEF CallOK
<1> QED BY <1>1, <1>3, Updated

\* a call whose record is known to be right
LEMMA GoesOnWith ==
    ASSUME CouponState, CouponCalls, NEW r \in Caller, NEW rec \in CouponCall,
           call' = [call EXCEPT ![r] = rec], code' = code, bare \subseteq bare',
           \A x \in Booking, q \in Caller :
               Serves(q, x) /\ HasPromo(x) => HasPromo(x)' \/ q \in bare',
           Fair(rec.coupon),
           rec.at \in {"auto", "look"} =>
               rec.coupon.promo = NoPromo /\
               (r \in bare' \/ pendingCoupon'[rec.b].promo # NoPromo),
           rec.at = "save_auto" => rec.blind \/ r \in bare',
           rec.at = "save_code" => rec.coupon.promo # NoPromo
    PROVE  CouponCalls'
<1>1. call'[r] = rec
  BY DEF CouponCalls
<1>2. CallOK(r)'
  BY <1>1 DEF CallOK, Fair, HasPromo
<1> QED BY <1>2, Updated

LEMMA AskOK ==
    ASSUME CouponState, NEW b \in Booking, NEW c \in Customer, NEW then \in {"apply", "finished"}
    PROVE  /\ Ask(b, c, then) \in CouponCall
           /\ Ask(b, c, then).at = "auto" /\ Ask(b, c, then).b = b
           /\ Ask(b, c, then).coupon = Nothing /\ Ask(b, c, then).then = then
<1>1. (c \in isNew) \in BOOLEAN /\ 0 \in 0..Attempts
  BY CouponAssumption
<1> QED BY <1>1, NothingOK DEF Ask, CouponCall

LEMMA NothingChanges ==
    ASSUME CouponState, UNCHANGED couponVars
    PROVE  /\ CouponState' /\ code' = code /\ bare \subseteq bare'
           /\ \A x \in Booking, q \in Caller :
                 Serves(q, x) /\ HasPromo(x) => HasPromo(x)' \/ q \in bare'
BY DEF CouponState, couponVars, CapHolds, HasPromo, Fair

LEMMA ValidateStep ==
    ASSUME CouponIInv, NEW r \in Caller, NEW b \in Booking, NEW c \in Customer,
           ValidateCoupon(r, b, c)
    PROVE  CouponIInv'
<1>. CouponState /\ CouponCalls
  BY DEF CouponIInv
<1>1. CouponState' /\ code' = code /\ bare \subseteq bare' /\ pendingCoupon' = pendingCoupon
  BY DEF ValidateCoupon, CouponState, CapHolds, Fair
<1>2. r \in bare' \/ pendingCoupon'[b].promo # NoPromo
  BY DEF ValidateCoupon, HasPromo
<1>3. call' = [call EXCEPT ![r] = Ask(b, c, "apply")]
  BY DEF ValidateCoupon, Enter
<1>4. CouponCalls'
  <2>. DEFINE rec == Ask(b, c, "apply")
  <2>1. rec \in CouponCall /\ rec.at = "auto" /\ rec.b = b /\ rec.coupon = Nothing
    BY AskOK
  <2>2. Fair(rec.coupon) /\ rec.coupon.promo = NoPromo
    BY <2>1, NothingOK DEF Nothing
  <2>3. \A x \in Booking, q \in Caller :
            Serves(q, x) /\ HasPromo(x) => HasPromo(x)' \/ q \in bare'
    BY <1>1 DEF HasPromo
  <2>. HIDE DEF rec
  <2> QED BY <1>1, <1>2, <1>3, <2>1, <2>2, <2>3, GoesOnWith DEF rec
<1> QED BY <1>1, <1>4 DEF CouponIInv

LEMMA RemoveStep ==
    ASSUME CouponIInv, NEW r \in Caller, NEW b \in Booking, NEW c \in Customer,
           RemoveCoupon(r, b, c)
    PROVE  CouponIInv'
<1>. CouponState /\ CouponCalls
  BY DEF CouponIInv
<1>1. call' = [call EXCEPT ![r] = Ask(b, c, "finished")]
  BY DEF RemoveCoupon, Enter
<1>2. CouponCalls'
  <2>. DEFINE rec == Ask(b, c, "finished")
  <2>1. rec \in CouponCall /\ rec.at = "auto" /\ rec.b = b /\ rec.coupon = Nothing
    BY AskOK
  <2>2. Fair(rec.coupon) /\ rec.coupon.promo = NoPromo
    BY <2>1, NothingOK DEF Nothing
  <2>. HIDE DEF rec
  <2> QED BY <1>1, <2>1, <2>2, RemoveOK, GoesOnWith DEF rec
<1> QED BY <1>2, RemoveOK DEF CouponIInv

LEMMA InitiateStep ==
    ASSUME CouponIInv, NEW r \in Caller, NEW b \in Booking, InitiatePayment(r, b)
    PROVE  CouponIInv'
<1>. CouponState /\ CouponCalls
  BY DEF CouponIInv
<1>. DEFINE ask == Ask(b, Owner[b], "finished")
            rec == [ask EXCEPT !.at = "paid", !.coupon = pendingCoupon[b], !.tries = 1]
<1>1. call' = [call EXCEPT ![r] = rec] /\ UNCHANGED couponVars
  BY DEF InitiatePayment, Enter
<1>2. pendingCoupon[b] \in Coupon /\ Fair(pendingCoupon[b])
  BY DEF CouponState
<1>3. rec \in CouponCall /\ rec.at = "paid" /\ rec.coupon = pendingCoupon[b]
  <2>1. ask \in CouponCall
    BY AskOK, CouponAssumption
  <2>2. 1 \in 0..Attempts
    BY CouponAssumption
  <2>. HIDE DEF ask
  <2> QED BY <1>2, <2>1, <2>2 DEF CouponCall
<1>. HIDE DEF rec
<1> QED BY <1>1, <1>2, <1>3, NothingChanges, GoesOnWith DEF CouponIInv

\* the steps of ValidateCoupon and RemoveCoupon after the first
LEMMA ReadStep ==
    ASSUME CouponIInv, NEW r \in Caller,
           \/ ApplyAutoDiscount(r) \/ ApplyNoDiscount(r) \/ LookForCode(r) \/ LookFails(r)
           \/ ApplyPromoCode(r) \/ CountByUser(r) \/ CouponReturn(r)
    PROVE  CouponIInv'
<1>. CouponState /\ CouponCalls
  BY DEF CouponIInv
<1>1. UNCHANGED couponVars
  BY DEF ApplyAutoDiscount, ApplyNoDiscount, LookForCode, LookFails, ApplyPromoCode,
        CountByUser, CouponReturn
<1>2. /\ CouponState' /\ code' = code /\ bare \subseteq bare'
      /\ \A x \in Booking, q \in Caller :
            Serves(q, x) /\ HasPromo(x) => HasPromo(x)' \/ q \in bare'
  BY <1>1, NothingChanges
<1>3. /\ call[r] \in CouponCall /\ CallOK(r)
      /\ call[r].at \in {"auto", "look", "apply", "count", "finished"}
  BY IsCallAt DEF ApplyAutoDiscount, ApplyNoDiscount, LookForCode, LookFails,
        ApplyPromoCode, CountByUser, CouponReturn, At, CouponAt
<1>4. /\ call[r].then \in {"apply", "finished"} /\ call[r].b \in Booking
      /\ call[r].by \in Customer /\ call[r].coupon \in Coupon
  BY <1>3 DEF CouponCall
<1>5. CASE ApplyAutoDiscount(r)
  <2>. DEFINE coupon == [call[r].coupon EXCEPT !.auto = AutoDiscount(call[r].fresh)]
              rec == [call[r] EXCEPT !.at = "look", !.coupon = coupon]
  <2>1. call' = [call EXCEPT ![r] = rec] /\ At(r, "auto")
    BY <1>5, <1>3 DEF ApplyAutoDiscount, CouponCalls
  <2>2. AutoDiscount(call[r].fresh) \in 0..Price
    BY AutoDiscountBounds DEF CouponState
  <2>3. coupon \in Coupon /\ coupon.promo = NoPromo
    BY <1>3, <1>4, <2>1, <2>2 DEF Coupon, CallOK, At
  <2>. HIDE DEF coupon
  <2>4. rec \in CouponCall /\ rec.at = "look" /\ rec.b = call[r].b /\ rec.coupon = coupon
    BY <1>3, <2>3 DEF CouponCall
  <2>5. r \in bare' \/ pendingCoupon'[rec.b].promo # NoPromo
    BY <1>1, <1>3, <2>1, <2>4 DEF CallOK, At, HasPromo, couponVars
  <2>6. Fair(rec.coupon)
    BY <2>3, <2>4 DEF Fair
  <2>. HIDE DEF rec
  <2> QED BY <1>2, <2>1, <2>3, <2>4, <2>5, <2>6, GoesOnWith DEF CouponIInv
<1>6. CASE ApplyNoDiscount(r)
  BY <1>2, <1>3, <1>4, <1>6, GoesOn DEF ApplyNoDiscount, CouponIInv
<1>7. CASE LookForCode(r)
  <2>1. CASE HasPromo(call[r].b)
    <3>. DEFINE rec == [call[r] EXCEPT !.at = call[r].then,
                                       !.coupon = pendingCoupon[call[r].b]]
    <3>1. call' = [call EXCEPT ![r] = rec]
      BY <1>7, <2>1 DEF LookForCode, Applied
    <3>2. pendingCoupon[call[r].b] \in Coupon /\ Fair(pendingCoupon[call[r].b])
      BY <1>4 DEF CouponState
    <3>3. /\ rec \in CouponCall /\ rec.at \in {"apply", "finished"}
          /\ rec.coupon = pendingCoupon[call[r].b]
      BY <1>3, <1>4, <3>2 DEF CouponCall
    <3>. HIDE DEF rec
    <3> QED BY <1>2, <3>1, <3>2, <3>3, GoesOnWith DEF CouponIInv
  <2>2. CASE ~HasPromo(call[r].b)
    <3>. DEFINE rec == [call[r] EXCEPT !.at = "save_auto"]
    <3>1. call' = [call EXCEPT ![r] = rec] /\ At(r, "look")
      BY <1>7, <2>2 DEF LookForCode, Applied, Goto
    <3>2. rec \in CouponCall /\ rec.at = "save_auto" /\ rec.coupon = call[r].coupon
      BY <1>3 DEF CouponCall
    <3>3. r \in bare' /\ Fair(rec.coupon)
      BY <1>2, <1>3, <2>2, <3>1, <3>2 DEF CallOK, At
    <3>. HIDE DEF rec
    <3> QED BY <1>2, <3>1, <3>2, <3>3, GoesOnWith DEF CouponIInv
  <2> QED BY <2>1, <2>2
<1>8. CASE LookFails(r)
  <2>. DEFINE rec == [call[r] EXCEPT !.at = "save_auto", !.blind = TRUE]
  <2>1. call' = [call EXCEPT ![r] = rec]
    BY <1>8 DEF LookFails
  <2>2. /\ rec \in CouponCall /\ rec.at = "save_auto" /\ rec.coupon = call[r].coupon
        /\ rec.blind
    BY <1>3 DEF CouponCall
  <2>3. Fair(rec.coupon)
    BY <1>3, <2>2 DEF CallOK
  <2>. HIDE DEF rec
  <2> QED BY <1>2, <2>1, <2>2, <2>3, GoesOnWith DEF CouponIInv
<1>9. CASE ApplyPromoCode(r)
  <2>1. CASE Goto(r, "count")
    BY <1>2, <1>3, <2>1, GoesOn DEF CouponIInv
  <2>2. CASE Return(r)
    BY <1>2, <2>2, GoesAway DEF CouponIInv
  <2> QED BY <1>9, <2>1, <2>2 DEF ApplyPromoCode
<1>10. CASE CountByUser(r)
  <2>1. CASE Return(r)
    BY <1>2, <2>1, GoesAway DEF CouponIInv
  <2>2. CASE ~Return(r)
    <3>. DEFINE coupon == [auto  |-> Stacked(call[r].coupon.auto),
                           promo |-> CalcDiscount(code, Price)]
                rec == [call[r] EXCEPT !.at = "save_code", !.coupon = coupon]
    <3>1. call' = [call EXCEPT ![r] = rec]
      BY <1>10, <2>2 DEF CountByUser
    <3>2. code.value \in Nat /\ code.max \in Nat
      BY CouponAssumption DEF CouponState, PromoCode
    <3>3. CalcDiscount(code, Price) \in 0..Price
      BY <3>2, CalcDiscountBounds, CouponAssumption
    <3>4. Stacked(call[r].coupon.auto) \in 0..Price
      BY <1>4, CouponAssumption DEF Stacked, Coupon
    <3>5. coupon \in Coupon /\ coupon.promo # NoPromo
      BY <3>3, <3>4 DEF Coupon, NoPromo
    <3>6. Fair(coupon)
      BY DEF Fair, Stacked
    <3>. HIDE DEF coupon
    <3>7. rec \in CouponCall /\ rec.at = "save_code" /\ rec.coupon = coupon
      BY <1>3, <3>5 DEF CouponCall
    <3>. HIDE DEF rec
    <3> QED BY <1>2, <3>1, <3>5, <3>6, <3>7, GoesOnWith DEF CouponIInv
  <2> QED BY <2>1, <2>2
<1>11. CASE CouponReturn(r)
  BY <1>2, <1>11, GoesAway DEF CouponReturn, CouponIInv
<1> QED BY <1>5, <1>6, <1>7, <1>8, <1>9, <1>10, <1>11

LEMMA SaveStep ==
    ASSUME CouponIInv, NEW r \in Caller,
           SaveAutoDiscount(r) \/ SavePromo(r) \/ PersistCoupon(r)
    PROVE  CouponIInv'
<1>. CouponState /\ CouponCalls
  BY DEF CouponIInv
<1>1. call[r] \in CouponCall /\ CallOK(r)
  BY IsCallAt DEF SaveAutoDiscount, SavePromo, PersistCoupon, At, CouponAt
<1>2. /\ call[r].coupon \in Coupon /\ Fair(call[r].coupon)
      /\ call[r].then \in {"apply", "finished"}
  BY <1>1 DEF CouponCall, CallOK
<1>3. PICK coupon \in {call[r].coupon, Nothing} :
          Attach(call[r].b, coupon) \/ UNCHANGED <<pendingCoupon, bare>>
  BY DEF SaveAutoDiscount, SavePromo, PersistCoupon
<1>4. UNCHANGED <<code, offers, promoUsage, promoUse, isNew>>
  BY DEF SaveAutoDiscount, SavePromo, PersistCoupon
<1>5. /\ CouponState' /\ bare \subseteq bare'
      /\ \A x \in Booking, q \in Caller :
            Serves(q, x) /\ HasPromo(x) => HasPromo(x)' \/ q \in bare'
  BY <1>1, <1>2, <1>3, <1>4, NothingOK, SaveOK
<1>6. \/ Return(r)
      \/ \E label \in {"apply", "finished", "after"} : Goto(r, label)
  BY <1>2 DEF SaveAutoDiscount, SavePromo, PersistCoupon
<1> QED BY <1>1, <1>4, <1>5, <1>6, GoesOn, GoesAway DEF CouponIInv

LEMMA PaidStep ==
    ASSUME CouponIInv, NEW r \in Caller,
           IncrementUsage(r) \/ InsertUse(r) \/ NoLongerNew(r) \/ PaymentSettled(r)
    PROVE  CouponIInv'
<1>. CouponState /\ CouponCalls
  BY DEF CouponIInv
<1>1. call[r] \in CouponCall /\ CallOK(r)
  BY IsCallAt DEF IncrementUsage, InsertUse, NoLongerNew, PaymentSettled, At, CouponAt
<1>2. CASE IncrementUsage(r) \/ InsertUse(r) \/ NoLongerNew(r)
  <2>1. CouponState' /\ UNCHANGED <<code, pendingCoupon, bare>>
    BY <1>2, PaidState
  <2>2. \A x \in Booking, q \in Caller :
            Serves(q, x) /\ HasPromo(x) => HasPromo(x)' \/ q \in bare'
    BY <2>1 DEF HasPromo
  <2>3. \E label \in {"use", "aged", "persist"} : Goto(r, label)
    BY <1>2 DEF IncrementUsage, InsertUse, NoLongerNew, AfterRefusal
  <2> QED BY <1>1, <2>1, <2>2, <2>3, GoesOn DEF CouponIInv
<1>3. CASE PaymentSettled(r)
  <2>1. /\ CouponState' /\ code' = code /\ bare \subseteq bare'
        /\ \A x \in Booking, q \in Caller :
              Serves(q, x) /\ HasPromo(x) => HasPromo(x)' \/ q \in bare'
    BY <1>3, NothingChanges DEF PaymentSettled
  <2>2. CASE Return(r)
    BY <2>1, <2>2, GoesAway DEF CouponIInv
  <2>3. CASE ~Return(r)
    <3>. DEFINE rec == [call[r] EXCEPT !.at = "paid", !.tries = @ + 1]
    <3>1. call' = [call EXCEPT ![r] = rec] /\ call[r].tries < Attempts
      BY <1>3, <2>3 DEF PaymentSettled
    <3>2. call[r].tries + 1 \in 0..Attempts
      BY <1>1, <3>1, CouponAssumption DEF CouponCall
    <3>3. rec \in CouponCall /\ rec.at = "paid" /\ rec.coupon = call[r].coupon
      BY <1>1, <3>2 DEF CouponCall
    <3>4. Fair(rec.coupon)
      BY <1>1, <3>3 DEF CallOK
    <3>. HIDE DEF rec
    <3> QED BY <2>1, <3>1, <3>3, <3>4, GoesOnWith DEF CouponIInv
  <2> QED BY <2>2, <2>3
<1> QED BY <1>2, <1>3

LEMMA CouponStep == CouponIInv /\ CouponNext => CouponIInv'
BY ValidateStep, RemoveStep, InitiateStep, ReadStep, SaveStep, PaidStep DEF CouponNext

-----------------------------------------------------------------------------
(* The uses: each is inserted by a call that has counted it before *)

Inserting == {r \in Caller : At(r, "use")}

UsesFit == Len(promoUse) + Cardinality(Inserting) <= promoUsage

LEMMA InsertingFinite ==
    /\ Cardinality(Inserting) \in Nat /\ IsFiniteSet(Inserting)
    /\ Cardinality(Inserting') \in Nat /\ IsFiniteSet(Inserting')
<1>1. Inserting \in SUBSET Caller /\ Inserting' \in SUBSET Caller
  BY DEF Inserting
<1>2. IsFiniteSet(Inserting) /\ IsFiniteSet(Inserting')
  BY <1>1, CallerAssumption, FS_Subset
<1> QED BY <1>2, FS_CardinalityType

LEMMA UsesInit == CouponInit => UsesCounted /\ (CallInit => UsesFit)
<1>1. ASSUME CallInit PROVE Inserting = {}
  BY <1>1 DEF CallInit, Inserting, At, Fresh
<1>2. ASSUME CallInit PROVE Cardinality(Inserting) = 0
  BY <1>1, <1>2, FS_EmptySet
<1> QED BY <1>2 DEF CouponInit, UsesCounted, UsesFit

LEMMA UsesMeanCounted == CouponState /\ UsesFit => UsesCounted
BY InsertingFinite DEF CouponState, UsesFit, UsesCounted

\* r alone moves; it counts before it begins to insert, and has left when it has inserted
LEMMA UsesMove ==
    ASSUME CouponState, UsesFit, NEW r \in Caller,
           \A q \in Caller \ {r} : call'[q] = call[q],
           promoUsage' \in Nat, Len(promoUse') \in Nat,
           \/ /\ Len(promoUse') = Len(promoUse) /\ promoUsage' >= promoUsage
              /\ call'[r].at # "use"
           \/ Len(promoUse') = Len(promoUse) /\ promoUsage' = promoUsage + 1
           \/ /\ At(r, "use") /\ call'[r].at # "use"
              /\ Len(promoUse') <= Len(promoUse) + 1 /\ promoUsage' = promoUsage
    PROVE  UsesFit'
<1>. DEFINE n == Cardinality(Inserting)
            m == Cardinality(Inserting')
<1>1. n \in Nat /\ m \in Nat /\ IsFiniteSet(Inserting) /\ IsFiniteSet(Inserting')
  BY InsertingFinite
<1>2. Len(promoUse) \in Nat /\ promoUsage \in Nat
  BY DEF CouponState
<1>3. CASE call'[r].at # "use"
  <2>1. Inserting' = Inserting \ {r}
    BY <1>3 DEF Inserting, At
  <2>2. m = IF r \in Inserting THEN n - 1 ELSE n
    BY <1>1, <2>1, FS_RemoveElement
  <2>3. At(r, "use") => m = n - 1
    BY <2>2 DEF Inserting
  <2>4. m <= n
    BY <1>1, <2>2
  <2>. HIDE DEF n, m
  <2>5. Len(promoUse') + m <= promoUsage'
    BY <1>1, <1>2, <1>3, <2>3, <2>4 DEF UsesFit, n
  <2> QED BY <2>5 DEF UsesFit, m
<1>4. CASE call'[r].at = "use"
  <2>1. Inserting' = Inserting \union {r}
    BY <1>4 DEF Inserting, At
  <2>2. m <= n + 1
    BY <1>1, <2>1, FS_AddElement
  <2>. HIDE DEF n, m
  <2>3. Len(promoUse') + m <= promoUsage'
    BY <1>1, <1>2, <1>4, <2>2 DEF UsesFit, n
  <2> QED BY <2>3 DEF UsesFit, m
<1> QED BY <1>3, <1>4

\* the label a call goes to
LEMMA GoneTo ==
    ASSUME CouponCalls, NEW r \in Caller, NEW rec, call' = [call EXCEPT ![r] = rec]
    PROVE  call'[r].at = rec.at /\ \A q \in Caller \ {r} : call'[q] = call[q]
BY DEF CouponCalls

LEMMA GoneToLabel ==
    ASSUME CouponCalls, NEW r \in Caller, NEW label, Goto(r, label), call[r] \in CouponCall
    PROVE  call'[r].at = label /\ \A q \in Caller \ {r} : call'[q] = call[q]
<1>. DEFINE rec == [call[r] EXCEPT !.at = label]
<1>1. call' = [call EXCEPT ![r] = rec]
  BY GotoIs
<1>2. rec.at = label
  BY DEF CouponCall
<1>. HIDE DEF rec
<1> QED BY <1>1, <1>2, GoneTo

\* the steps that neither count nor insert never lead to an insertion
LEMMA AskNoUse ==
    ASSUME CouponIInv, NEW r \in Caller, NEW b \in Booking,
           \/ \E c \in Customer : ValidateCoupon(r, b, c) \/ RemoveCoupon(r, b, c)
           \/ InitiatePayment(r, b)
    PROVE  /\ UNCHANGED <<promoUse, promoUsage>> /\ call'[r].at # "use"
           /\ \A q \in Caller \ {r} : call'[q] = call[q]
<1>. CouponCalls
  BY DEF CouponIInv
<1>1. UNCHANGED <<promoUse, promoUsage>>
  BY DEF ValidateCoupon, RemoveCoupon, InitiatePayment, couponVars
<1>2. CASE InitiatePayment(r, b)
  <2>. DEFINE rec == [Ask(b, Owner[b], "finished") EXCEPT
                        !.at = "paid", !.coupon = pendingCoupon[b], !.tries = 1]
  <2>1. call' = [call EXCEPT ![r] = rec]
    BY <1>2 DEF InitiatePayment, Enter
  <2>2. rec.at = "paid"
    BY DEF Ask
  <2>. HIDE DEF rec
  <2> QED BY <1>1, <2>1, <2>2, GoneTo
<1>3. ASSUME NEW c \in Customer, NEW then \in {"apply", "finished"},
             Enter(r, Ask(b, c, then))
      PROVE  call'[r].at # "use" /\ \A q \in Caller \ {r} : call'[q] = call[q]
  <2>. DEFINE rec == Ask(b, c, then)
  <2>1. call' = [call EXCEPT ![r] = rec]
    BY <1>3 DEF Enter
  <2>2. rec.at = "auto"
    BY DEF Ask
  <2>. HIDE DEF rec
  <2> QED BY <2>1, <2>2, GoneTo
<1> QED BY <1>1, <1>2, <1>3 DEF ValidateCoupon, RemoveCoupon

LEMMA NoUse ==
    ASSUME CouponIInv, NEW r \in Caller,
           \/ ApplyAutoDiscount(r) \/ ApplyNoDiscount(r)
           \/ LookForCode(r) \/ LookFails(r) \/ SaveAutoDiscount(r)
           \/ ApplyPromoCode(r) \/ CountByUser(r) \/ SavePromo(r) \/ CouponReturn(r)
           \/ NoLongerNew(r) \/ PersistCoupon(r) \/ PaymentSettled(r)
    PROVE  /\ UNCHANGED <<promoUse, promoUsage>> /\ call'[r].at # "use"
           /\ \A q \in Caller \ {r} : call'[q] = call[q]
<1>. CouponCalls
  BY DEF CouponIInv
<1>1. UNCHANGED <<promoUse, promoUsage>>
  BY DEF ApplyAutoDiscount, ApplyNoDiscount, LookForCode, LookFails, SaveAutoDiscount,
        ApplyPromoCode, CountByUser, SavePromo, CouponReturn, NoLongerNew, PersistCoupon,
        PaymentSettled, couponVars
<1>2. call[r] \in CouponCall /\ call[r].then \in {"apply", "finished"}
  BY IsCallAt DEF CouponAt, CouponCall, ApplyAutoDiscount, ApplyNoDiscount, LookForCode,
        LookFails, SaveAutoDiscount, ApplyPromoCode, CountByUser, SavePromo, CouponReturn,
        NoLongerNew, PersistCoupon, PaymentSettled
<1>3. CASE Return(r)
  <2>1. call' = [call EXCEPT ![r] = Done] /\ Done.at = "done"
    BY <1>3 DEF Return, Enter, Done
  <2> QED BY <1>1, <2>1, GoneTo
<1>4. CASE \E label \in {"apply", "count", "save_auto", "persist", "after", "finished"} :
               Goto(r, label)
  BY <1>1, <1>2, <1>4, GoneToLabel
<1>5. CASE ApplyAutoDiscount(r)
  <2>. DEFINE rec == [call[r] EXCEPT !.at = "look", !.coupon.auto = AutoDiscount(call[r].fresh)]
  <2>1. call' = [call EXCEPT ![r] = rec] /\ rec.at = "look"
    BY <1>2, <1>5 DEF ApplyAutoDiscount, CouponCalls, CouponCall
  <2>. HIDE DEF rec
  <2> QED BY <1>1, <2>1, GoneTo
<1>6. CASE LookForCode(r) /\ Applied(call[r].b)
  <2>. DEFINE rec == [call[r] EXCEPT !.at = call[r].then, !.coupon = pendingCoupon[call[r].b]]
  <2>1. call' = [call EXCEPT ![r] = rec] /\ rec.at # "use"
    BY <1>2, <1>6 DEF LookForCode, CouponCall
  <2>. HIDE DEF rec
  <2> QED BY <1>1, <2>1, GoneTo
<1>7. CASE LookFails(r)
  <2>. DEFINE rec == [call[r] EXCEPT !.at = "save_auto", !.blind = TRUE]
  <2>1. call' = [call EXCEPT ![r] = rec] /\ rec.at # "use"
    BY <1>2, <1>7 DEF LookFails, CouponCall
  <2>. HIDE DEF rec
  <2> QED BY <1>1, <2>1, GoneTo
<1>8. CASE CountByUser(r) /\ ~Return(r)
  <2>. DEFINE rec == [call[r] EXCEPT !.at = "save_code",
                         !.coupon = [auto  |-> Stacked(call[r].coupon.auto),
                                     promo |-> CalcDiscount(code, Price)]]
  <2>1. call' = [call EXCEPT ![r] = rec] /\ rec.at # "use"
    BY <1>2, <1>8 DEF CountByUser, CouponCall
  <2>. HIDE DEF rec
  <2> QED BY <1>1, <2>1, GoneTo
<1>9. CASE PaymentSettled(r) /\ ~Return(r)
  <2>. DEFINE rec == [call[r] EXCEPT !.at = "paid", !.tries = @ + 1]
  <2>1. call' = [call EXCEPT ![r] = rec] /\ rec.at # "use"
    BY <1>2, <1>9 DEF PaymentSettled, CouponCall
  <2>. HIDE DEF rec
  <2> QED BY <1>1, <2>1, GoneTo
<1> QED BY <1>2, <1>3, <1>4, <1>5, <1>6, <1>7, <1>8, <1>9 DEF ApplyNoDiscount, LookForCode,
           SaveAutoDiscount, ApplyPromoCode, SavePromo, CouponReturn, NoLongerNew, PersistCoupon

LEMMA UsesStep ==
    ASSUME CouponIInv, UsesFit, CouponNext
    PROVE  UsesFit'
<1>. CouponState /\ CouponCalls
  BY DEF CouponIInv
<1>. PICK r \in Caller :
        \/ \E b \in Booking, c \in Customer : ValidateCoupon(r, b, c) \/ RemoveCoupon(r, b, c)
        \/ \E b \in Booking : InitiatePayment(r, b)
        \/ ApplyAutoDiscount(r) \/ ApplyNoDiscount(r)
        \/ LookForCode(r) \/ LookFails(r) \/ SaveAutoDiscount(r)
        \/ ApplyPromoCode(r) \/ CountByUser(r) \/ SavePromo(r) \/ CouponReturn(r)
        \/ IncrementUsage(r) \/ InsertUse(r) \/ NoLongerNew(r)
        \/ PersistCoupon(r) \/ PaymentSettled(r)
  BY DEF CouponNext
<1>1. CouponState' /\ promoUsage' \in Nat /\ Len(promoUse') \in Nat
  <2>1. CouponState'
    BY CouponStep DEF CouponIInv
  <2> QED BY <2>1 DEF CouponState
<1>2. promoUsage \in Nat /\ Len(promoUse) \in Nat
  BY DEF CouponState
<1>3. CASE IncrementUsage(r)
  <2>1. call[r] \in CouponCall
    BY <1>3, IsCallAt DEF IncrementUsage, CouponAt
  <2>2. promoUse' = promoUse /\ promoUsage' \in {promoUsage, promoUsage + 1}
    BY <1>3 DEF IncrementUsage
  <2>3. CASE Goto(r, "use") /\ promoUsage' = promoUsage + 1
    BY <1>1, <2>1, <2>2, <2>3, GoneToLabel, UsesMove
  <2>4. CASE Goto(r, "aged")
    BY <1>1, <1>2, <2>1, <2>2, <2>4, GoneToLabel, UsesMove
  <2> QED BY <1>3, <2>3, <2>4 DEF IncrementUsage, AfterRefusal
<1>4. CASE InsertUse(r)
  <2>1. call[r] \in CouponCall /\ At(r, "use")
    BY <1>4, IsCallAt DEF InsertUse, CouponAt
  <2>2. call'[r].at = "aged" /\ \A q \in Caller \ {r} : call'[q] = call[q]
    BY <1>4, <2>1, GoneToLabel DEF InsertUse
  <2>3. Len(promoUse') <= Len(promoUse) + 1 /\ promoUsage' = promoUsage
    BY <1>4, <2>1 DEF InsertUse, CouponState, CouponCall
  <2> QED BY <1>1, <2>1, <2>2, <2>3, UsesMove
<1>5. CASE ~IncrementUsage(r) /\ ~InsertUse(r)
  <2>1. /\ UNCHANGED <<promoUse, promoUsage>> /\ call'[r].at # "use"
        /\ \A q \in Caller \ {r} : call'[q] = call[q]
    BY <1>5, NoUse, AskNoUse
  <2> QED BY <1>1, <1>2, <2>1, UsesMove
<1> QED BY <1>3, <1>4, <1>5

LEMMA UsesAfter ==
    ASSUME CouponIInv, UsesFit, CouponNext
    PROVE  UsesFit' /\ UsesCounted'
<1>1. UsesFit' /\ CouponState'
  BY UsesStep, CouponStep DEF CouponIInv
<1>2. (CouponState /\ UsesFit => UsesCounted)'
  BY UsesMeanCounted, PTL
<1> QED BY <1>1, <1>2

-----------------------------------------------------------------------------
(* What follows *)

LEMMA CouponSafe == CouponState => NoOverdraft /\ CapHolds
<1>. SUFFICES ASSUME CouponState, NEW b \in Booking, ~code.stacking
              PROVE  Payable(pendingCoupon[b]) >= 0
  BY DEF NoOverdraft, CouponState
<1>1. pendingCoupon[b] \in Coupon /\ Fair(pendingCoupon[b])
  BY DEF CouponState
<1>. DEFINE coupon == pendingCoupon[b]
<1>. HIDE DEF coupon
<1>2. coupon \in Coupon /\ Fair(coupon)
  BY <1>1 DEF coupon
<1>3. CASE coupon.promo = NoPromo
  BY <1>2, <1>3, CouponAssumption DEF Payable, Coupon, coupon
<1>4. CASE coupon.promo # NoPromo
  <2>1. coupon.auto = 0 /\ coupon.promo \in 0..Price
    BY <1>2, <1>4 DEF Fair, Coupon
  <2> QED BY <1>4, <2>1, CouponAssumption DEF Payable, coupon
<1> QED BY <1>3, <1>4

LEMMA CouponTypes == CouponIInv => CouponTypeOK
BY DEF CouponIInv, CouponState, CouponCalls, CouponTypeOK

\* a step that takes a code off a booking
LEMMA PromoGoes ==
    ASSUME CouponIInv, CouponNext, NEW b \in Booking, HasPromo(b), ~HasPromo(b)'
    PROVE  \E r \in Caller :
               /\ call'[r] # call[r]
               /\ \/ At(r, "new") /\ call'[r].then = "finished"
                  \/ At(r, "persist")
                  \/ At(r, "save_auto") /\ (call[r].blind \/ r \in bare)
<1>. CouponState /\ CouponCalls
  BY DEF CouponIInv
<1>1. PICK r \in Caller :
          \/ \E x \in Booking, c \in Customer : RemoveCoupon(r, x, c)
          \/ SaveAutoDiscount(r) \/ SavePromo(r) \/ PersistCoupon(r)
  BY DEF CouponNext, ValidateCoupon, InitiatePayment, ApplyAutoDiscount, ApplyNoDiscount,
        LookForCode, LookFails, ApplyPromoCode, CountByUser, CouponReturn, IncrementUsage,
        InsertUse, NoLongerNew, PaymentSettled, HasPromo, couponVars
<1>2. ASSUME NEW x \in Booking, NEW c \in Customer, RemoveCoupon(r, x, c)
      PROVE  At(r, "new") /\ call'[r].then = "finished" /\ call'[r] # call[r]
  <2>1. call'[r] = Ask(x, c, "finished") /\ At(r, "new")
    BY <1>2 DEF RemoveCoupon, Enter, CouponCalls
  <2> QED BY <2>1, AskOK DEF At
<1>3. CASE SaveAutoDiscount(r)
  <2>1. /\ At(r, "save_auto") /\ call[r] \in CouponCall /\ CallOK(r)
        /\ call'[r] = [call[r] EXCEPT !.at = call[r].then]
    BY <1>3, IsCallAt DEF SaveAutoDiscount, CouponAt, Goto, CouponCalls
  <2>2. call'[r] # call[r]
    BY <2>1 DEF At, CouponCall
  <2> QED BY <2>1, <2>2 DEF CallOK, At
<1>4. CASE SavePromo(r)
  <2>1. call[r] \in CouponCall /\ CallOK(r) /\ call[r].at = "save_code"
    BY <1>4, IsCallAt DEF SavePromo, CouponAt
  <2>2. call[r].coupon.promo # NoPromo
    BY <2>1 DEF CallOK
  <2> QED BY <1>4, <2>2 DEF SavePromo, Attach, HasPromo, CouponState
<1>5. CASE PersistCoupon(r)
  <2>1. /\ At(r, "persist") /\ call[r] \in CouponCall
        /\ call'[r] = [call[r] EXCEPT !.at = "after"]
    BY <1>5, IsCallAt DEF PersistCoupon, CouponAt, Goto, CouponCalls
  <2>2. call'[r] # call[r]
    BY <2>1 DEF At, CouponCall
  <2> QED BY <2>1, <2>2
<1> QED BY <1>1, <1>2, <1>3, <1>4, <1>5

=============================================================================
