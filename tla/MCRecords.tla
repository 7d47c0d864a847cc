----------------------------- MODULE MCRecords -----------------------------
EXTENDS Records, TLC

CONSTANTS r1, r2, r3, b1, q1, q2, c1, p1, s1, s2, m1, d1, d2

MCOwner == [b \in {b1} |-> c1]

Promo(percent, value, max, stacking, cap, limit, audience) ==
    [percent |-> percent, value |-> value, max |-> max, stacking |-> stacking,
     cap |-> cap, limit |-> limit, audience |-> audience]

\* one that stacks and is scarce; one for new customers with a ceiling; one worth more
\* than any booking
MCCodes == {Promo(FALSE, 90, 0, TRUE, 1, 1, "all_users"),
            Promo(TRUE, 50, 40, FALSE, 1, 0, "new_users"),
            Promo(FALSE, 150, 0, FALSE, 0, 1, "existing_users")}

Offer(percent, value, audience) ==
    [percent |-> percent, value |-> value, max |-> 0, audience |-> audience]

MCOfferLists == {<<>>, <<Offer(TRUE, 20, "new_users"), Offer(FALSE, 120, "all_users")>>}

MCSymmetry == Permutations(Caller) \union Permutations(RatedBooking)
=============================================================================
