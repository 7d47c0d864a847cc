-------------------------------- MODULE Award --------------------------------
(***************************************************************************)
(* What the assignment of bookings promises, without locks, requests or    *)
(* journeys: a booking has at most one mechanic at a time; it gets one     *)
(* only while it is searched for or offered at a fixed price; a mechanic   *)
(* is taken off before the booking is given to another one; and a booking  *)
(* is searched for only once.                                              *)
(***************************************************************************)
CONSTANTS Booking, Mechanic, Nobody

VARIABLES
    phase,      \* "none", "open" (searched for), "offered" (at a fixed price), "taken"
    holder      \* the mechanic of each booking

vars == <<phase, holder>>

TypeOK ==
    /\ phase \in [Booking -> {"none", "open", "offered", "taken"}]
    /\ holder \in [Booking -> Mechanic \union {Nobody}]

Init ==
    /\ phase = [b \in Booking |-> "none"]
    /\ holder = [b \in Booking |-> Nobody]

Move(b, to, m) ==
    /\ phase' = [phase EXCEPT ![b] = to]
    /\ holder' = [holder EXCEPT ![b] = m]

\* a customer asks for a mechanic
Open(b) == phase[b] = "none" /\ Move(b, "open", Nobody)

\* a mechanic gets the booking
Award(b, m) == phase[b] \in {"open", "offered"} /\ holder[b] = Nobody /\ Move(b, "taken", m)

\* the booking goes on, or ends, without a change of mechanic
Close(b) == phase[b] # "none" /\ Move(b, "taken", holder[b])

\* the mechanic is taken off
Withdraw(b) == phase[b] = "taken" /\ Move(b, "taken", Nobody)

\* the booking is offered at a fixed price
Offer(b) == phase[b] \in {"taken", "offered"} /\ Move(b, "offered", Nobody)

Next ==
    \E b \in Booking :
        \/ Open(b) \/ Close(b) \/ Withdraw(b) \/ Offer(b)
        \/ \E m \in Mechanic : Award(b, m)

Spec == Init /\ [][Next]_vars
=============================================================================
