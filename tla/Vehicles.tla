------------------------------ MODULE Vehicles ------------------------------
(***************************************************************************)
(* The vehicles of a customer: a primary one and others, kept in his       *)
(* document and changed by several calls each. The others are a list that  *)
(* $setUnion builds, in an order it leaves open; it is only ever shortened *)
(* otherwise, and is a set here.                                           *)
(***************************************************************************)
EXTENDS Calls, Integers, Sequences

CONSTANT PlateNumber

VARIABLES
    garage,     \* collection vehicles: their numbers, in the order of insertion
    primary,    \* primaryVehicleId: a position in garage, 0 for none
    fallbacks,  \* fallbackVehicleIds
    overlap     \* history: two calls of the customer have been under way at a time

vehicleVars == <<garage, primary, fallbacks, overlap>>

\* id: the vehicle saved or to be deleted; rest: the others to be written
VehicleCall == [at : {"find", "create", "read", "set_primary", "add",
                      "remove", "promote", "clear", "shrink", "check", "update"},
                number : PlateNumber, id : Nat, rest : SUBSET Nat]

VehicleTypeOK ==
    /\ garage \in Seq(PlateNumber)
    /\ primary \in 0..Len(garage)
    /\ fallbacks \subseteq 1..Len(garage)
    /\ overlap \in BOOLEAN
    /\ \A r \in Caller : call[r] \in VehicleCall \union {Fresh, Done}

VehicleInit ==
    /\ garage = <<>> /\ primary = 0 /\ fallbacks = {}
    /\ overlap = FALSE

Idle(r) == call[r] \in {Fresh, Done}

Begin(r, rec) ==
    /\ At(r, "new")
    /\ Enter(r, rec)
    /\ overlap' = (overlap \/ \E q \in Caller : ~Idle(q))
    /\ UNCHANGED <<garage, primary, fallbacks>>

SaveVehicle(r, n) ==
    Begin(r, [at |-> "find", number |-> n, id |-> 0, rest |-> {}])
DeleteVehicle(r, id) ==
    Begin(r, [at |-> "remove", number |-> garage[id], id |-> id, rest |-> {}])

\* the vehicles are shared by all customers; nothing keeps their numbers apart
FindByNumber(r) ==
    /\ At(r, "find")
    /\ LET known == {id \in DOMAIN garage : garage[id] = call[r].number} IN
       \/ known = {} /\ Goto(r, "create")
       \/ \E id \in known : call' = [call EXCEPT ![r].at = "read", ![r].id = id]
    /\ UNCHANGED vehicleVars

CreateVehicle(r) ==
    /\ At(r, "create")
    /\ garage' = Append(garage, call[r].number)
    /\ call' = [call EXCEPT ![r].at = "read", ![r].id = Len(garage) + 1]
    /\ UNCHANGED <<primary, fallbacks, overlap>>

Mine == {primary} \union fallbacks

ReadUser(r) ==
    /\ At(r, "read")
    /\ IF primary = 0 THEN Goto(r, "set_primary")
       ELSE IF call[r].id \in Mine THEN Return(r)
       ELSE Goto(r, "add")
    /\ UNCHANGED vehicleVars

\* mutation: the filter knows a missing primary vehicle, not one that is null
SettableMissing == FALSE

\* SetPrimaryVehicle writes only where there is none; that it matches nothing is no error
Settable == primary = 0

SetPrimary(r) ==
    /\ At(r, "set_primary")
    /\ primary' = IF Settable THEN call[r].id ELSE primary
    /\ Return(r)
    /\ UNCHANGED <<garage, fallbacks, overlap>>

AddFallback(r) ==
    /\ At(r, "add")
    /\ fallbacks' = fallbacks \union {call[r].id}
    /\ Return(r)
    /\ UNCHANGED <<garage, primary, overlap>>

Promotes(others) == others # {}

ReadToRemove(r) ==
    /\ At(r, "remove")
    /\ LET id == call[r].id IN
       IF primary = id
       THEN IF Promotes(fallbacks)
            THEN call' = [call EXCEPT ![r].at = "promote", ![r].rest = fallbacks]
            ELSE Goto(r, "clear")
       ELSE IF id \in fallbacks
       THEN call' = [call EXCEPT ![r].at = "shrink", ![r].rest = fallbacks \ {id}]
       ELSE Return(r)
    /\ UNCHANGED vehicleVars

\* the first of the others, by SetPrimaryVehicle again, which finds the old one still there
Promote(r) ==
    /\ At(r, "promote")
    /\ \E f \in call[r].rest :
           /\ primary' = IF Settable THEN f ELSE primary
           /\ call' = [call EXCEPT ![r].at = "shrink", ![r].rest = @ \ {f}]
    /\ UNCHANGED <<garage, fallbacks, overlap>>

Shrink(r) ==
    /\ At(r, "shrink")
    /\ fallbacks' = call[r].rest
    /\ Return(r)
    /\ UNCHANGED <<garage, primary, overlap>>

ClearPrimary(r) ==
    /\ At(r, "clear")
    /\ primary' = 0
    /\ Return(r)
    /\ UNCHANGED <<garage, fallbacks, overlap>>

-----------------------------------------------------------------------------
(* UpdateVehicle: the document itself changes, its number too *)

UpdateVehicle(r, id, n) ==
    Begin(r, [at |-> "check", number |-> n, id |-> id, rest |-> {}])

CheckOwner(r) ==
    /\ At(r, "check")
    /\ IF call[r].id \in Mine THEN Goto(r, "update") ELSE Return(r)
    /\ UNCHANGED vehicleVars

\* nobody looks whether another vehicle has the number
Renumber(r) ==
    /\ At(r, "update")
    /\ garage' = [garage EXCEPT ![call[r].id] = call[r].number]
    /\ Return(r)
    /\ UNCHANGED <<primary, fallbacks, overlap>>

VehicleNext ==
    \E r \in Caller :
        \/ \E n \in PlateNumber : SaveVehicle(r, n)
        \/ \E id \in DOMAIN garage : DeleteVehicle(r, id)
        \/ \E id \in DOMAIN garage, n \in PlateNumber : UpdateVehicle(r, id, n)
        \/ CheckOwner(r) \/ Renumber(r)
        \/ FindByNumber(r) \/ CreateVehicle(r) \/ ReadUser(r) \/ SetPrimary(r) \/ AddFallback(r)
        \/ ReadToRemove(r) \/ Promote(r) \/ Shrink(r) \/ ClearPrimary(r)

-----------------------------------------------------------------------------
(* Properties *)

\* A primary vehicle if there are any, and not among the others.
Consistent ==
    /\ fallbacks # {} => primary # 0
    /\ primary \notin fallbacks

\* Calls of a customer that never overlapped leave his vehicles consistent and take
\* effect: a vehicle is there, under the number asked for, when its save has returned,
\* and gone when its deletion has, but for a primary one with others beside it: that one
\* stays, and the first of the others goes instead (user_vehicle_service.go).
CallsTakeEffect == [][
    \A r \in Caller : ~overlap /\ call[r] \in VehicleCall /\ call'[r] = Done =>
        /\ Consistent'
        /\ call[r].at \in {"read", "set_primary", "add"} =>
                call[r].id \in Mine' /\ garage'[call[r].id] = call[r].number
        /\ At(r, "clear") \/ (call[r].at \in {"remove", "shrink"} /\ call[r].id # primary) =>
                call[r].id \notin Mine'
    ]_<<vehicleVars, call>>
=============================================================================
