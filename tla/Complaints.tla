----------------------------- MODULE Complaints -----------------------------
(***************************************************************************)
(* Complaints about a booking: one document with a side of the customer    *)
(* and a side of the mechanic, referred to by the booking. A side is added *)
(* by reading the document and replacing it as a whole, while the back     *)
(* office assesses it.                                                     *)
(***************************************************************************)
EXTENDS Calls, Integers, Sequences, FiniteSets

CONSTANTS
    ComplaintBooking,
    ComplaintFaults     \* subset of {"StoreError"}

Side == {"user", "provider"}

VARIABLES
    complaints,         \* collection complaints, in the order of insertion
    complaintOf,        \* complaintOf[b][side]: position of the document the booking
                        \* refers to as complaintUser or complaintProvider, 0 for none
    complaintsCount,    \* of the customer and of the mechanic
    first,              \* history: callers who began when the booking had no complaint
    dropped             \* history: sides whose document could not be replaced

complaintVars == <<complaints, complaintOf, complaintsCount, first, dropped>>

Complaint == [b : ComplaintBooking, sides : SUBSET Side, assessed : BOOLEAN]

\* d: position of the document; copy: the document as read; new: created by this call
ComplaintCall == [at : {"look", "create", "refer", "replace"},
                  side : Side, b : ComplaintBooking, d : Nat,
                  sides : SUBSET Side, assessed : BOOLEAN, new : BOOLEAN, blind : BOOLEAN]

ComplaintTypeOK ==
    /\ complaints \in Seq(Complaint)
    /\ complaintOf \in [ComplaintBooking -> [Side -> 0..Len(complaints)]]
    /\ complaintsCount \in [Side -> Nat]
    /\ first \subseteq Caller
    /\ dropped \subseteq (DOMAIN complaints) \X Side
    /\ \A r \in Caller : /\ call[r] \in ComplaintCall \union {Fresh, Done}
                         /\ call[r].at \in {"refer", "replace"} =>
                                call[r].d \in DOMAIN complaints

ComplaintInit ==
    /\ complaints = <<>>
    /\ complaintOf = [b \in ComplaintBooking |-> [s \in Side |-> 0]]
    /\ complaintsCount = [s \in Side |-> 0]
    /\ first = {} /\ dropped = {}

About(b) == {d \in DOMAIN complaints : complaints[d].b = b}

\* the handler has taken a number from an atomic sequence; the booking must be the
\* caller's own
RaiseComplaint(r, side, b) ==
    /\ At(r, "new")
    /\ Enter(r, [at |-> "look", side |-> side, b |-> b, d |-> 0, sides |-> {}, assessed |-> FALSE, new |-> FALSE, blind |-> FALSE])
    /\ first' = IF About(b) = {} THEN first \union {r} ELSE first
    /\ UNCHANGED <<complaints, complaintOf, complaintsCount, dropped>>

\* mutation: only a complaint of one's own is looked for
ExistingOwn(b, side) == {d \in About(b) : side \in complaints[d].sides}

Existing(b, side) == About(b)

\* FindByAcceptedServiceId; an error is taken for "none"
FindComplaint(r) ==
    /\ At(r, "look")
    /\ LET c == call[r]
           found == Existing(c.b, c.side)
       IN  \/ /\ found = {}
              /\ Goto(r, "create")
           \/ \E d \in found :
                IF c.side \in complaints[d].sides
                THEN Return(r)
                ELSE call' = [call EXCEPT ![r].at = "refer", ![r].d = d,
                                 ![r].sides = complaints[d].sides,
                                 ![r].assessed = complaints[d].assessed]
           \/ /\ "StoreError" \in ComplaintFaults
              /\ call' = [call EXCEPT ![r].at = "create", ![r].blind = TRUE]
    /\ UNCHANGED complaintVars

CreateComplaint(r) ==
    /\ At(r, "create")
    /\ \/ /\ complaints' = Append(complaints, [b |-> call[r].b, sides |-> {call[r].side},
                                               assessed |-> FALSE])
          /\ call' = [call EXCEPT ![r].at = "refer", ![r].d = Len(complaints) + 1,
                                  ![r].new = TRUE]
       \/ /\ "StoreError" \in ComplaintFaults
          /\ Return(r)
          /\ UNCHANGED complaints
    /\ UNCHANGED <<complaintOf, complaintsCount, first, dropped>>

\* mutation: both branches end in UpdateComplaintByUser
ReferredByUser(side) == "user"

Referred(side) == side

\* UpdateComplaintByUser or ByProvider, then IncrementComplaintCount: two updates that
\* nobody reads between, each with an error that is ignored
UpdateReference(r) ==
    /\ At(r, "refer")
    /\ \/ complaintOf' = [complaintOf EXCEPT ![call[r].b][Referred(call[r].side)] = call[r].d]
       \/ "StoreError" \in ComplaintFaults /\ UNCHANGED complaintOf
    /\ \/ complaintsCount' = [complaintsCount EXCEPT ![call[r].side] = @ + 1]
       \/ "StoreError" \in ComplaintFaults /\ UNCHANGED complaintsCount
    /\ IF call[r].new THEN Return(r) ELSE Goto(r, "replace")
    /\ UNCHANGED <<complaints, first, dropped>>

\* mutation: the document is written anew, with the side of this call
ReplacedAnew(sides, side) == {side}

Replaced(sides, side) == sides \union {side}

\* ReplaceOne, with everything else as it was read
ReplaceComplaint(r) ==
    /\ At(r, "replace")
    /\ LET c == call[r] IN
       \/ /\ complaints' = [complaints EXCEPT ![c.d].sides = Replaced(c.sides, c.side),
                                              ![c.d].assessed = c.assessed]
          /\ UNCHANGED dropped
       \/ /\ "StoreError" \in ComplaintFaults
          /\ dropped' = dropped \union {<<c.d, c.side>>}
          /\ UNCHANGED complaints
    /\ Return(r)
    /\ UNCHANGED <<complaintOf, complaintsCount, first>>

\* the back office
Assess(d) ==
    /\ ~complaints[d].assessed
    /\ complaints' = [complaints EXCEPT ![d].assessed = TRUE]
    /\ UNCHANGED <<call, complaintOf, complaintsCount, first, dropped>>

ComplaintNext ==
    \/ \E d \in DOMAIN complaints : Assess(d)
    \/ \E r \in Caller :
        \/ \E side \in Side, b \in ComplaintBooking : RaiseComplaint(r, side, b)
        \/ FindComplaint(r) \/ CreateComplaint(r) \/ UpdateReference(r)
        \/ ReplaceComplaint(r)

-----------------------------------------------------------------------------
(* Properties *)

\* A booking gets a second complaint document only from a call that began before there
\* was one, or that could not look for it (complaint_service.go: "you have already raised
\* a complaint for this booking").
OneComplaint == [][
    \A b \in ComplaintBooking :
        About(b) # {} /\ About(b)' # About(b) =>
            \E r \in Caller : /\ At(r, "create") /\ call'[r] # call[r] /\ call[r].b = b
                              /\ r \in first \/ call[r].blind
    ]_<<complaints, call>>

\* A side once written is never lost, though documents are replaced as a whole by two
\* parties at a time; the assessment of the back office is lost only to a call that had
\* read the document before (complaint_service.go, the branch of an existing complaint).
SidesKept == [][
    \A d \in DOMAIN complaints :
        /\ complaints[d].sides \subseteq complaints'[d].sides
        /\ complaints[d].assessed /\ ~complaints'[d].assessed =>
               \E r \in Caller : /\ At(r, "replace") /\ call'[r] # call[r]
                                 /\ call[r].d = d /\ ~call[r].assessed
    ]_<<complaints, call>>

\* What a booking calls the customer's or the mechanic's complaint is a document with
\* that side, or is about to be, or the failure to write it was swallowed.
ReferenceTrue == \A b \in ComplaintBooking, s \in Side :
    LET d == complaintOf[b][s]
    IN  d # 0 => \/ s \in complaints[d].sides
                 \/ <<d, s>> \in dropped
                 \/ \E r \in Caller : /\ At(r, "replace")
                                      /\ call[r].d = d /\ call[r].side = s
=============================================================================
