--------------------------- MODULE Records_proofs ---------------------------
(***************************************************************************)
(* Proofs about Records: the inductive invariants of complaints and of     *)
(* ratings, and what follows for the whole from these, from those of       *)
(* coupons, accounts and devices, and from the fact that no part touches   *)
(* another one.                                                            *)
(***************************************************************************)
EXTENDS Records, Coupons_proofs, Accounts_proofs, Devices_proofs, TLAPS

-----------------------------------------------------------------------------
(* Complaints *)

ComplaintState ==
    /\ complaints \in Seq(Complaint)
    /\ complaintOf \in [ComplaintBooking -> [Side -> 0..Len(complaints)]]
    /\ complaintsCount \in [Side -> Nat]
    /\ first \subseteq Caller /\ dropped \subseteq (DOMAIN complaints) \X Side
    /\ \A d \in DOMAIN complaints : complaints[d].sides # {}

\* a call that found no complaint began when there was none, or was blind; a document
\* once read for a second side lacked that side alone
ComplaintOK(c, r) ==
    c \in ComplaintCall =>
        /\ c.at = "look" /\ About(c.b) = {} => r \in first
        /\ c.at = "create" => r \in first \/ c.blind
        /\ c.new => c.at = "refer" /\ c.side \in complaints[c.d].sides
        /\ c.at \in {"refer", "replace"} =>
               c.d \in DOMAIN complaints /\ (~c.new => c.sides \union {c.side} = Side)

ComplaintCalls ==
    /\ call \in [Caller -> ComplaintCall \union {Fresh, Done}]
    /\ \A r \in Caller : ComplaintOK(call[r], r)

ComplaintIInv == ComplaintState /\ ComplaintCalls /\ ReferenceTrue

LEMMA ComplaintAt ==
    ASSUME ComplaintCalls, NEW r \in Caller,
           call[r].at \in {"look", "create", "refer", "replace"}
    PROVE  call[r] \in ComplaintCall /\ ComplaintOK(call[r], r)
BY DEF ComplaintCalls, Fresh, Done

LEMMA ComplaintInitOK ==
    ComplaintInit => ComplaintState /\ (CallInit => ComplaintIInv)
<1>1. ComplaintInit => ComplaintState
  BY DEF ComplaintInit, ComplaintState
<1>2. CallInit => ComplaintCalls
  BY DEF CallInit, ComplaintCalls, ComplaintOK, ComplaintCall, Fresh
<1>3. ComplaintInit => ReferenceTrue
  BY DEF ComplaintInit, ReferenceTrue
<1> QED BY <1>1, <1>2, <1>3 DEF ComplaintIInv

\* documents are added and get sides, never the reverse
Grow == /\ complaints' \in Seq(Complaint) /\ Len(complaints) <= Len(complaints')
        /\ \A d \in DOMAIN complaints : /\ complaints'[d].b = complaints[d].b
                                        /\ complaints[d].sides \subseteq complaints'[d].sides
        /\ first \subseteq first'

LEMMA OthersStay ==
    ASSUME ComplaintState, Grow, NEW r \in Caller, NEW c, ComplaintOK(c, r)
    PROVE  ComplaintOK(c, r)'
<1>1. DOMAIN complaints \subseteq DOMAIN complaints'
  BY DEF ComplaintState, Grow
<1>2. \A b : About(b)' = {} => About(b) = {}
  BY <1>1 DEF Grow, About
<1>3. ASSUME c.new, c \in ComplaintCall
      PROVE  c.side \in complaints'[c.d].sides
  BY <1>1, <1>3 DEF ComplaintOK, Grow
<1> QED BY <1>1, <1>2, <1>3 DEF ComplaintOK, Grow

LEMMA ComplaintMoves ==
    ASSUME ComplaintIInv, Grow, NEW r \in Caller,
           NEW c \in ComplaintCall \union {Fresh, Done}, call' = [call EXCEPT ![r] = c],
           ComplaintOK(c, r)'
    PROVE  ComplaintCalls'
<1>1. call'[r] = c /\ \A q \in Caller \ {r} : call'[q] = call[q]
  BY DEF ComplaintIInv, ComplaintCalls
<1>2. call' \in [Caller -> ComplaintCall \union {Fresh, Done}]
  BY DEF ComplaintIInv, ComplaintCalls
<1>3. ASSUME NEW q \in Caller \ {r}, NEW k, k = call[q]
      PROVE  ComplaintOK(k, q)'
  BY <1>3, OthersStay DEF ComplaintIInv, ComplaintCalls
<1>4. \A q \in Caller : ComplaintOK(call[q], q)'
  <2>1. \A q \in Caller : \A k : k = call'[q] => ComplaintOK(k, q)'
    BY <1>1, <1>3
  <2> QED BY <2>1 DEF ComplaintOK, About
<1> QED BY <1>2, <1>4 DEF ComplaintCalls

LEMMA ReturnedOK ==
    ASSUME ComplaintIInv, Grow, NEW r \in Caller, Return(r)
    PROVE  ComplaintCalls'
<1>1. ComplaintOK(Done, r)'
  BY DEF ComplaintOK, ComplaintCall, Done
<1> QED BY <1>1, ComplaintMoves DEF Return, Enter

\* references stay true where no caller on his way to the document arrives
LEMMA ReferencesStay ==
    ASSUME ComplaintIInv, Grow, UNCHANGED complaintOf, dropped \subseteq dropped',
           \A q \in Caller : At(q, "replace") =>
               \/ call'[q] = call[q]
               \/ call[q].side \in complaints'[call[q].d].sides
               \/ <<call[q].d, call[q].side>> \in dropped'
    PROVE  ReferenceTrue'
<1>. SUFFICES ASSUME NEW b \in ComplaintBooking, NEW s \in Side,
                     NEW d, d = complaintOf[b][s], d # 0
              PROVE  \/ s \in complaints'[d].sides
                     \/ <<d, s>> \in dropped'
                     \/ \E r \in Caller : /\ call'[r].at = "replace"
                                          /\ call'[r].d = d /\ call'[r].side = s
  BY DEF ReferenceTrue, At
<1>1. d \in DOMAIN complaints
  BY DEF ComplaintIInv, ComplaintState
<1>2. CASE s \in complaints[d].sides
  BY <1>1, <1>2 DEF Grow
<1>3. CASE <<d, s>> \in dropped
  BY <1>3
<1>4. ASSUME NEW q \in Caller, At(q, "replace"), call[q].d = d, call[q].side = s
      PROVE  \/ s \in complaints'[d].sides
             \/ <<d, s>> \in dropped'
             \/ \E r \in Caller : /\ call'[r].at = "replace"
                                  /\ call'[r].d = d /\ call'[r].side = s
  BY <1>4 DEF At
<1> QED BY <1>2, <1>3, <1>4 DEF ComplaintIInv, ReferenceTrue

LEMMA ComplaintStays ==
    ASSUME ComplaintState,
           UNCHANGED <<complaints, complaintOf, complaintsCount, dropped>>,
           first \subseteq first', first' \subseteq Caller
    PROVE  ComplaintState' /\ Grow
BY DEF ComplaintState, Grow

LEMMA LookStep ==
    ASSUME ComplaintIInv, NEW r \in Caller,
           \/ \E side \in Side, b \in ComplaintBooking : RaiseComplaint(r, side, b)
           \/ FindComplaint(r)
    PROVE  ComplaintIInv'
<1>. ComplaintState /\ ComplaintCalls /\ ReferenceTrue
  BY DEF ComplaintIInv
<1>1. /\ UNCHANGED <<complaints, complaintOf, complaintsCount, dropped>>
      /\ first \subseteq first' /\ first' \subseteq Caller
  BY DEF RaiseComplaint, FindComplaint, complaintVars, ComplaintState
<1>2. ComplaintState' /\ Grow
  BY <1>1, ComplaintStays
<1>3. \A b : About(b)' = About(b)
  BY <1>1 DEF About
<1>4. PICK c \in ComplaintCall \union {Fresh, Done} :
          /\ call' = [call EXCEPT ![r] = c]
          /\ ComplaintOK(c, r)'
  <2>1. ASSUME NEW side \in Side, NEW b \in ComplaintBooking, RaiseComplaint(r, side, b)
        PROVE  \E c \in ComplaintCall : call' = [call EXCEPT ![r] = c] /\ ComplaintOK(c, r)'
    <3>. DEFINE c == [at |-> "look", side |-> side, b |-> b, d |-> 0, sides |-> {},
                      assessed |-> FALSE, new |-> FALSE, blind |-> FALSE]
    <3>1. c \in ComplaintCall
      BY DEF ComplaintCall
    <3>2. call' = [call EXCEPT ![r] = c]
      BY <2>1 DEF RaiseComplaint, Enter
    <3>3. About(b) = {} => r \in first'
      BY <2>1 DEF RaiseComplaint
    <3>4. c.at = "look" /\ c.b = b /\ ~c.new
      OBVIOUS
    <3>. HIDE DEF c
    <3>5. \A k : k = c => ComplaintOK(k, r)'
      BY <1>3, <3>3, <3>4 DEF ComplaintOK
    <3> QED BY <3>1, <3>2, <3>5
  <2>2. CASE FindComplaint(r)
    <3>1. call[r] \in ComplaintCall /\ ComplaintOK(call[r], r) /\ call[r].at = "look"
      BY <2>2, ComplaintAt DEF FindComplaint, At
    <3>2. ~call[r].new
      BY <3>1 DEF ComplaintOK
    <3>3. CASE /\ About(call[r].b) = {}
               /\ call' = [call EXCEPT ![r].at = "create"]
      <4>. DEFINE c == [call[r] EXCEPT !.at = "create"]
      <4>1. c \in ComplaintCall /\ c.at = "create" /\ ~c.new
        BY <3>1, <3>2 DEF ComplaintCall
      <4>2. r \in first'
        BY <1>1, <3>1, <3>3 DEF ComplaintOK
      <4>3. call' = [call EXCEPT ![r] = c]
        BY <3>3
      <4>. HIDE DEF c
      <4>4. \A k : k = c => ComplaintOK(k, r)'
        BY <4>1, <4>2 DEF ComplaintOK
      <4> QED BY <4>1, <4>3, <4>4
    <3>4. CASE Return(r)
      <4>1. ComplaintOK(Done, r)'
        BY DEF ComplaintOK, ComplaintCall, Done
      <4> QED BY <3>4, <4>1 DEF Return, Enter
    <3>5. ASSUME NEW d \in About(call[r].b), call[r].side \notin complaints[d].sides,
                 call' = [call EXCEPT ![r].at = "refer", ![r].d = d,
                                      ![r].sides = complaints[d].sides,
                                      ![r].assessed = complaints[d].assessed]
          PROVE  \E c \in ComplaintCall : call' = [call EXCEPT ![r] = c] /\ ComplaintOK(c, r)'
      <4>. DEFINE s == complaints[d].sides
                  e == complaints[d].assessed
                  c == [call[r] EXCEPT !.at = "refer", !.d = d, !.sides = s, !.assessed = e]
      <4>1. complaints[d] \in Complaint /\ d \in DOMAIN complaints /\ d \in Nat
        BY DEF About, ComplaintState
      <4>2. s \in SUBSET Side /\ e \in BOOLEAN /\ s # {}
        BY <4>1 DEF Complaint, ComplaintState
      <4>3. call' = [call EXCEPT ![r] = c]
        BY <3>5
      <4>4. call[r].side \in Side /\ call[r].side \notin s
        BY <3>1, <3>5 DEF ComplaintCall
      <4>5. s \union {call[r].side} = Side
        BY <4>2, <4>4 DEF Side
      <4>. HIDE DEF s, e
      <4>6. /\ c \in ComplaintCall /\ c.at = "refer" /\ ~c.new /\ c.d = d /\ c.sides = s
            /\ c.side = call[r].side
        BY <3>1, <3>2, <4>1, <4>2 DEF ComplaintCall
      <4>. HIDE DEF c
      <4>7. \A k : k = c => ComplaintOK(k, r)'
        BY <1>1, <4>1, <4>5, <4>6 DEF ComplaintOK
      <4> QED BY <4>3, <4>6, <4>7
    <3>6. CASE call' = [call EXCEPT ![r].at = "create", ![r].blind = TRUE]
      <4>. DEFINE c == [call[r] EXCEPT !.at = "create", !.blind = TRUE]
      <4>1. c \in ComplaintCall /\ c.at = "create" /\ ~c.new /\ c.blind
        BY <3>1, <3>2 DEF ComplaintCall
      <4>2. call' = [call EXCEPT ![r] = c]
        BY <3>6
      <4>. HIDE DEF c
      <4>3. \A k : k = c => ComplaintOK(k, r)'
        BY <4>1 DEF ComplaintOK
      <4> QED BY <4>1, <4>2, <4>3
    <3>7. \/ About(call[r].b) = {} /\ call' = [call EXCEPT ![r].at = "create"]
          \/ Return(r)
          \/ \E d \in About(call[r].b) :
                /\ call[r].side \notin complaints[d].sides
                /\ call' = [call EXCEPT ![r].at = "refer", ![r].d = d,
                                 ![r].sides = complaints[d].sides,
                                 ![r].assessed = complaints[d].assessed]
          \/ call' = [call EXCEPT ![r].at = "create", ![r].blind = TRUE]
      BY <2>2 DEF FindComplaint, Existing, Goto
    <3> QED BY <3>3, <3>4, <3>5, <3>6, <3>7
  <2> QED BY <2>1, <2>2
<1>5. ComplaintCalls'
  BY <1>2, <1>4, ComplaintMoves
<1>6. ~At(r, "replace") /\ \A q \in Caller \ {r} : call'[q] = call[q]
  BY <1>4 DEF RaiseComplaint, FindComplaint, At, ComplaintCalls
<1>7. ReferenceTrue'
  BY <1>1, <1>2, <1>6, ReferencesStay DEF At
<1> QED BY <1>2, <1>5, <1>7 DEF ComplaintIInv

LEMMA CreateComplaintStep ==
    ASSUME ComplaintIInv, NEW r \in Caller, CreateComplaint(r)
    PROVE  ComplaintIInv'
<1>. ComplaintState /\ ComplaintCalls /\ ReferenceTrue
  BY DEF ComplaintIInv
<1>1. call[r] \in ComplaintCall /\ ComplaintOK(call[r], r) /\ call[r].at = "create"
  BY ComplaintAt DEF CreateComplaint, At
<1>2. UNCHANGED <<complaintOf, complaintsCount, first, dropped>>
  BY DEF CreateComplaint
<1>3. ~At(r, "replace") /\ \A q \in Caller \ {r} : call'[q] = call[q]
  BY DEF CreateComplaint, At, Return, Enter, ComplaintCalls
<1>4. CASE Return(r) /\ UNCHANGED complaints
  <2>1. ComplaintState' /\ Grow
    BY <1>2, <1>4, ComplaintStays DEF ComplaintState
  <2>2. ReferenceTrue'
    BY <1>2, <1>3, <2>1, ReferencesStay DEF At
  <2> QED BY <1>4, <2>1, <2>2, ReturnedOK DEF ComplaintIInv
<1>5. ASSUME NEW new, new = [b |-> call[r].b, sides |-> {call[r].side}, assessed |-> FALSE],
             complaints' = Append(complaints, new),
             call' = [call EXCEPT ![r].at = "refer", ![r].d = Len(complaints) + 1,
                                  ![r].new = TRUE]
      PROVE  ComplaintIInv'
  <2>1. new \in Complaint /\ new.sides = {call[r].side}
    BY <1>1, <1>5 DEF Complaint, ComplaintCall
  <2>2. /\ complaints' \in Seq(Complaint) /\ Len(complaints') = Len(complaints) + 1
        /\ Len(complaints) \in Nat
        /\ complaints'[Len(complaints) + 1] = new
        /\ \A d \in DOMAIN complaints : complaints'[d] = complaints[d]
    BY <1>5, <2>1 DEF ComplaintState
  <2>3. Grow
    BY <1>2, <2>2 DEF Grow
  <2>4. DOMAIN complaints' = DOMAIN complaints \union {Len(complaints) + 1}
    BY <2>2 DEF ComplaintState
  <2>5. ComplaintState'
    <3>1. complaintOf' \in [ComplaintBooking -> [Side -> 0..Len(complaints')]]
      <4>1. 0..Len(complaints) \subseteq 0..Len(complaints')
        BY <2>2
      <4> QED BY <1>2, <4>1 DEF ComplaintState
    <3>2. \A d \in DOMAIN complaints' : complaints'[d].sides # {}
      BY <2>1, <2>2, <2>4 DEF ComplaintState
    <3>3. dropped' \subseteq (DOMAIN complaints') \X Side
      BY <1>2, <2>4 DEF ComplaintState
    <3> QED BY <1>2, <2>2, <3>1, <3>2, <3>3 DEF ComplaintState
  <2>. DEFINE n == Len(complaints) + 1
              c == [call[r] EXCEPT !.at = "refer", !.d = n, !.new = TRUE]
  <2>6. n \in Nat
    BY <2>2
  <2>7. call' = [call EXCEPT ![r] = c]
    BY <1>5
  <2>. HIDE DEF n
  <2>8. c \in ComplaintCall /\ c.at = "refer" /\ c.new /\ c.d = n /\ c.side = call[r].side
    BY <1>1, <2>6 DEF ComplaintCall
  <2>. HIDE DEF c
  <2>9. ASSUME NEW k, k = c
        PROVE  ComplaintOK(k, r)'
    BY <2>1, <2>2, <2>4, <2>8, <2>9 DEF ComplaintOK, n
  <2>10. ComplaintCalls'
    BY <2>3, <2>7, <2>8, <2>9, ComplaintMoves
  <2>11. ReferenceTrue'
    BY <1>2, <1>3, <2>3, ReferencesStay DEF At
  <2> QED BY <2>5, <2>10, <2>11 DEF ComplaintIInv
<1> QED BY <1>4, <1>5 DEF CreateComplaint

LEMMA ReferStep ==
    ASSUME ComplaintIInv, NEW r \in Caller, UpdateReference(r)
    PROVE  ComplaintIInv'
<1>. ComplaintState /\ ComplaintCalls /\ ReferenceTrue
  BY DEF ComplaintIInv
<1>. DEFINE bk == call[r].b
            side == call[r].side
            n == call[r].d
<1>1. call[r] \in ComplaintCall /\ ComplaintOK(call[r], r) /\ call[r].at = "refer"
  BY ComplaintAt DEF UpdateReference, At
<1>2. bk \in ComplaintBooking /\ side \in Side /\ n \in 1..Len(complaints)
  BY <1>1 DEF ComplaintCall, ComplaintOK, ComplaintState
<1>3. UNCHANGED <<complaints, first, dropped>> /\ Grow
  BY DEF UpdateReference, Grow, ComplaintState
<1>4. \/ complaintOf' = [complaintOf EXCEPT ![bk][side] = n]
      \/ UNCHANGED complaintOf
  BY DEF UpdateReference, Referred
<1>5. complaintOf' \in [ComplaintBooking -> [Side -> 0..Len(complaints)]]
  <2>1. complaintOf \in [ComplaintBooking -> [Side -> 0..Len(complaints)]]
    BY DEF ComplaintState
  <2>2. n \in 0..Len(complaints)
    BY <1>2
  <2>3. [complaintOf[bk] EXCEPT ![side] = n] \in [Side -> 0..Len(complaints)]
    BY <1>2, <2>1, <2>2
  <2> QED BY <1>2, <1>4, <2>1, <2>3
<1>6. complaintsCount' \in [Side -> Nat]
  <2>1. complaintsCount \in [Side -> Nat]
    BY DEF ComplaintState
  <2>2. \/ complaintsCount' = [complaintsCount EXCEPT ![side] = complaintsCount[side] + 1]
        \/ UNCHANGED complaintsCount
    BY DEF UpdateReference
  <2> QED BY <1>2, <2>1, <2>2
<1>7. ComplaintState'
  BY <1>3, <1>5, <1>6 DEF ComplaintState
<1>8. \/ call[r].new /\ Return(r)
      \/ ~call[r].new /\ call' = [call EXCEPT ![r].at = "replace"]
  BY DEF UpdateReference, Goto
<1>9. ComplaintCalls'
  <2>1. CASE Return(r)
    BY <1>3, <2>1, ReturnedOK
  <2>2. CASE ~call[r].new /\ call' = [call EXCEPT ![r].at = "replace"]
    <3>. DEFINE c == [call[r] EXCEPT !.at = "replace"]
    <3>1. /\ c \in ComplaintCall /\ c.at = "replace" /\ ~c.new /\ c.d = n /\ c.side = side
          /\ c.sides = call[r].sides
      BY <1>1, <2>2 DEF ComplaintCall
    <3>2. call' = [call EXCEPT ![r] = c]
      BY <2>2
    <3>. HIDE DEF c
    <3>3. n \in DOMAIN complaints' /\ call[r].sides \union {side} = Side
      BY <1>1, <1>3, <2>2 DEF ComplaintOK
    <3>4. ASSUME NEW k, k = c
          PROVE  ComplaintOK(k, r)'
      BY <3>1, <3>3, <3>4 DEF ComplaintOK
    <3> QED BY <1>3, <3>1, <3>2, <3>4, ComplaintMoves
  <2> QED BY <1>8, <2>1, <2>2
<1>10. ReferenceTrue'
  <2>. SUFFICES ASSUME NEW b \in ComplaintBooking, NEW s \in Side,
                       NEW d, d = complaintOf'[b][s], d # 0
                PROVE  \/ s \in complaints[d].sides
                       \/ <<d, s>> \in dropped
                       \/ \E q \in Caller : /\ call'[q].at = "replace"
                                            /\ call'[q].d = d /\ call'[q].side = s
    BY <1>3 DEF ReferenceTrue, At
  <2>1. CASE d = complaintOf[b][s]
    <3>1. \/ s \in complaints[d].sides
          \/ <<d, s>> \in dropped
          \/ \E q \in Caller : At(q, "replace") /\ call[q].d = d /\ call[q].side = s
      BY <2>1 DEF ReferenceTrue
    <3>2. \A q \in Caller : At(q, "replace") => call'[q] = call[q]
      BY <1>1, <1>8 DEF At, ComplaintCalls, Return, Enter
    <3> QED BY <3>1, <3>2 DEF At
  <2>2. CASE d # complaintOf[b][s]
    <3>1. b = bk /\ s = side /\ d = n
      <4>1. complaintOf' = [complaintOf EXCEPT ![bk][side] = n]
        BY <1>4, <2>2
      <4>2. bk \in DOMAIN complaintOf /\ side \in DOMAIN complaintOf[bk] /\ b \in DOMAIN complaintOf
        BY <1>2 DEF ComplaintState
      <4>. HIDE DEF bk, side, n
      <4>3. complaintOf'[b] = IF b = bk THEN [complaintOf[bk] EXCEPT ![side] = n] ELSE complaintOf[b]
        BY <4>1, <4>2
      <4>4. CASE b # bk
        BY <2>2, <4>3, <4>4
      <4>5. CASE b = bk
        <5>1. s \in DOMAIN complaintOf[bk]
          BY <1>2 DEF ComplaintState
        <5>2. d = IF s = side THEN n ELSE complaintOf[bk][s]
          BY <4>2, <4>3, <4>5, <5>1
        <5> QED BY <2>2, <4>5, <5>2
      <4> QED BY <4>4, <4>5
    <3>2. CASE call[r].new
      BY <1>1, <3>1, <3>2 DEF ComplaintOK
    <3>3. CASE ~call[r].new
      <4>1. call'[r].at = "replace" /\ call'[r].d = n /\ call'[r].side = side
        BY <1>1, <1>8, <3>3 DEF ComplaintCalls, ComplaintCall
      <4> QED BY <3>1, <4>1
    <3> QED BY <3>2, <3>3
  <2> QED BY <2>1, <2>2
<1> QED BY <1>7, <1>9, <1>10 DEF ComplaintIInv

LEMMA ReplaceStep ==
    ASSUME ComplaintIInv, NEW r \in Caller, ReplaceComplaint(r)
    PROVE  ComplaintIInv' /\ Grow
<1>. ComplaintState /\ ComplaintCalls /\ ReferenceTrue
  BY DEF ComplaintIInv
<1>. DEFINE n == call[r].d
<1>1. call[r] \in ComplaintCall /\ ComplaintOK(call[r], r) /\ call[r].at = "replace"
  BY ComplaintAt DEF ReplaceComplaint, At
<1>2. n \in DOMAIN complaints /\ complaints[n] \in Complaint
  BY <1>1 DEF ComplaintOK, ComplaintState
<1>3. call[r].sides \union {call[r].side} = Side /\ call[r].side \in Side
  BY <1>1 DEF ComplaintOK, ComplaintCall
<1>4. Return(r) /\ UNCHANGED <<complaintOf, complaintsCount, first>>
  BY DEF ReplaceComplaint
<1>5. \A q \in Caller \ {r} : call'[q] = call[q]
  BY <1>4 DEF Return, Enter, ComplaintCalls
<1>6. CASE /\ complaints' = [complaints EXCEPT ![n].sides = Side,
                                               ![n].assessed = call[r].assessed]
           /\ UNCHANGED dropped
  <2>. DEFINE new == [complaints[n] EXCEPT !.sides = Side, !.assessed = call[r].assessed]
  <2>1. complaints' = [complaints EXCEPT ![n] = new]
    BY <1>6
  <2>2. new \in Complaint /\ new.sides = Side /\ new.b = complaints[n].b
    BY <1>1, <1>2 DEF Complaint, ComplaintCall
  <2>. HIDE DEF new
  <2>3. /\ complaints' \in Seq(Complaint) /\ Len(complaints') = Len(complaints)
        /\ DOMAIN complaints' = DOMAIN complaints /\ complaints'[n] = new
        /\ \A d \in DOMAIN complaints : d # n => complaints'[d] = complaints[d]
    BY <1>2, <2>1, <2>2 DEF ComplaintState
  <2>4. complaints[n].sides \subseteq Side
    BY <1>2 DEF Complaint
  <2>5. Grow
    <3>1. Len(complaints) \in Nat
      BY DEF ComplaintState
    <3> QED BY <1>4, <2>2, <2>3, <2>4, <3>1 DEF Grow
  <2>6. ComplaintState'
    BY <1>4, <1>6, <2>2, <2>3 DEF ComplaintState, Side
  <2>7. ReferenceTrue'
    BY <1>3, <1>4, <1>5, <1>6, <2>2, <2>3, <2>5, ReferencesStay
  <2> QED BY <1>4, <2>5, <2>6, <2>7, ReturnedOK DEF ComplaintIInv
<1>7. CASE /\ dropped' = dropped \union {<<n, call[r].side>>}
           /\ UNCHANGED complaints
  <2>1. Grow
    BY <1>4, <1>7 DEF Grow, ComplaintState
  <2>2. ComplaintState'
    BY <1>2, <1>3, <1>4, <1>7 DEF ComplaintState
  <2>3. ReferenceTrue'
    BY <1>4, <1>5, <1>7, <2>1, ReferencesStay
  <2> QED BY <1>4, <2>1, <2>2, <2>3, ReturnedOK DEF ComplaintIInv
<1> QED BY <1>3, <1>6, <1>7 DEF ReplaceComplaint, Replaced

LEMMA AssessStep ==
    ASSUME ComplaintIInv, NEW n \in DOMAIN complaints, Assess(n)
    PROVE  ComplaintIInv' /\ Grow /\ \A d \in DOMAIN complaints :
                                         complaints[d].assessed => complaints'[d].assessed
<1>. ComplaintState /\ ComplaintCalls /\ ReferenceTrue
  BY DEF ComplaintIInv
<1>1. UNCHANGED <<call, complaintOf, complaintsCount, first, dropped>>
  BY DEF Assess
<1>. DEFINE new == [complaints[n] EXCEPT !.assessed = TRUE]
<1>2. complaints[n] \in Complaint
  BY DEF ComplaintState
<1>3. /\ new \in Complaint /\ new.sides = complaints[n].sides /\ new.b = complaints[n].b
      /\ new.assessed
  BY <1>2 DEF Complaint
<1>4. complaints' = [complaints EXCEPT ![n] = new]
  BY DEF Assess
<1>. HIDE DEF new
<1>5. /\ complaints' \in Seq(Complaint) /\ Len(complaints') = Len(complaints)
      /\ DOMAIN complaints' = DOMAIN complaints /\ complaints'[n] = new
      /\ \A d \in DOMAIN complaints : d # n => complaints'[d] = complaints[d]
  BY <1>3, <1>4 DEF ComplaintState
<1>6. Grow
  <2>1. Len(complaints) \in Nat
    BY DEF ComplaintState
  <2> QED BY <1>1, <1>3, <1>5, <2>1 DEF Grow
<1>7. ComplaintState'
  BY <1>1, <1>3, <1>5 DEF ComplaintState
<1>8. ComplaintCalls'
  <2>1. ASSUME NEW q \in Caller, NEW k, k = call[q]
        PROVE  ComplaintOK(k, q)'
    BY <1>6, <2>1, OthersStay DEF ComplaintCalls
  <2>2. \A q \in Caller : ComplaintOK(call[q], q)'
    BY <1>1, <2>1 DEF ComplaintOK, About
  <2> QED BY <1>1, <2>2 DEF ComplaintCalls
<1>9. ReferenceTrue'
  BY <1>1, <1>6, ReferencesStay
<1>10. \A d \in DOMAIN complaints : complaints[d].assessed => complaints'[d].assessed
  BY <1>3, <1>5
<1> QED BY <1>6, <1>7, <1>8, <1>9, <1>10 DEF ComplaintIInv

LEMMA ComplaintStep ==
    ASSUME ComplaintIInv, ComplaintNext
    PROVE  ComplaintIInv'
BY LookStep, CreateComplaintStep, ReferStep, ReplaceStep, AssessStep DEF ComplaintNext

LEMMA SecondComplaint ==
    ASSUME ComplaintIInv, ComplaintNext, NEW b \in ComplaintBooking, About(b)' # About(b)
    PROVE  \E r \in Caller : /\ At(r, "create") /\ call'[r] # call[r] /\ call[r].b = b
                             /\ r \in first \/ call[r].blind
<1>. ComplaintState /\ ComplaintCalls
  BY DEF ComplaintIInv
<1>1. ASSUME DOMAIN complaints' = DOMAIN complaints,
             \A d \in DOMAIN complaints : complaints'[d].b = complaints[d].b
      PROVE  FALSE
  BY <1>1 DEF About
<1>2. ASSUME NEW n \in DOMAIN complaints, Assess(n)
      PROVE  FALSE
  <2>. DEFINE new == [complaints[n] EXCEPT !.assessed = TRUE]
  <2>1. new.b = complaints[n].b
    BY DEF ComplaintState, Complaint
  <2>2. complaints' = [complaints EXCEPT ![n] = new]
    BY <1>2 DEF Assess
  <2>. HIDE DEF new
  <2>3. /\ DOMAIN complaints' = DOMAIN complaints /\ complaints'[n] = new
        /\ \A d \in DOMAIN complaints : d # n => complaints'[d] = complaints[d]
    BY <2>2
  <2> QED BY <1>1, <2>1, <2>3
<1>3. ASSUME NEW r \in Caller, ReplaceComplaint(r), complaints' # complaints
      PROVE  FALSE
  <2>. DEFINE n == call[r].d
              s == Replaced(call[r].sides, call[r].side)
              new == [complaints[n] EXCEPT !.sides = s, !.assessed = call[r].assessed]
  <2>1. n \in DOMAIN complaints
    BY <1>3, ComplaintAt DEF ReplaceComplaint, At, ComplaintOK
  <2>2. complaints' = [complaints EXCEPT ![n] = new]
    BY <1>3 DEF ReplaceComplaint
  <2>. HIDE DEF s
  <2>3. new.b = complaints[n].b
    BY <2>1 DEF ComplaintState, Complaint
  <2>. HIDE DEF new
  <2>4. /\ DOMAIN complaints' = DOMAIN complaints /\ complaints'[n] = new
        /\ \A d \in DOMAIN complaints : d # n => complaints'[d] = complaints[d]
    BY <2>1, <2>2
  <2> QED BY <1>1, <2>3, <2>4
<1>4. complaints' # complaints
  BY DEF About
<1>5. PICK r \in Caller : CreateComplaint(r)
  BY <1>2, <1>3, <1>4
  DEF ComplaintNext, RaiseComplaint, FindComplaint, UpdateReference, complaintVars
<1>6. call[r] \in ComplaintCall /\ ComplaintOK(call[r], r) /\ call[r].at = "create"
  BY <1>5, ComplaintAt DEF CreateComplaint, At
<1>. DEFINE new == [b |-> call[r].b, sides |-> {call[r].side}, assessed |-> FALSE]
<1>7. complaints' = Append(complaints, new) /\ new.b = call[r].b
  BY <1>4, <1>5 DEF CreateComplaint
<1>. HIDE DEF new
<1>8. call[r].b = b
  <2>1. /\ DOMAIN complaints' = DOMAIN complaints \union {Len(complaints) + 1}
        /\ Len(complaints) + 1 \notin DOMAIN complaints
        /\ complaints'[Len(complaints) + 1] = new
        /\ \A d \in DOMAIN complaints : complaints'[d] = complaints[d]
    BY <1>7 DEF ComplaintState
  <2>2. CASE call[r].b # b
    BY <1>7, <2>1, <2>2 DEF About
  <2> QED BY <2>2
<1>9. call'[r] # call[r]
  <2>1. call'[r].at = "refer"
    BY <1>4, <1>5, <1>6 DEF CreateComplaint, ComplaintCalls, ComplaintCall
  <2> QED BY <1>6, <2>1
<1> QED BY <1>6, <1>8, <1>9 DEF ComplaintOK, At

LEMMA SidesStay ==
    ASSUME ComplaintIInv, ComplaintNext, NEW d \in DOMAIN complaints
    PROVE  /\ complaints[d].sides \subseteq complaints'[d].sides
           /\ complaints[d].assessed /\ ~complaints'[d].assessed =>
                  \E r \in Caller : /\ At(r, "replace") /\ call'[r] # call[r]
                                    /\ call[r].d = d /\ ~call[r].assessed
<1>. ComplaintState /\ ComplaintCalls
  BY DEF ComplaintIInv
<1>1. CASE \E n \in DOMAIN complaints : Assess(n)
  BY <1>1, AssessStep DEF Grow
<1>2. ASSUME NEW r \in Caller, ReplaceComplaint(r)
      PROVE  /\ complaints[d].sides \subseteq complaints'[d].sides
             /\ complaints[d].assessed /\ ~complaints'[d].assessed =>
                    /\ At(r, "replace") /\ call'[r] # call[r]
                    /\ call[r].d = d /\ ~call[r].assessed
  <2>1. call[r] \in ComplaintCall /\ call[r].d \in DOMAIN complaints /\ At(r, "replace")
    BY <1>2, ComplaintAt DEF ReplaceComplaint, At, ComplaintOK
  <2>2. call'[r] # call[r]
    BY <1>2, <2>1 DEF ReplaceComplaint, Return, Enter, Done, ComplaintCalls, At
  <2>3. CASE complaints' = complaints
    BY <2>3
  <2>4. CASE complaints' # complaints
    <3>1. /\ d # call[r].d => complaints'[d] = complaints[d]
          /\ complaints'[call[r].d].assessed = call[r].assessed
      <4>. DEFINE n == call[r].d
                  s == Replaced(call[r].sides, call[r].side)
                  new == [complaints[n] EXCEPT !.sides = s, !.assessed = call[r].assessed]
      <4>1. complaints' = [complaints EXCEPT ![n] = new]
        BY <1>2, <2>4 DEF ReplaceComplaint
      <4>. HIDE DEF s
      <4>2. new.assessed = call[r].assessed
        BY <2>1 DEF ComplaintState, Complaint
      <4>. HIDE DEF new
      <4> QED BY <2>1, <4>1, <4>2
    <3> QED BY <1>2, <2>1, <2>2, <3>1, ReplaceStep DEF Grow
  <2> QED BY <2>3, <2>4
<1>3. ASSUME NEW r \in Caller, CreateComplaint(r)
      PROVE  complaints'[d] = complaints[d]
  <2>1. CASE complaints' = complaints
    BY <2>1
  <2>2. ASSUME NEW new, complaints' = Append(complaints, new)
        PROVE  complaints'[d] = complaints[d]
    BY <2>2 DEF ComplaintState
  <2> QED BY <1>3, <2>1, <2>2 DEF CreateComplaint
<1>4. ASSUME NEW r \in Caller,
             \/ \E side \in Side, b \in ComplaintBooking : RaiseComplaint(r, side, b)
             \/ FindComplaint(r) \/ UpdateReference(r)
      PROVE  complaints' = complaints
  BY <1>4 DEF RaiseComplaint, FindComplaint, UpdateReference, complaintVars
<1> QED BY <1>1, <1>2, <1>3, <1>4 DEF ComplaintNext

-----------------------------------------------------------------------------
(* Ratings *)

Rates(c) == c \in RatingCall

\* a call that goes on to insert began when there was no such rating, or was blind; an
\* average is made of all that was to be found
RatingOK(c, r) ==
    /\ c.at = "look" /\ ~Submitted(c.rating) => r \in novel
    /\ c.at = "insert" => r \in novel \/ c.blind
    /\ c.at = "average" => c.average = c.there

RatingIInv ==
    /\ ratings \in Seq(Rating) /\ novel \subseteq Caller
    /\ DOMAIN call = Caller
    /\ \A r \in Caller : call[r] \in {Fresh, Done} \/ (Rates(call[r]) /\ RatingOK(call[r], r))

LEMMA RatingInitOK == CallInit /\ RatingInit => RatingIInv
BY DEF CallInit, RatingInit, RatingIInv

LEMMA RatesAt ==
    ASSUME RatingIInv, NEW r \in Caller, call[r].at \in {"look", "insert", "gather", "average"}
    PROVE  Rates(call[r]) /\ RatingOK(call[r], r)
BY DEF RatingIInv, Fresh, Done, Rates, RatingCall

\* ratings are added, never taken away
LEMMA RatingMoves ==
    ASSUME RatingIInv, NEW r \in Caller, NEW c, call' = [call EXCEPT ![r] = c],
           novel \subseteq novel', novel' \subseteq Caller,
           ratings' = ratings \/ \E new \in Rating : ratings' = Append(ratings, new),
           c = Done \/ (Rates(c) /\ RatingOK(c, r)')
    PROVE  RatingIInv'
<1>1. /\ ratings' \in Seq(Rating) /\ DOMAIN ratings \subseteq DOMAIN ratings'
      /\ \A i \in DOMAIN ratings : ratings'[i] = ratings[i]
  BY DEF RatingIInv
<1>2. \A b, by, type : GivenBy(b, by, type) \subseteq GivenBy(b, by, type)'
  BY <1>1 DEF GivenBy
<1>3. ASSUME NEW k, NEW q \in Caller, RatingOK(k, q)
      PROVE  RatingOK(k, q)'
  BY <1>2, <1>3 DEF RatingOK, Submitted
<1>4. DOMAIN call' = Caller /\ call'[r] = c /\ \A q \in Caller \ {r} : call'[q] = call[q]
  BY DEF RatingIInv
<1>5. ASSUME NEW q \in Caller, NEW k, k = call'[q]
      PROVE  k \in {Fresh, Done} \/ (Rates(k) /\ RatingOK(k, q)')
  BY <1>3, <1>4, <1>5 DEF RatingIInv
<1>6. \A q \in Caller : call'[q] \in {Fresh, Done} \/ (Rates(call'[q]) /\ RatingOK(call[q], q)')
  BY <1>5 DEF RatingOK, Submitted, GivenBy
<1> QED BY <1>1, <1>4, <1>6 DEF RatingIInv, Rates

\* a call of a rating gets on
LEMMA RatingGoesOn ==
    ASSUME NEW c, Rates(c), NEW to \in {"look", "insert", "gather", "average"}
    PROVE  /\ Rates([c EXCEPT !.at = to]) /\ [c EXCEPT !.at = to].at = to
           /\ [c EXCEPT !.at = to].rating = c.rating
BY DEF Rates, RatingCall

LEMMA RatingBlind ==
    ASSUME NEW c, Rates(c)
    PROVE  LET k == [c EXCEPT !.at = "insert", !.blind = TRUE]
           IN  Rates(k) /\ k.at = "insert" /\ k.blind = TRUE
BY DEF Rates, RatingCall

LEMMA RatingGathered ==
    ASSUME NEW c, Rates(c), NEW found \in Average
    PROVE  LET k == [c EXCEPT !.at = "average", !.average = found, !.there = found]
           IN  /\ Rates(k) /\ k.at = "average" /\ k.rating = c.rating
               /\ k.average = found /\ k.there = found
BY DEF Rates, RatingCall

LEMMA RatingStep ==
    ASSUME RatingIInv, RatingNext
    PROVE  /\ RatingIInv'
           /\ ratings' # ratings =>
                  \E r \in Caller : /\ At(r, "insert") /\ call'[r] # call[r]
                                    /\ r \in novel \/ call[r].blind
<1>1. ASSUME NEW r \in Caller, NEW rating \in Rating, CreateRating(r, rating)
      PROVE  RatingIInv' /\ ratings' = ratings
  <2>. DEFINE c == [at |-> "look", rating |-> rating, average |-> NoRating, there |-> {},
                    blind |-> FALSE]
  <2>1. call' = [call EXCEPT ![r] = c] /\ ratings' = ratings
    BY <1>1 DEF CreateRating, Enter
  <2>2. novel \subseteq novel' /\ novel' \subseteq Caller /\ (r \in novel' \/ Submitted(rating))
    BY <1>1 DEF CreateRating, Submitted, RatingIInv
  <2>3. Rates(c) /\ c.at = "look" /\ c.rating = rating
    BY DEF Rates, RatingCall, Average, NoRating
  <2>. HIDE DEF c
  <2>4. ASSUME NEW k, k = c PROVE RatingOK(k, r)'
    BY <2>1, <2>2, <2>3, <2>4 DEF RatingOK, Submitted, GivenBy
  <2> QED BY <2>1, <2>2, <2>3, <2>4, RatingMoves
<1>2. ASSUME NEW r \in Caller, Return(r), UNCHANGED <<ratings, novel>>
      PROVE  RatingIInv' /\ ratings' = ratings
  <2>1. call' = [call EXCEPT ![r] = Done]
    BY <1>2 DEF Return, Enter
  <2>2. novel \subseteq novel' /\ novel' \subseteq Caller
    BY <1>2 DEF RatingIInv
  <2> QED BY <1>2, <2>1, <2>2, RatingMoves
<1>3. ASSUME NEW r \in Caller, LookForRating(r), ~Return(r)
      PROVE  RatingIInv' /\ ratings' = ratings
  <2>. DEFINE c == [call[r] EXCEPT !.at = "insert"]
  <2>1. Rates(call[r]) /\ RatingOK(call[r], r) /\ call[r].at = "look"
    BY <1>3, RatesAt DEF LookForRating, At
  <2>2. call' = [call EXCEPT ![r] = c] /\ UNCHANGED <<ratings, novel>>
    BY <1>3 DEF LookForRating, Goto, ratingVars
  <2>3. r \in novel /\ novel' = novel /\ novel \subseteq Caller
    BY <1>3, <2>1, <2>2 DEF LookForRating, RatingOK, RatingIInv
  <2>4. Rates(c) /\ c.at = "insert"
    BY <2>1, RatingGoesOn
  <2>. HIDE DEF c
  <2>5. ASSUME NEW k, k = c PROVE RatingOK(k, r)'
    BY <2>3, <2>4, <2>5 DEF RatingOK
  <2> QED BY <2>2, <2>3, <2>4, <2>5, RatingMoves
<1>4. ASSUME NEW r \in Caller, LookForRatingFails(r)
      PROVE  RatingIInv' /\ ratings' = ratings
  <2>. DEFINE c == [call[r] EXCEPT !.at = "insert", !.blind = TRUE]
  <2>1. Rates(call[r])
    BY <1>4, RatesAt DEF LookForRatingFails, At
  <2>2. call' = [call EXCEPT ![r] = c] /\ UNCHANGED <<ratings, novel>>
    BY <1>4 DEF LookForRatingFails, ratingVars
  <2>3. Rates(c) /\ c.at = "insert" /\ c.blind = TRUE
    BY <2>1, RatingBlind
  <2>4. novel' = novel /\ novel \subseteq Caller
    BY <2>2 DEF RatingIInv
  <2>. HIDE DEF c
  <2>5. ASSUME NEW k, k = c PROVE RatingOK(k, r)'
    BY <2>3, <2>5 DEF RatingOK
  <2> QED BY <2>2, <2>3, <2>4, <2>5, RatingMoves
<1>5. ASSUME NEW r \in Caller, InsertRating(r), ~Return(r)
      PROVE  /\ RatingIInv'
             /\ At(r, "insert") /\ call'[r] # call[r] /\ (r \in novel \/ call[r].blind)
  <2>. DEFINE c == [call[r] EXCEPT !.at = "gather"]
  <2>1. Rates(call[r]) /\ RatingOK(call[r], r) /\ call[r].at = "insert"
    BY <1>5, RatesAt DEF InsertRating, At
  <2>2. /\ call' = [call EXCEPT ![r] = c] /\ novel' = novel
        /\ ratings' = Append(ratings, call[r].rating)
    BY <1>5 DEF InsertRating, Goto
  <2>3. Rates(c) /\ c.at = "gather" /\ call[r].rating \in Rating
    BY <2>1, RatingGoesOn DEF Rates, RatingCall
  <2>. HIDE DEF c
  <2>4. novel \subseteq Caller /\ call'[r] = c
    BY <2>2 DEF RatingIInv
  <2>5. ASSUME NEW k, k = c PROVE RatingOK(k, r)'
    BY <2>3, <2>5 DEF RatingOK
  <2>6. RatingIInv'
    BY <2>2, <2>3, <2>4, <2>5, RatingMoves
  <2> QED BY <2>1, <2>3, <2>4, <2>6 DEF RatingOK, At
<1>6. ASSUME NEW r \in Caller, GatherRatings(r), ~Return(r)
      PROVE  RatingIInv' /\ ratings' = ratings
  <2>. DEFINE found == AllOf(call[r].rating.type)
              c == [call[r] EXCEPT !.at = "average", !.average = found, !.there = found]
  <2>1. Rates(call[r])
    BY <1>6, RatesAt DEF GatherRatings, At
  <2>2. call' = [call EXCEPT ![r] = c] /\ UNCHANGED <<ratings, novel>>
    BY <1>6, Zenon DEF GatherRatings, Gathered
  <2>0. found \in Average
    BY DEF AllOf, Average, RatingIInv
  <2>. HIDE DEF found
  <2>3. Rates(c) /\ c.at = "average" /\ c.average = c.there
    BY <2>0, <2>1 DEF Rates, RatingCall
  <2>4. novel' = novel /\ novel \subseteq Caller
    BY <2>2 DEF RatingIInv
  <2>. HIDE DEF c
  <2>5. ASSUME NEW k, k = c PROVE RatingOK(k, r)'
    BY <2>3, <2>5 DEF RatingOK
  <2> QED BY <2>2, <2>3, <2>4, <2>5, RatingMoves
<1>7. ASSUME NEW r \in Caller,
             \/ LookForRating(r) /\ Return(r)
             \/ GatherRatings(r) /\ Return(r)
             \/ UpdateRating(r)
      PROVE  Return(r) /\ UNCHANGED <<ratings, novel>>
  BY <1>7, Zenon DEF LookForRating, GatherRatings, UpdateRating, ratingVars
<1>8. ASSUME NEW r \in Caller, InsertRating(r), Return(r)
      PROVE  UNCHANGED <<ratings, novel>>
  <2>1. call'[r].at = "done"
    BY <1>8 DEF Return, Enter, Done, RatingIInv
  <2>2. Rates(call[r])
    BY <1>8, RatesAt DEF InsertRating, At
  <2>3. CASE Goto(r, "gather")
    <3>1. call'[r] = [call[r] EXCEPT !.at = "gather"]
      BY <2>3 DEF Goto, RatingIInv
    <3>2. call'[r].at = "gather"
      BY <2>2, <3>1, RatingGoesOn
    <3> QED BY <2>1, <3>2
  <2> QED BY <1>8, <2>3 DEF InsertRating
<1> QED BY <1>8, <1>1, <1>2, <1>3, <1>4, <1>5, <1>6, <1>7 DEF RatingNext

\* the stored averages
RatingShown ==
    /\ shownRating \in [RatingType -> Average] /\ stale \subseteq RatingType
    /\ AverageTrue

LEMMA RatingShownInit == RatingInit => RatingShown
<1>. SUFFICES ASSUME RatingInit PROVE RatingShown
  OBVIOUS
<1>1. \A type \in RatingType : AllOf(type) = {}
  BY DEF RatingInit, AllOf
<1> QED BY <1>1 DEF RatingInit, RatingShown, AverageTrue, NoRating, Average

\* somebody sees to the average of a type
Averaging(type) ==
    \E r \in Caller : call[r].at \in {"gather", "average"} /\ call[r].rating.type = type

\* where nothing is inserted and no average written, only the end of a call could harm
LEMMA ShownStays ==
    ASSUME RatingShown, UNCHANGED <<ratings, shownRating>>,
           stale \subseteq stale', stale' \subseteq RatingType,
           \A type \in RatingType : Averaging(type) => Averaging(type)' \/ type \in stale'
    PROVE  RatingShown'
<1>1. \A type : AllOf(type)' = AllOf(type)
  BY DEF AllOf
<1>2. ASSUME NEW type \in RatingType
      PROVE  \/ shownRating'[type] = AllOf(type)'
             \/ type \in stale'
             \/ Averaging(type)'
  BY <1>1 DEF RatingShown, AverageTrue, Averaging
<1> QED BY <1>2 DEF RatingShown, AverageTrue, Averaging

LEMMA ShownStep ==
    ASSUME RatingIInv, RatingShown, RatingNext
    PROVE  RatingShown'
<1>. PICK r \in Caller :
        \/ \E rating \in Rating : CreateRating(r, rating)
        \/ LookForRating(r) \/ LookForRatingFails(r) \/ InsertRating(r)
        \/ GatherRatings(r) \/ UpdateRating(r)
  BY DEF RatingNext
<1>. PICK type : type = call[r].rating.type
  OBVIOUS
<1>1. \A q \in Caller \ {r} : call'[q] = call[q]
  BY DEF RatingIInv, CreateRating, LookForRating, LookForRatingFails, InsertRating,
        GatherRatings, UpdateRating, Enter, Return, Goto
<1>2. \A t : \/ ~Averaging(t) \/ Averaging(t)'
           \/ /\ At(r, "gather") \/ At(r, "average")
              /\ t = type
  BY <1>1 DEF Averaging, At
<1>3. CASE \/ \E rating \in Rating : CreateRating(r, rating)
           \/ LookForRating(r) \/ LookForRatingFails(r)
           \/ InsertRating(r) /\ UNCHANGED ratings
  <2>1. ~At(r, "gather") /\ ~At(r, "average")
    BY <1>3 DEF CreateRating, LookForRating, LookForRatingFails, InsertRating, At
  <2>2. UNCHANGED <<ratings, shownRating, stale>>
    BY <1>3 DEF CreateRating, LookForRating, LookForRatingFails, InsertRating, ratingVars
  <2> QED BY <1>2, <2>1, <2>2, ShownStays DEF RatingShown
<1>4. CASE InsertRating(r) /\ ratings' = Append(ratings, call[r].rating) /\ Goto(r, "gather")
  <2>1. Rates(call[r]) /\ call[r].rating \in Rating
    BY <1>4, RatesAt DEF InsertRating, At, Rates, RatingCall
  <2>2. UNCHANGED <<shownRating, stale>>
    BY <1>4 DEF InsertRating
  <2>3. call' = [call EXCEPT ![r] = [call[r] EXCEPT !.at = "gather"]]
    BY <1>4 DEF Goto
  <2>4. call'[r].at = "gather" /\ call'[r].rating = call[r].rating
    BY <2>1, <2>3, RatingGoesOn DEF RatingIInv
  <2>5. Averaging(type)'
    BY <2>4 DEF Averaging
  <2>6. ASSUME NEW t \in RatingType, t # type
        PROVE  AllOf(t)' = AllOf(t)
    BY <1>4, <2>1, <2>6 DEF AllOf, RatingIInv
  <2>7. ~At(r, "gather") /\ ~At(r, "average")
    BY <1>4 DEF InsertRating, At
  <2>8. ASSUME NEW t \in RatingType
        PROVE  shownRating'[t] = AllOf(t)' \/ t \in stale' \/ Averaging(t)'
    BY <1>2, <2>2, <2>5, <2>6, <2>7 DEF RatingShown, AverageTrue, Averaging
  <2> QED BY <2>2, <2>8 DEF RatingShown, AverageTrue, Averaging
<1>5. CASE GatherRatings(r)
  <2>1. Rates(call[r]) /\ type \in RatingType
    BY <1>5, RatesAt DEF GatherRatings, At, Rates, RatingCall, Rating
  <2>2. UNCHANGED <<ratings, shownRating>>
    BY <1>5 DEF GatherRatings
  <2>3. CASE stale' = stale \union {type}
    BY <1>2, <2>1, <2>2, <2>3, ShownStays DEF RatingShown
  <2>4. CASE ~(stale' = stale \union {type})
    <3>. DEFINE found == AllOf(type)
                c == [call[r] EXCEPT !.at = "average", !.average = found, !.there = found]
    <3>1. call' = [call EXCEPT ![r] = c] /\ stale' = stale
      BY <1>5, <2>4, Zenon DEF GatherRatings, Gathered
    <3>2. found \in Average
      BY DEF AllOf, Average, RatingIInv
    <3>. HIDE DEF found
    <3>3. c.at = "average" /\ c.rating = call[r].rating
      BY <2>1, <3>2, RatingGathered
    <3>. HIDE DEF c
    <3>4. Averaging(type)'
      BY <3>1, <3>3 DEF Averaging, RatingIInv
    <3> QED BY <1>2, <2>2, <3>1, <3>4, ShownStays DEF RatingShown
  <2> QED BY <2>3, <2>4
<1>6. CASE UpdateRating(r)
  <2>1. /\ Rates(call[r]) /\ type \in RatingType
        /\ call[r].average \in Average /\ call[r].average = call[r].there
    BY <1>6, RatesAt DEF UpdateRating, At, Rates, RatingCall, Rating, RatingOK
  <2>2. UNCHANGED ratings /\ \A t : AllOf(t)' = AllOf(t)
    BY <1>6 DEF UpdateRating, AllOf
  <2>3. CASE shownRating' = shownRating /\ stale' = stale \union {type}
    BY <1>2, <2>1, <2>2, <2>3, ShownStays DEF RatingShown
  <2>4. CASE /\ shownRating' = [shownRating EXCEPT ![type] = call[r].average]
             /\ stale' = IF call[r].there = AllOf(type) THEN stale \ {type}
                         ELSE stale \union {type}
    <3>1. shownRating' \in [RatingType -> Average] /\ stale' \subseteq RatingType
      BY <2>1, <2>4 DEF RatingShown
    <3>2. shownRating'[type] = AllOf(type)' \/ type \in stale'
      BY <2>1, <2>2, <2>4 DEF RatingShown
    <3>3. ASSUME NEW t \in RatingType, t # type
          PROVE  shownRating'[t] = AllOf(t)' \/ t \in stale' \/ Averaging(t)'
      BY <1>2, <2>2, <2>4, <3>3 DEF RatingShown, AverageTrue, Averaging
    <3>4. \A t \in RatingType : shownRating'[t] = AllOf(t)' \/ t \in stale' \/ Averaging(t)'
      BY <3>2, <3>3
    <3> QED BY <3>1, <3>4 DEF RatingShown, AverageTrue, Averaging
  <2> QED BY <1>6, <2>3, <2>4 DEF UpdateRating
<1>7. InsertRating(r) => \/ UNCHANGED ratings
                         \/ ratings' = Append(ratings, call[r].rating) /\ Goto(r, "gather")
  BY DEF InsertRating
<1> QED BY <1>3, <1>4, <1>5, <1>6, <1>7

-----------------------------------------------------------------------------
(* Vehicles *)

VehicleState ==
    /\ garage \in Seq(PlateNumber)
    /\ primary \in 0..Len(garage)
    /\ fallbacks \subseteq 1..Len(garage)
    /\ overlap \in BOOLEAN

\* a call that has a vehicle has one of the collection
VehicleOK(c) ==
    /\ c.at \notin {"find", "create"} => c.id \in 1..Len(garage)
    /\ c.rest \subseteq 1..Len(garage)

\* what a call knows while no other is under way is still so
Fits(c) ==
    /\ c.at \in {"read", "set_primary", "add"} => garage[c.id] = c.number
    /\ c.at = "set_primary" => primary = 0
    /\ c.at = "add" => primary # 0 /\ c.id \notin Mine
    /\ c.at = "promote" => c.id = primary /\ c.rest = fallbacks
    /\ c.at = "shrink" => c.rest \subseteq fallbacks /\ (c.id # primary => c.id \notin c.rest)
    /\ c.at = "clear" => fallbacks = {} /\ c.id = primary

VehicleCalls ==
    /\ call \in [Caller -> VehicleCall \union {Fresh, Done}]
    /\ \A r \in Caller : call[r] \in VehicleCall => VehicleOK(call[r])

OneAtATime ==
    /\ \A r, q \in Caller : r # q => Idle(r) \/ Idle(q)
    /\ Consistent
    /\ \A r \in Caller : call[r] \in VehicleCall => Fits(call[r])

VehicleIInv == VehicleState /\ VehicleCalls /\ (~overlap => OneAtATime)

LEMMA VehicleInitOK ==
    VehicleInit => VehicleState /\ (CallInit => VehicleIInv)
<1>1. VehicleInit => VehicleState
  <2>1. <<>> \in Seq(PlateNumber) /\ Len(<<>>) = 0
    OBVIOUS
  <2>2. {} \subseteq 1..Len(<<>>) /\ 0 \in 0..Len(<<>>)
    BY <2>1
  <2> QED BY <2>1, <2>2 DEF VehicleInit, VehicleState
<1>2. Fresh \notin VehicleCall
  BY DEF Fresh, VehicleCall
<1>3. CallInit => VehicleCalls
  BY <1>2 DEF CallInit, VehicleCalls
<1>4. VehicleInit /\ CallInit => OneAtATime
  BY <1>2 DEF VehicleInit, CallInit, OneAtATime, Idle, Consistent
<1> QED BY <1>1, <1>3, <1>4 DEF VehicleIInv

LEMMA VehicleTypes == VehicleIInv => VehicleTypeOK
BY DEF VehicleIInv, VehicleState, VehicleCalls, VehicleTypeOK

LEMMA NotIdle ==
    ASSUME NEW c \in VehicleCall
    PROVE  c \notin {Fresh, Done}
BY DEF VehicleCall, Fresh, Done

LEMMA VehicleAt ==
    ASSUME VehicleIInv, NEW r \in Caller, call[r].at \notin {"new", "done"}
    PROVE  call[r] \in VehicleCall /\ VehicleOK(call[r]) /\ (~overlap => Fits(call[r]))
BY DEF VehicleIInv, VehicleCalls, OneAtATime, Fresh, Done

\* a call under way goes on, or ends
LEMMA VehicleMoves ==
    ASSUME VehicleIInv, NEW r \in Caller, call[r] \in VehicleCall,
           NEW c \in VehicleCall \union {Done}, call' = [call EXCEPT ![r] = c],
           overlap' = overlap,
           garage' \in Seq(PlateNumber), Len(garage) <= Len(garage'),
           primary' \in 0..Len(garage'), fallbacks' \subseteq 1..Len(garage'),
           c \in VehicleCall => VehicleOK(c)',
           ~overlap => Consistent' /\ (c \in VehicleCall => Fits(c)')
    PROVE  VehicleIInv'
<1>1. VehicleState'
  BY DEF VehicleIInv, VehicleState
<1>2. call'[r] = c /\ \A q \in Caller \ {r} : call'[q] = call[q]
  BY DEF VehicleIInv, VehicleCalls
<1>3. 1..Len(garage) \subseteq 1..Len(garage')
  BY DEF VehicleIInv, VehicleState
<1>4. VehicleCalls'
  <2>1. call' \in [Caller -> VehicleCall \union {Fresh, Done}]
    BY DEF VehicleIInv, VehicleCalls
  <2>2. ASSUME NEW q \in Caller \ {r}, NEW k, k = call[q], k \in VehicleCall
        PROVE  VehicleOK(k)'
    BY <1>3, <2>2 DEF VehicleIInv, VehicleCalls, VehicleOK
  <2>3. ASSUME NEW q \in Caller, NEW k, k = call'[q], k \in VehicleCall
        PROVE  VehicleOK(k)'
    BY <1>2, <2>2, <2>3
  <2> QED BY <2>1, <2>3 DEF VehicleCalls, VehicleOK
<1>5. ASSUME ~overlap
      PROVE  OneAtATime'
  <2>1. \A q \in Caller \ {r} : call[q] \in {Fresh, Done}
    BY <1>5, NotIdle DEF VehicleIInv, OneAtATime, Idle
  <2>2. \A q \in Caller \ {r} : call'[q] \in {Fresh, Done}
    BY <1>2, <2>1
  <2>3. \A q, p \in Caller : q # p => Idle(q)' \/ Idle(p)'
    BY <2>2 DEF Idle
  <2>4. \A q \in Caller : call'[q] \in VehicleCall => q = r
    BY <2>2, NotIdle
  <2>5. ASSUME NEW q \in Caller, NEW k, k = call'[q], k \in VehicleCall
        PROVE  Fits(k)'
    BY <1>2, <1>5, <2>4, <2>5
  <2> QED BY <1>5, <2>3, <2>5 DEF OneAtATime, Fits
<1> QED BY <1>1, <1>4, <1>5 DEF VehicleIInv

LEMMA VehicleEnds ==
    ASSUME VehicleIInv, NEW r \in Caller, call[r] \in VehicleCall, Return(r),
           overlap' = overlap, garage' \in Seq(PlateNumber), Len(garage') = Len(garage),
           primary' \in 0..Len(garage), fallbacks' \subseteq 1..Len(garage),
           ~overlap => Consistent'
    PROVE  VehicleIInv'
<1>1. call' = [call EXCEPT ![r] = Done] /\ Done \notin VehicleCall
  BY NotIdle DEF Return, Enter
<1>2. Len(garage) <= Len(garage')
  BY DEF VehicleIInv, VehicleState
<1>3. primary' \in 0..Len(garage') /\ fallbacks' \subseteq 1..Len(garage')
  OBVIOUS
<1> QED BY <1>1, <1>2, <1>3, VehicleMoves

LEMMA BeginStep ==
    ASSUME VehicleIInv, NEW r \in Caller, NEW c \in VehicleCall, Begin(r, c),
           VehicleOK(c), c.at \in {"find", "remove", "check"}
    PROVE  VehicleIInv'
<1>1. /\ call' = [call EXCEPT ![r] = c] /\ UNCHANGED <<garage, primary, fallbacks>>
      /\ overlap' = (overlap \/ \E q \in Caller : ~Idle(q))
  BY DEF Begin, Enter
<1>2. VehicleState'
  BY <1>1 DEF VehicleIInv, VehicleState
<1>3. call'[r] = c /\ \A q \in Caller \ {r} : call'[q] = call[q]
  BY <1>1 DEF VehicleIInv, VehicleCalls
<1>4. VehicleCalls'
  <2>1. call' \in [Caller -> VehicleCall \union {Fresh, Done}]
    BY <1>1 DEF VehicleIInv, VehicleCalls
  <2>2. \A q \in Caller : call'[q] \in VehicleCall => VehicleOK(call'[q])
    BY <1>3 DEF VehicleIInv, VehicleCalls
  <2> QED BY <1>1, <2>1, <2>2 DEF VehicleCalls, VehicleOK
<1>5. ASSUME ~overlap'
      PROVE  OneAtATime'
  <2>1. ~overlap /\ \A q \in Caller : call[q] \in {Fresh, Done}
    BY <1>1, <1>5 DEF Idle
  <2>2. \A q \in Caller \ {r} : call'[q] \in {Fresh, Done}
    BY <1>3, <2>1
  <2>3. \A q, p \in Caller : q # p => Idle(q)' \/ Idle(p)'
    BY <2>2 DEF Idle
  <2>4. Consistent'
    BY <1>1, <2>1 DEF VehicleIInv, OneAtATime, Consistent
  <2>5. \A q \in Caller : call'[q] \in VehicleCall => q = r
    BY <2>2, NotIdle
  <2>6. ASSUME NEW q \in Caller, NEW k, k = call'[q], k \in VehicleCall
        PROVE  Fits(k)'
    BY <1>3, <2>5, <2>6 DEF Fits
  <2> QED BY <2>3, <2>4, <2>6 DEF OneAtATime, Fits
<1> QED BY <1>2, <1>4, <1>5 DEF VehicleIInv

LEMMA BeginsOK ==
    ASSUME VehicleIInv, NEW r \in Caller, NEW n \in PlateNumber,
           \/ SaveVehicle(r, n)
           \/ \E id \in DOMAIN garage : DeleteVehicle(r, id) \/ UpdateVehicle(r, id, n)
    PROVE  VehicleIInv'
<1>1. garage \in Seq(PlateNumber)
  BY DEF VehicleIInv, VehicleState
<1>2. CASE SaveVehicle(r, n)
  <2>. DEFINE c == [at |-> "find", number |-> n, id |-> 0, rest |-> {}]
  <2>1. c \in VehicleCall /\ VehicleOK(c) /\ c.at = "find"
    BY DEF VehicleCall, VehicleOK
  <2> QED BY <1>2, <2>1, BeginStep DEF SaveVehicle
<1>3. ASSUME NEW id \in DOMAIN garage, NEW at \in {"remove", "check"}, NEW m \in PlateNumber,
             Begin(r, [at |-> at, number |-> m, id |-> id, rest |-> {}])
      PROVE  VehicleIInv'
  <2>. DEFINE c == [at |-> at, number |-> m, id |-> id, rest |-> {}]
  <2>1. id \in 1..Len(garage) /\ id \in Nat
    BY <1>1
  <2>2. c \in VehicleCall /\ VehicleOK(c) /\ c.at = at
    BY <2>1 DEF VehicleCall, VehicleOK
  <2>. HIDE DEF c
  <2> QED BY <1>3, <2>2, BeginStep DEF c
<1>4. \A id \in DOMAIN garage : garage[id] \in PlateNumber
  BY <1>1
<1> QED BY <1>2, <1>3, <1>4 DEF DeleteVehicle, UpdateVehicle

\* a call goes on by its record, the stores as they are
LEMMA VehicleGoesOn ==
    ASSUME VehicleIInv, NEW r \in Caller, NEW c \in VehicleCall, call[r] \in VehicleCall,
           call' = [call EXCEPT ![r] = c], UNCHANGED vehicleVars,
           VehicleOK(c), ~overlap => Fits(c)
    PROVE  VehicleIInv'
<1>1. UNCHANGED <<garage, primary, fallbacks, overlap>>
  BY DEF vehicleVars
<1>2. VehicleOK(c)' /\ (~overlap => Fits(c)')
  BY <1>1 DEF VehicleOK, Fits, Mine
<1>3. ~overlap => Consistent'
  BY <1>1 DEF VehicleIInv, OneAtATime, Consistent
<1>4. /\ garage' \in Seq(PlateNumber) /\ Len(garage) <= Len(garage')
      /\ primary' \in 0..Len(garage') /\ fallbacks' \subseteq 1..Len(garage')
  BY <1>1 DEF VehicleIInv, VehicleState
<1> QED BY <1>1, <1>2, <1>3, <1>4, VehicleMoves

LEMMA SaveSteps ==
    ASSUME VehicleIInv, NEW r \in Caller,
           \/ FindByNumber(r) \/ CreateVehicle(r) \/ ReadUser(r) \/ SetPrimary(r)
           \/ AddFallback(r)
    PROVE  VehicleIInv'
<1>1. /\ call[r] \in VehicleCall /\ VehicleOK(call[r]) /\ (~overlap => Fits(call[r]))
      /\ call[r].id \in Nat /\ call[r].number \in PlateNumber
  BY VehicleAt DEF FindByNumber, CreateVehicle, ReadUser, SetPrimary, AddFallback, At,
        VehicleCall
<1>2. /\ garage \in Seq(PlateNumber) /\ Len(garage) \in Nat /\ primary \in 0..Len(garage)
      /\ fallbacks \subseteq 1..Len(garage) /\ (~overlap => Consistent)
  BY DEF VehicleIInv, VehicleState, OneAtATime
<1>3. CASE FindByNumber(r)
  <2>1. CASE Goto(r, "create")
    <3>. DEFINE c == [call[r] EXCEPT !.at = "create"]
    <3>1. c \in VehicleCall /\ VehicleOK(c) /\ Fits(c)
      BY <1>1 DEF VehicleCall, VehicleOK, Fits
    <3>2. call' = [call EXCEPT ![r] = c]
      BY <2>1 DEF Goto
    <3>. HIDE DEF c
    <3> QED BY <1>1, <1>3, <3>1, <3>2, VehicleGoesOn DEF FindByNumber
  <2>2. ASSUME NEW id \in DOMAIN garage, garage[id] = call[r].number,
               call' = [call EXCEPT ![r].at = "read", ![r].id = id]
        PROVE  VehicleIInv'
    <3>. DEFINE c == [call[r] EXCEPT !.at = "read", !.id = id]
    <3>1. id \in Nat /\ id \in 1..Len(garage)
      BY <1>2
    <3>2. c \in VehicleCall /\ VehicleOK(c) /\ Fits(c)
      BY <1>1, <2>2, <3>1 DEF VehicleCall, VehicleOK, Fits
    <3>3. call' = [call EXCEPT ![r] = c]
      BY <2>2
    <3>. HIDE DEF c
    <3> QED BY <1>1, <1>3, <3>2, <3>3, VehicleGoesOn DEF FindByNumber
  <2> QED BY <1>3, <2>1, <2>2 DEF FindByNumber
<1>4. CASE CreateVehicle(r)
  <2>. DEFINE n == Len(garage) + 1
              c == [call[r] EXCEPT !.at = "read", !.id = n]
  <2>1. /\ garage' = Append(garage, call[r].number)
        /\ call' = [call EXCEPT ![r] = c] /\ UNCHANGED <<primary, fallbacks, overlap>>
    BY <1>4 DEF CreateVehicle
  <2>2. /\ garage' \in Seq(PlateNumber) /\ Len(garage') = n /\ n \in Nat
        /\ garage'[n] = call[r].number
    BY <1>1, <1>2, <2>1
  <2>3. primary' \in 0..Len(garage') /\ fallbacks' \subseteq 1..Len(garage')
    BY <1>2, <2>1, <2>2
  <2>4. Len(garage) <= Len(garage')
    BY <1>2, <2>2
  <2>. HIDE DEF n
  <2>5. c \in VehicleCall /\ c.at = "read" /\ c.id = n /\ c.number = call[r].number
        /\ c.rest = call[r].rest
    BY <1>1, <2>2 DEF VehicleCall
  <2>6. n \in 1..Len(garage') /\ call[r].rest \subseteq 1..Len(garage')
    BY <1>1, <1>2, <2>2 DEF VehicleOK, n
  <2>7. ASSUME NEW k, k = c
        PROVE  VehicleOK(k)' /\ Fits(k)'
    BY <2>2, <2>5, <2>6, <2>7 DEF VehicleOK, Fits
  <2>8. ~overlap => Consistent'
    BY <1>2, <2>1 DEF Consistent
  <2>. HIDE DEF c
  <2> QED BY <1>1, <2>1, <2>2, <2>3, <2>4, <2>5, <2>7, <2>8, VehicleMoves
<1>5. CASE ReadUser(r)
  <2>1. CASE Return(r)
    BY <1>1, <1>2, <1>5, <2>1, VehicleEnds DEF ReadUser, vehicleVars, Consistent
  <2>2. ASSUME NEW to \in {"set_primary", "add"}, Goto(r, to),
               IF to = "set_primary" THEN primary = 0
               ELSE primary # 0 /\ call[r].id \notin Mine
        PROVE  VehicleIInv'
    <3>. DEFINE c == [call[r] EXCEPT !.at = to]
    <3>1. call[r].at = "read"
      BY <1>5 DEF ReadUser, At
    <3>2. c \in VehicleCall /\ VehicleOK(c) /\ (~overlap => Fits(c))
      BY <1>1, <2>2, <3>1 DEF VehicleCall, VehicleOK, Fits
    <3>3. call' = [call EXCEPT ![r] = c]
      BY <2>2 DEF Goto
    <3>. HIDE DEF c
    <3> QED BY <1>1, <1>5, <3>2, <3>3, VehicleGoesOn DEF ReadUser
  <2> QED BY <1>5, <2>1, <2>2 DEF ReadUser
<1>6. CASE SetPrimary(r)
  <2>1. call[r].id \in 1..Len(garage) /\ At(r, "set_primary")
    BY <1>1, <1>6 DEF SetPrimary, At, VehicleOK
  <2>2. UNCHANGED <<garage, fallbacks, overlap>> /\ Return(r)
        /\ primary' = IF primary = 0 THEN call[r].id ELSE primary
    BY <1>6 DEF SetPrimary, Settable
  <2>3. ~overlap => Consistent'
    BY <1>1, <1>2, <2>1, <2>2 DEF Consistent, Fits, At
  <2> QED BY <1>1, <1>2, <2>1, <2>2, <2>3, VehicleEnds
<1>7. CASE AddFallback(r)
  <2>1. call[r].id \in 1..Len(garage) /\ call[r].at = "add"
    BY <1>1, <1>7 DEF AddFallback, At, VehicleOK
  <2>2. /\ UNCHANGED <<garage, primary, overlap>> /\ Return(r)
        /\ fallbacks' = fallbacks \union {call[r].id}
    BY <1>7 DEF AddFallback
  <2>3. ~overlap => Consistent'
    BY <1>1, <1>2, <2>1, <2>2 DEF Consistent, Fits, Mine
  <2> QED BY <1>1, <1>2, <2>1, <2>2, <2>3, VehicleEnds
<1> QED BY <1>3, <1>4, <1>5, <1>6, <1>7

LEMMA RemoveSteps ==
    ASSUME VehicleIInv, NEW r \in Caller,
           \/ ReadToRemove(r) \/ Promote(r) \/ Shrink(r) \/ ClearPrimary(r)
    PROVE  VehicleIInv'
<1>1. /\ call[r] \in VehicleCall /\ VehicleOK(call[r]) /\ (~overlap => Fits(call[r]))
      /\ call[r].id \in 1..Len(garage) /\ call[r].rest \subseteq 1..Len(garage)
  BY VehicleAt DEF ReadToRemove, Promote, Shrink, ClearPrimary, At, VehicleOK
<1>2. /\ garage \in Seq(PlateNumber) /\ Len(garage) \in Nat /\ primary \in 0..Len(garage)
      /\ fallbacks \subseteq 1..Len(garage) /\ (~overlap => Consistent)
  BY DEF VehicleIInv, VehicleState, OneAtATime
<1>3. CASE ReadToRemove(r)
  <2>1. CASE Return(r)
    BY <1>1, <1>2, <1>3, <2>1, VehicleEnds DEF ReadToRemove, vehicleVars, Consistent
  <2>2. CASE primary = call[r].id /\ call' = [call EXCEPT ![r].at = "promote", ![r].rest = fallbacks]
    <3>. DEFINE c == [call[r] EXCEPT !.at = "promote", !.rest = fallbacks]
    <3>1. fallbacks \subseteq Nat
      BY <1>2
    <3>2. c \in VehicleCall /\ VehicleOK(c) /\ Fits(c)
      BY <1>1, <1>2, <2>2, <3>1 DEF VehicleCall, VehicleOK, Fits
    <3>3. call' = [call EXCEPT ![r] = c]
      BY <2>2
    <3>. HIDE DEF c
    <3> QED BY <1>1, <1>3, <3>2, <3>3, VehicleGoesOn DEF ReadToRemove
  <2>3. CASE primary = call[r].id /\ fallbacks = {} /\ Goto(r, "clear")
    <3>. DEFINE c == [call[r] EXCEPT !.at = "clear"]
    <3>1. c \in VehicleCall /\ VehicleOK(c) /\ Fits(c)
      BY <1>1, <2>3 DEF VehicleCall, VehicleOK, Fits
    <3>2. call' = [call EXCEPT ![r] = c]
      BY <2>3 DEF Goto
    <3>. HIDE DEF c
    <3> QED BY <1>1, <1>3, <3>1, <3>2, VehicleGoesOn DEF ReadToRemove
  <2>4. CASE call' = [call EXCEPT ![r].at = "shrink", ![r].rest = fallbacks \ {call[r].id}]
    <3>. DEFINE rest == fallbacks \ {call[r].id}
                c == [call[r] EXCEPT !.at = "shrink", !.rest = rest]
    <3>1. rest \subseteq fallbacks /\ call[r].id \notin rest
      OBVIOUS
    <3>2. call' = [call EXCEPT ![r] = c]
      BY <2>4
    <3>. HIDE DEF rest
    <3>4. rest \subseteq Nat
      BY <1>2, <3>1
    <3>3. c \in VehicleCall /\ VehicleOK(c) /\ Fits(c)
      BY <1>1, <1>2, <3>1, <3>4 DEF VehicleCall, VehicleOK, Fits
    <3>. HIDE DEF c
    <3> QED BY <1>1, <1>3, <3>2, <3>3, VehicleGoesOn DEF ReadToRemove
  <2> QED BY <1>3, <2>1, <2>2, <2>3, <2>4 DEF ReadToRemove, Promotes
<1>4. CASE Promote(r)
  <2>. PICK f \in call[r].rest :
          /\ primary' = IF primary = 0 THEN f ELSE primary
          /\ call' = [call EXCEPT ![r].at = "shrink", ![r].rest = @ \ {f}]
    BY <1>4 DEF Promote, Settable
  <2>. DEFINE rest == call[r].rest \ {f}
              c == [call[r] EXCEPT !.at = "shrink", !.rest = rest]
  <2>1. UNCHANGED <<garage, fallbacks, overlap>> /\ At(r, "promote")
    BY <1>4 DEF Promote
  <2>2. rest \subseteq Nat /\ rest \subseteq call[r].rest
    BY <1>1
  <2>3. call' = [call EXCEPT ![r] = c]
    OBVIOUS
  <2>. HIDE DEF rest
  <2>4. c \in VehicleCall /\ c.at = "shrink" /\ c.id = call[r].id /\ c.rest = rest
    BY <1>1, <2>2 DEF VehicleCall
  <2>5. primary' \in 0..Len(garage')
    BY <1>1, <1>2, <2>1
  <2>. HIDE DEF c
  <2>6. VehicleOK(c)
    BY <1>1, <2>2, <2>4 DEF VehicleOK
  <2>7. ~overlap => primary' = primary /\ c.id = primary /\ c.rest \subseteq fallbacks
    BY <1>1, <1>2, <2>1, <2>2, <2>4 DEF Fits, At
  <2>8. ASSUME NEW k, k = c
        PROVE  VehicleOK(k)' /\ (~overlap => Fits(k)')
    BY <2>1, <2>4, <2>6, <2>7, <2>8 DEF VehicleOK, Fits
  <2>9. ~overlap => Consistent'
    BY <1>2, <2>1, <2>7 DEF Consistent
  <2>10. /\ garage' \in Seq(PlateNumber) /\ Len(garage) <= Len(garage')
         /\ fallbacks' \subseteq 1..Len(garage')
    BY <1>2, <2>1
  <2> QED BY <1>1, <2>10, <2>1, <2>3, <2>4, <2>5, <2>8, <2>9, VehicleMoves
<1>5. CASE Shrink(r)
  <2>1. /\ UNCHANGED <<garage, primary, overlap>> /\ Return(r)
        /\ fallbacks' = call[r].rest /\ At(r, "shrink")
    BY <1>5 DEF Shrink
  <2>2. ~overlap => Consistent'
    BY <1>1, <1>2, <2>1 DEF Consistent, Fits, At
  <2> QED BY <1>1, <1>2, <2>1, <2>2, VehicleEnds
<1>6. CASE ClearPrimary(r)
  <2>1. /\ UNCHANGED <<garage, fallbacks, overlap>> /\ Return(r)
        /\ primary' = 0 /\ At(r, "clear")
    BY <1>6 DEF ClearPrimary
  <2>2. ~overlap => Consistent'
    BY <1>1, <1>2, <2>1 DEF Consistent, Fits, At
  <2> QED BY <1>1, <1>2, <2>1, <2>2, VehicleEnds
<1> QED BY <1>3, <1>4, <1>5, <1>6

LEMMA RenumberSteps ==
    ASSUME VehicleIInv, NEW r \in Caller, CheckOwner(r) \/ Renumber(r)
    PROVE  VehicleIInv'
<1>1. /\ call[r] \in VehicleCall /\ VehicleOK(call[r])
      /\ call[r].id \in 1..Len(garage) /\ call[r].number \in PlateNumber
  BY VehicleAt DEF CheckOwner, Renumber, At, VehicleOK, VehicleCall
<1>2. /\ garage \in Seq(PlateNumber) /\ Len(garage) \in Nat /\ primary \in 0..Len(garage)
      /\ fallbacks \subseteq 1..Len(garage) /\ (~overlap => Consistent)
  BY DEF VehicleIInv, VehicleState, OneAtATime
<1>3. CASE CheckOwner(r) /\ Goto(r, "update")
  <2>. DEFINE c == [call[r] EXCEPT !.at = "update"]
  <2>1. c \in VehicleCall /\ VehicleOK(c) /\ Fits(c)
    BY <1>1 DEF VehicleCall, VehicleOK, Fits
  <2>2. call' = [call EXCEPT ![r] = c]
    BY <1>3 DEF Goto
  <2>. HIDE DEF c
  <2> QED BY <1>1, <1>3, <2>1, <2>2, VehicleGoesOn DEF CheckOwner
<1>4. CASE CheckOwner(r) /\ Return(r)
  BY <1>1, <1>2, <1>4, VehicleEnds DEF CheckOwner, vehicleVars, Consistent
<1>5. CASE Renumber(r)
  <2>1. /\ UNCHANGED <<primary, fallbacks, overlap>> /\ Return(r)
        /\ garage' = [garage EXCEPT ![call[r].id] = call[r].number]
    BY <1>5 DEF Renumber
  <2>2. garage' \in Seq(PlateNumber) /\ Len(garage') = Len(garage)
    BY <1>1, <1>2, <2>1
  <2>3. ~overlap => Consistent'
    BY <1>2, <2>1 DEF Consistent
  <2> QED BY <1>1, <1>2, <2>1, <2>2, <2>3, VehicleEnds
<1> QED BY <1>3, <1>4, <1>5 DEF CheckOwner

LEMMA VehicleStep == VehicleIInv /\ VehicleNext => VehicleIInv'
<1>. SUFFICES ASSUME VehicleIInv, VehicleNext PROVE VehicleIInv'
  OBVIOUS
<1>1. ASSUME NEW r \in Caller, NEW id \in DOMAIN garage, DeleteVehicle(r, id)
      PROVE  VehicleIInv'
  <2>1. garage[id] \in PlateNumber
    BY DEF VehicleIInv, VehicleState
  <2> QED BY <1>1, <2>1, BeginsOK
<1> QED BY <1>1, BeginsOK, SaveSteps, RemoveSteps, RenumberSteps DEF VehicleNext

\* what a call that met no other has brought about when it returns
LEMMA TakesEffect ==
    ASSUME VehicleIInv, VehicleNext, ~overlap,
           NEW r \in Caller, call[r] \in VehicleCall, call'[r] = Done
    PROVE  /\ Consistent'
           /\ call[r].at \in {"read", "set_primary", "add"} =>
                  call[r].id \in Mine' /\ garage'[call[r].id] = call[r].number
           /\ At(r, "clear") \/ (call[r].at \in {"remove", "shrink"} /\ call[r].id # primary) =>
                  call[r].id \notin Mine'
<1>1. ASSUME NEW q \in Caller, NEW n \in PlateNumber,
             \/ SaveVehicle(q, n)
             \/ \E id \in DOMAIN garage : DeleteVehicle(q, id) \/ UpdateVehicle(q, id, n)
      PROVE  call'[r] # Done
  <2>1. ASSUME NEW c, Begin(q, c), DOMAIN c # {"at"}
        PROVE  call'[r] # Done
    <3>1. call' = [call EXCEPT ![q] = c] /\ c # Done
      BY <2>1 DEF Begin, Enter, Done
    <3>2. call[r] # Done
      BY NotIdle
    <3> QED BY <3>1, <3>2 DEF VehicleIInv, VehicleCalls
  <2>2. ASSUME NEW at, NEW m, NEW id
        PROVE  DOMAIN [at |-> at, number |-> m, id |-> id, rest |-> {}] # {"at"}
    OBVIOUS
  <2> QED BY <1>1, <2>1, <2>2 DEF SaveVehicle, DeleteVehicle, UpdateVehicle
<1>2. PICK q \in Caller :
          \/ CheckOwner(q) \/ Renumber(q)
          \/ FindByNumber(q) \/ CreateVehicle(q) \/ ReadUser(q) \/ SetPrimary(q)
          \/ AddFallback(q) \/ ReadToRemove(q) \/ Promote(q) \/ Shrink(q) \/ ClearPrimary(q)
  <2>1. \A id \in DOMAIN garage : garage[id] \in PlateNumber
    BY DEF VehicleIInv, VehicleState
  <2> QED BY <1>1, <2>1 DEF VehicleNext
<1>3. q = r
  BY <1>2, NotIdle DEF VehicleIInv, VehicleCalls, CheckOwner, Renumber, FindByNumber, CreateVehicle,
        ReadUser, SetPrimary, AddFallback, ReadToRemove, Promote, Shrink, ClearPrimary,
        Return, Enter, Goto
<1>4. /\ call[r] \in VehicleCall /\ VehicleOK(call[r]) /\ Fits(call[r])
      /\ call[r].at \in {"check", "update", "find", "create", "read", "set_primary", "add",
                         "remove", "promote", "shrink", "clear"}
  BY <1>2, <1>3, VehicleAt DEF CheckOwner, Renumber, FindByNumber, CreateVehicle,
        ReadUser, SetPrimary, AddFallback, ReadToRemove, Promote, Shrink, ClearPrimary, At
<1>5. Consistent'
  <2>1. overlap' = overlap
    BY <1>2 DEF CheckOwner, Renumber, FindByNumber, CreateVehicle, ReadUser, SetPrimary,
          AddFallback, ReadToRemove, Promote, Shrink, ClearPrimary, vehicleVars
  <2>2. VehicleIInv'
    BY VehicleStep
  <2> QED BY <2>1, <2>2 DEF VehicleIInv, OneAtATime
<1>6. ASSUME call[r].at \in {"read", "set_primary", "add"}
      PROVE  call[r].id \in Mine' /\ garage'[call[r].id] = call[r].number
  <2>1. garage' = garage /\ garage[call[r].id] = call[r].number
    BY <1>2, <1>3, <1>4, <1>6 DEF Fits, CheckOwner, Renumber, FindByNumber, CreateVehicle,
          ReadUser, SetPrimary, AddFallback, ReadToRemove, Promote, Shrink, ClearPrimary,
          vehicleVars, At
  <2>2. CASE ReadUser(r)
    <3>1. \A to : Goto(r, to) => call'[r].at = to
      BY <1>4 DEF Goto, VehicleIInv, VehicleCalls, VehicleCall
    <3>2. ~Goto(r, "set_primary") /\ ~Goto(r, "add")
      BY <3>1 DEF Done
    <3> QED BY <2>1, <2>2, <3>2 DEF ReadUser, vehicleVars, Mine
  <2>3. CASE SetPrimary(r)
    BY <1>4, <2>1, <2>3 DEF SetPrimary, Settable, At, Fits, Mine
  <2>4. CASE AddFallback(r)
    BY <2>1, <2>4 DEF AddFallback, Mine
  <2> QED BY <1>2, <1>3, <1>6, <2>2, <2>3, <2>4 DEF CheckOwner, Renumber, FindByNumber,
        CreateVehicle, ReadToRemove, Promote, Shrink, ClearPrimary, At
<1>7. ASSUME At(r, "clear") \/ (call[r].at \in {"remove", "shrink"} /\ call[r].id # primary)
      PROVE  call[r].id \notin Mine'
  <2>1. call[r].id \in 1..Len(garage) /\ Len(garage) \in Nat
    BY <1>4, <1>7 DEF VehicleOK, At, VehicleIInv, VehicleState
  <2>2. CASE ClearPrimary(r)
    BY <1>4, <2>1, <2>2 DEF ClearPrimary, At, Fits, Mine
  <2>3. CASE Shrink(r)
    BY <1>4, <1>7, <2>3 DEF Shrink, At, Fits, Mine
  <2>4. CASE ReadToRemove(r)
    <3>1. call[r].id # primary /\ UNCHANGED vehicleVars
      BY <1>7, <2>4 DEF ReadToRemove, At
    <3>2. call' # [call EXCEPT ![r].at = "shrink", ![r].rest = fallbacks \ {call[r].id}]
      BY <1>4 DEF VehicleIInv, VehicleCalls, VehicleCall, Done
    <3> QED BY <2>4, <3>1, <3>2 DEF ReadToRemove, vehicleVars, Mine
  <2> QED BY <1>2, <1>3, <1>7, <2>2, <2>3, <2>4 DEF CheckOwner, Renumber, FindByNumber,
        CreateVehicle, ReadUser, SetPrimary, AddFallback, Promote, At
<1> QED BY <1>5, <1>6, <1>7

-----------------------------------------------------------------------------
(* The whole *)

\* a part that a behaviour is not about stays as it began
RecordsInv ==
    /\ part \in Part
    /\ CouponState /\ UsesCounted /\ (part = "coupons" => CouponCalls /\ UsesFit)
    /\ AccountState /\ (part = "accounts" => AccountCalls)
    /\ DeviceState /\ (part = "devices" => DeviceCalls)
    /\ IF part = "complaints" THEN ComplaintIInv ELSE ComplaintInit
    /\ IF part = "ratings" THEN RatingIInv /\ RatingShown ELSE RatingInit
    /\ part = "vehicles" => VehicleIInv

LEMMA RecordsInitOK == Init => RecordsInv
<1>. SUFFICES ASSUME Init PROVE RecordsInv
  OBVIOUS
<1>1. /\ part \in Part /\ CallInit /\ CouponInit /\ AccountInit /\ RatingInit
      /\ ComplaintInit /\ VehicleInit /\ DeviceInit
  BY DEF Init
<1>2. CouponState /\ UsesCounted /\ CouponCalls /\ UsesFit
  BY <1>1, CouponInitOK, CouponCallsInit, UsesInit
<1> QED BY <1>1, <1>2, AccountInitOK, AccountCallsInit, DeviceInitOK, DeviceCallsInit,
           ComplaintInitOK, RatingInitOK, RatingShownInit, VehicleInitOK DEF RecordsInv

LEMMA NoComplaintChanges ==
    ASSUME ComplaintInit, UNCHANGED complaintVars
    PROVE  ComplaintInit'
BY DEF ComplaintInit, complaintVars

LEMMA NoRatingChanges ==
    ASSUME RatingInit, UNCHANGED ratingVars
    PROVE  RatingInit'
BY DEF RatingInit, ratingVars

LEMMA RecordsStep == RecordsInv /\ [Next]_vars => RecordsInv'
<1>. SUFFICES ASSUME RecordsInv, [Next]_vars PROVE RecordsInv'
  OBVIOUS
<1>1. part' = part /\ part \in Part
  BY DEF RecordsInv, Next, vars
<1>2. CouponState' /\ (part = "coupons" => CouponCalls')
  <2>1. CASE part = "coupons" /\ CouponNext
    BY <2>1, CouponStep DEF RecordsInv, CouponIInv
  <2>2. CASE UNCHANGED couponVars /\ (part = "coupons" => UNCHANGED call)
    <3>1. CouponState'
      BY <2>2, NothingChanges DEF RecordsInv
    <3>2. ASSUME part = "coupons"
          PROVE  CouponCalls'
      BY <2>2, <3>2 DEF RecordsInv, CouponCalls, CallOK, Fair, couponVars, HasPromo
    <3> QED BY <3>1, <3>2
  <2> QED BY <2>1, <2>2 DEF Next, vars
<1>3. AccountState' /\ (part = "accounts" => AccountCalls')
  <2>1. CASE part = "accounts" /\ AccountNext
    BY <2>1, AccountStep DEF RecordsInv, AccountIInv
  <2>2. CASE UNCHANGED accountVars /\ (part = "accounts" => UNCHANGED call)
    <3>1. AccountState'
      BY <2>2, NoAccountChanges DEF RecordsInv
    <3>2. ASSUME part = "accounts"
          PROVE  AccountCalls'
      BY <2>2, <3>2 DEF RecordsInv, AccountCalls, LoginOK, ProfileOK, Apart, accountVars, Live, Of
    <3> QED BY <3>1, <3>2
  <2> QED BY <2>1, <2>2 DEF Next, vars
<1>4. DeviceState' /\ (part = "devices" => DeviceCalls')
  <2>1. CASE part = "devices" /\ DeviceNext
    BY <2>1, DeviceStep DEF RecordsInv, DeviceIInv
  <2>2. CASE UNCHANGED deviceVars /\ (part = "devices" => UNCHANGED call)
    <3>1. DeviceState'
      BY <2>2, NoDeviceChanges DEF RecordsInv
    <3>2. ASSUME part = "devices"
          PROVE  DeviceCalls'
      BY <2>2, <3>2 DEF RecordsInv, DeviceCalls, DeviceOK, Overtakes, Registers, deviceVars
    <3> QED BY <3>1, <3>2
  <2> QED BY <2>1, <2>2 DEF Next, vars
<1>5. IF part = "complaints" THEN ComplaintIInv' ELSE ComplaintInit'
  <2>1. CASE part = "complaints" /\ ComplaintNext
    BY <2>1, ComplaintStep DEF RecordsInv
  <2>2. CASE UNCHANGED complaintVars /\ (part = "complaints" => UNCHANGED call)
    <3>1. ASSUME part # "complaints"
          PROVE  ComplaintInit'
      BY <2>2, <3>1, NoComplaintChanges DEF RecordsInv
    <3>2. ASSUME part = "complaints"
          PROVE  ComplaintIInv'
      BY <2>2, <3>2 DEF RecordsInv, ComplaintIInv, ComplaintState, ComplaintCalls,
                        ComplaintOK, About, ReferenceTrue, At, complaintVars
    <3> QED BY <3>1, <3>2
  <2> QED BY <2>1, <2>2 DEF Next, vars
<1>6. IF part = "ratings" THEN RatingIInv' /\ RatingShown' ELSE RatingInit'
  <2>1. CASE part = "ratings" /\ RatingNext
    BY <2>1, RatingStep, ShownStep DEF RecordsInv
  <2>2. CASE UNCHANGED ratingVars /\ (part = "ratings" => UNCHANGED call)
    <3>1. ASSUME part # "ratings"
          PROVE  RatingInit'
      BY <2>2, <3>1, NoRatingChanges DEF RecordsInv
    <3>2. ASSUME part = "ratings"
          PROVE  RatingIInv' /\ RatingShown'
      <4>1. RatingIInv'
        BY <2>2, <3>2 DEF RecordsInv, RatingIInv, RatingOK, Rates, Submitted, GivenBy,
                          ratingVars
      <4>2. RatingShown'
        BY <2>2, <3>2, ShownStays DEF RecordsInv, Averaging, ratingVars, RatingShown
      <4> QED BY <4>1, <4>2
    <3> QED BY <3>1, <3>2
  <2> QED BY <2>1, <2>2 DEF Next, vars
<1>7. part = "vehicles" => VehicleIInv'
  <2>1. CASE part = "vehicles" /\ VehicleNext
    BY <2>1, VehicleStep DEF RecordsInv
  <2>2. CASE part = "vehicles" /\ UNCHANGED <<vehicleVars, call>>
    <3>1. VehicleState' /\ VehicleCalls'
      BY <2>2 DEF RecordsInv, VehicleIInv, VehicleState, VehicleCalls, VehicleOK, vehicleVars
    <3>2. OneAtATime' = OneAtATime
      BY <2>2 DEF OneAtATime, Idle, Consistent, Fits, Mine, vehicleVars
    <3> QED BY <2>2, <3>1, <3>2 DEF RecordsInv, VehicleIInv, vehicleVars
  <2> QED BY <2>1, <2>2 DEF Next, vars
<1>8. UsesCounted' /\ (part = "coupons" => UsesFit')
  <2>1. CASE part = "coupons" /\ CouponNext
    BY <2>1, UsesAfter DEF RecordsInv, CouponIInv
  <2>2. CASE UNCHANGED couponVars /\ (part = "coupons" => UNCHANGED call)
    <3>1. UsesCounted'
      BY <2>2 DEF RecordsInv, UsesCounted, couponVars
    <3>2. part = "coupons" => UsesFit'
      BY <2>2 DEF RecordsInv, UsesFit, Inserting, At, couponVars
    <3> QED BY <3>1, <3>2
  <2> QED BY <2>1, <2>2 DEF Next, vars
<1> QED BY <1>1, <1>2, <1>3, <1>4, <1>5, <1>6, <1>7, <1>8 DEF RecordsInv

LEMMA RecordsAlways == Spec => []RecordsInv
BY RecordsInitOK, RecordsStep, PTL DEF Spec

\* The types of every part hold, for any callers, bookings, customers, phones and
\* devices.
THEOREM RecordsTypeCorrect == Spec => []TypeOK
<1>1. RecordsInv => TypeOK
  <2>. SUFFICES ASSUME RecordsInv PROVE TypeOK
    OBVIOUS
  <2>1. part = "coupons" => CouponTypeOK
    BY CouponTypes DEF RecordsInv, CouponIInv
  <2>2. part = "accounts" => AccountTypeOK
    BY AccountTypes DEF RecordsInv, AccountIInv
  <2>3. part = "ratings" => RatingTypeOK
    BY DEF RecordsInv, RatingIInv, RatingShown, Rates, RatingTypeOK
  <2>4. part = "complaints" => ComplaintTypeOK
    <3>1. ASSUME ComplaintIInv, NEW r \in Caller, call[r].at \in {"refer", "replace"}
          PROVE  call[r].d \in DOMAIN complaints
      BY <3>1, ComplaintAt DEF ComplaintIInv, ComplaintOK
    <3> QED BY <3>1 DEF RecordsInv, ComplaintIInv, ComplaintState, ComplaintCalls,
                        ComplaintTypeOK
  <2>5. part = "vehicles" => VehicleTypeOK
    BY VehicleTypes DEF RecordsInv
  <2>6. part = "devices" => DeviceTypeOK
    BY DeviceTypes DEF RecordsInv, DeviceIInv
  <2> QED BY <2>1, <2>2, <2>3, <2>4, <2>5, <2>6 DEF TypeOK, RecordsInv
<1> QED BY <1>1, RecordsAlways, PTL

\* The counter of a code is never behind the uses recorded of it, however many payments
\* succeed at once, fail half way or are repeated (coupon_service.go, ConfirmPromoUsage).
THEOREM UsesCountedAlways == Spec => []UsesCounted
<1>1. RecordsInv => UsesCounted
  BY DEF RecordsInv
<1> QED BY <1>1, RecordsAlways, PTL

\* The counter of a code never passes its cap, however many customers, bookings and
\* calls there are (promoCode_repo.go).
THEOREM CapHoldsAlways == Spec => []CapHolds
<1>1. RecordsInv => CapHolds
  BY CouponSafe DEF RecordsInv
<1> QED BY <1>1, RecordsAlways, PTL

\* A code that does not stack never asks for less than nothing, for any price, code and
\* automatic discounts (coupon_service.go).
THEOREM NoOverdraftAlways == Spec => []NoOverdraft
<1>1. RecordsInv => NoOverdraft
  BY CouponSafe DEF RecordsInv
<1> QED BY <1>1, RecordsAlways, PTL

\* A code goes only as PromoKept says.
THEOREM PromoKeptAlways == Spec => PromoKept
<1>1. ASSUME RecordsInv, [Next]_vars, NEW b \in Booking, HasPromo(b), ~HasPromo(b)'
      PROVE  \E r \in Caller :
                 /\ call'[r] # call[r]
                 /\ \/ At(r, "new") /\ call'[r].then = "finished"
                    \/ At(r, "persist")
                    \/ At(r, "save_auto") /\ (call[r].blind \/ r \in bare)
  <2>1. CASE part = "coupons" /\ CouponNext
    BY <1>1, <2>1, PromoGoes DEF RecordsInv, CouponIInv
  <2>2. CASE UNCHANGED couponVars
    BY <1>1, <2>2 DEF HasPromo, couponVars
  <2> QED BY <1>1, <2>1, <2>2 DEF Next, vars
<1>2. RecordsInv /\ [Next]_vars =>
      [\A b \in Booking : HasPromo(b) /\ ~HasPromo(b)' =>
        \E r \in Caller :
            /\ call'[r] # call[r]
            /\ \/ At(r, "new") /\ call'[r].then = "finished"
               \/ At(r, "persist")
               \/ At(r, "save_auto") /\ (call[r].blind \/ r \in bare)]_<<pendingCoupon, call>>
  BY <1>1
<1> QED BY <1>2, RecordsAlways, PTL DEF Spec, PromoKept

\* A phone number has one live account in each app but for overlapping logins and
\* revivals (user_service.go, provider_service.go).
THEOREM OneAccountAlways == Spec => []OneAccount
<1>1. RecordsInv => OneAccount
  BY AccountSafe DEF RecordsInv
<1> QED BY <1>1, RecordsAlways, PTL

\* No number above 1 is given twice in an app, whatever the callers do
\* (counter_repo.go).
THEOREM NumbersDistinctAlways == Spec => []NumbersDistinct
<1>1. RecordsInv => NumbersDistinct
  BY AccountSafe DEF RecordsInv
<1> QED BY <1>1, RecordsAlways, PTL

\* A block is lifted only by a call admitted before it (auth.go).
THEOREM BlockLastsAlways == Spec => BlockLasts
<1>1. ASSUME RecordsInv, [Next]_vars, NEW a \in DOMAIN accounts,
             accounts[a].status = "blocked", accounts'[a].status # "blocked"
      PROVE  \E r \in Caller :
                 /\ call[r].at \in {"profile_write", "delete_write"} /\ call'[r] # call[r]
                 /\ call[r].a = a /\ call[r].was # "blocked"
  <2>1. CASE part = "accounts" /\ AccountNext
    BY <1>1, <2>1, BlockGoes DEF RecordsInv, AccountIInv
  <2>2. CASE UNCHANGED accountVars
    BY <1>1, <2>2 DEF accountVars
  <2> QED BY <1>1, <2>1, <2>2 DEF Next, vars
<1>2. RecordsInv /\ [Next]_vars =>
      [\A a \in DOMAIN accounts :
        accounts[a].status = "blocked" /\ accounts'[a].status # "blocked" =>
            \E r \in Caller :
                /\ call[r].at \in {"profile_write", "delete_write"} /\ call'[r] # call[r]
                /\ call[r].a = a /\ call[r].was # "blocked"]_<<accounts, call>>
  BY <1>1
<1> QED BY <1>2, RecordsAlways, PTL DEF Spec, BlockLasts

\* A second complaint about a booking comes only from a call that overlapped the first,
\* or could not look for it (complaint_service.go).
THEOREM OneComplaintAlways == Spec => OneComplaint
<1>1. ASSUME RecordsInv, [Next]_vars, NEW b \in ComplaintBooking, About(b)' # About(b)
      PROVE  \E r \in Caller : /\ At(r, "create") /\ call'[r] # call[r] /\ call[r].b = b
                               /\ r \in first \/ call[r].blind
  <2>1. CASE part = "complaints" /\ ComplaintNext
    BY <1>1, <2>1, SecondComplaint DEF RecordsInv
  <2>2. CASE UNCHANGED complaintVars
    BY <1>1, <2>2 DEF About, complaintVars
  <2> QED BY <1>1, <2>1, <2>2 DEF Next, vars
<1>2. RecordsInv /\ [Next]_vars =>
      [\A b \in ComplaintBooking :
        About(b) # {} /\ About(b)' # About(b) =>
            \E r \in Caller : /\ At(r, "create") /\ call'[r] # call[r] /\ call[r].b = b
                              /\ r \in first \/ call[r].blind]_<<complaints, call>>
  BY <1>1
<1> QED BY <1>2, RecordsAlways, PTL DEF Spec, OneComplaint

\* A side of a complaint is never lost, and an assessment only to a call that had read
\* the document before it (complaint_service.go, the branch of an existing complaint).
THEOREM SidesKeptAlways == Spec => SidesKept
<1>1. ASSUME RecordsInv, [Next]_vars, NEW d \in DOMAIN complaints
      PROVE  /\ complaints[d].sides \subseteq complaints'[d].sides
             /\ complaints[d].assessed /\ ~complaints'[d].assessed =>
                    \E r \in Caller : /\ At(r, "replace") /\ call'[r] # call[r]
                                      /\ call[r].d = d /\ ~call[r].assessed
  <2>1. CASE part = "complaints" /\ ComplaintNext
    BY <1>1, <2>1, SidesStay DEF RecordsInv
  <2>2. CASE UNCHANGED complaintVars
    BY <1>1, <2>2 DEF complaintVars
  <2> QED BY <1>1, <2>1, <2>2 DEF Next, vars
<1>2. RecordsInv /\ [Next]_vars =>
      [\A d \in DOMAIN complaints :
        /\ complaints[d].sides \subseteq complaints'[d].sides
        /\ complaints[d].assessed /\ ~complaints'[d].assessed =>
               \E r \in Caller : /\ At(r, "replace") /\ call'[r] # call[r]
                                 /\ call[r].d = d /\ ~call[r].assessed]_<<complaints, call>>
  BY <1>1
<1> QED BY <1>2, RecordsAlways, PTL DEF Spec, SidesKept

\* What a booking calls a complaint is one, is about to be, or failed to be written
\* (complaint_service.go, UpdateComplaintByUser before ReplaceOne).
THEOREM ReferenceTrueAlways == Spec => []ReferenceTrue
<1>1. RecordsInv => ReferenceTrue
  BY DEF RecordsInv, ComplaintIInv, ComplaintInit, ReferenceTrue
<1> QED BY <1>1, RecordsAlways, PTL

\* A second rating of one rater comes only from a call that overlapped the first, or
\* could not look for it (rating_service.go).
THEOREM RatedOnceAlways == Spec => RatedOnce
<1>1. ASSUME RecordsInv, [Next]_vars, ratings' # ratings
      PROVE  \E r \in Caller : /\ At(r, "insert") /\ call'[r] # call[r]
                               /\ r \in novel \/ call[r].blind
  <2>1. CASE part = "ratings" /\ RatingNext
    BY <1>1, <2>1, RatingStep DEF RecordsInv
  <2>2. CASE UNCHANGED ratingVars
    BY <1>1, <2>2 DEF ratingVars
  <2> QED BY <1>1, <2>1, <2>2 DEF Next, vars
<1>2. RecordsInv /\ [Next]_vars =>
      [ratings' # ratings =>
        LET last == ratings'[Len(ratings')]
        IN  GivenBy(last.b, last.by, last.type) # {} =>
                \E r \in Caller : /\ At(r, "insert") /\ call'[r] # call[r]
                                  /\ r \in novel \/ call[r].blind]_<<ratings, call>>
  BY <1>1
<1> QED BY <1>2, RecordsAlways, PTL DEF Spec, RatedOnce

\* The stored average is that of all ratings once nobody is at work on it, but where it
\* was last written late or not at all (rating_service.go).
THEOREM AverageTrueAlways == Spec => []AverageTrue
<1>1. RatingInit => AverageTrue
  BY RatingShownInit DEF RatingShown
<1>2. RecordsInv => AverageTrue
  BY <1>1 DEF RecordsInv, RatingShown
<1> QED BY <1>2, RecordsAlways, PTL

\* Calls about a customer's vehicles that never overlapped leave them consistent and
\* take effect (user_vehicle_service.go).
THEOREM CallsTakeEffectAlways == Spec => CallsTakeEffect
<1>1. ASSUME RecordsInv, [Next]_vars, part = "vehicles",
             NEW r \in Caller, ~overlap, call[r] \in VehicleCall, call'[r] = Done
      PROVE  /\ Consistent'
             /\ call[r].at \in {"read", "set_primary", "add"} =>
                    call[r].id \in Mine' /\ garage'[call[r].id] = call[r].number
             /\ At(r, "clear") \/ (call[r].at \in {"remove", "shrink"} /\ call[r].id # primary) =>
                    call[r].id \notin Mine'
  <2>1. VehicleNext
    <3>1. call' # call
      BY <1>1, NotIdle
    <3> QED BY <1>1, <3>1 DEF Next, vars
  <2> QED BY <1>1, <2>1, TakesEffect DEF RecordsInv
<1>2. ASSUME RecordsInv, part # "vehicles", NEW r \in Caller
      PROVE  call[r] \notin VehicleCall
  <2>1. \A c \in VehicleCall : DOMAIN c = {"at", "number", "id", "rest"}
    BY DEF VehicleCall
  <2>2. part \in Part
    BY <1>2 DEF RecordsInv
  <2>3. CASE part = "coupons"
    BY <2>1, <2>3, <1>2 DEF RecordsInv, CouponCalls, CouponCall, Fresh, Done
  <2>4. CASE part = "accounts"
    BY <2>1, <2>4, <1>2 DEF RecordsInv, AccountCalls, LoginCall, ProfileCall, Fresh, Done
  <2>5. CASE part = "ratings"
    <3>1. \A c \in RatingCall : DOMAIN c = {"at", "rating", "average", "there", "blind"}
      BY DEF RatingCall
    <3>2. call[r] \in RatingCall \union {Fresh, Done}
      BY <2>5, <1>2 DEF RecordsInv, RatingIInv, Rates
    <3> QED BY <2>1, <3>1, <3>2 DEF Fresh, Done
  <2>6. CASE part = "complaints"
    BY <2>1, <2>6, <1>2 DEF RecordsInv, ComplaintIInv, ComplaintCalls, ComplaintCall, Fresh, Done
  <2>7. CASE part = "devices"
    BY <2>1, <2>7, <1>2 DEF RecordsInv, DeviceCalls, DeviceCall, Fresh, Done
  <2> QED BY <1>2, <2>2, <2>3, <2>4, <2>5, <2>6, <2>7 DEF Part
<1>3. RecordsInv /\ [Next]_vars =>
      [\A r \in Caller : ~overlap /\ call[r] \in VehicleCall /\ call'[r] = Done =>
        /\ Consistent'
        /\ call[r].at \in {"read", "set_primary", "add"} =>
                call[r].id \in Mine' /\ garage'[call[r].id] = call[r].number
        /\ At(r, "clear") \/ (call[r].at \in {"remove", "shrink"} /\ call[r].id # primary) =>
                call[r].id \notin Mine'
      ]_<<vehicleVars, call>>
  BY <1>1, <1>2
<1> QED BY <1>3, RecordsAlways, PTL DEF Spec, CallsTakeEffect

\* Messages go where their owner is signed in, but for owners whose calls overlapped or
\* who logged out with several phones (device_token.go).
THEOREM ToldWhereSignedInAlways == Spec => []ToldWhereSignedIn
<1>1. RecordsInv => ToldWhereSignedIn
  BY DeviceSafe DEF RecordsInv
<1> QED BY <1>1, RecordsAlways, PTL
=============================================================================
