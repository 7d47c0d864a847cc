------------------------------ MODULE Ratings ------------------------------
(***************************************************************************)
(* Ratings between a mechanic and a customer, and the average that is      *)
(* stored with each of the two. A rating is looked for, inserted, and the  *)
(* average worked out again, in separate calls.                            *)
(***************************************************************************)
EXTENDS Calls, Integers, Sequences

CONSTANTS
    RatedBooking,   \* bookings between the two
    Rater,          \* who rates: the code compares nobody with the booking
    Stars,
    RatingFaults    \* subset of {"StoreError"}

\* whom a rating is about
RatingType == {"user", "provider"}

VARIABLES
    ratings,        \* collection ratings, in the order of insertion
    shownRating,    \* per type: the ratings the stored average was made of
    novel,          \* history: callers who began when nothing of theirs was there
    stale           \* history: types whose average was last written late or not at all

ratingVars == <<ratings, shownRating, novel, stale>>

Rating == [b : RatedBooking, by : Rater, type : RatingType, stars : Stars]
\* an average, the sum of the stars over their number, stands for the ratings it was
\* made of, by their positions; there: all that were to be found when it was
Average == SUBSET Nat
RatingCall == [at : {"look", "insert", "gather", "average"}, rating : Rating,
               average : Average, there : Average, blind : BOOLEAN]

RatingTypeOK ==
    /\ ratings \in Seq(Rating)
    /\ shownRating \in [RatingType -> Average]
    /\ novel \subseteq Caller /\ stale \subseteq RatingType
    /\ \A r \in Caller : call[r] \in RatingCall \union {Fresh, Done}

NoRating == {}

RatingInit ==
    /\ ratings = <<>>
    /\ shownRating = [t \in RatingType |-> NoRating]
    /\ novel = {} /\ stale = {}

\* GetByBookingAndRater: one rater is a customer or a mechanic, never both
GivenBy(b, by, type) ==
    {i \in DOMAIN ratings : ratings[i].b = b /\ ratings[i].by = by /\ ratings[i].type = type}

\* CreateUserRating and CreateProviderRating; the booking tells who is rated
CreateRating(r, rating) ==
    /\ At(r, "new")
    /\ Enter(r, [at |-> "look", rating |-> rating, average |-> NoRating, there |-> {},
                 blind |-> FALSE])
    /\ novel' = IF GivenBy(rating.b, rating.by, rating.type) = {} THEN novel \union {r}
                ELSE novel
    /\ UNCHANGED <<ratings, shownRating, stale>>

\* mutation: a rating with as many stars counts as the same one
SubmittedSame(rating) == \E i \in DOMAIN ratings : ratings[i] = rating

Submitted(rating) == GivenBy(rating.b, rating.by, rating.type) # {}

LookForRating(r) ==
    /\ At(r, "look")
    /\ IF Submitted(call[r].rating) THEN Return(r) ELSE Goto(r, "insert")
    /\ UNCHANGED ratingVars

\* any error is taken for "no rating yet"
LookForRatingFails(r) ==
    /\ "StoreError" \in RatingFaults
    /\ At(r, "look")
    /\ call' = [call EXCEPT ![r].at = "insert", ![r].blind = TRUE]
    /\ UNCHANGED ratingVars

InsertRating(r) ==
    /\ At(r, "insert")
    /\ \/ /\ ratings' = Append(ratings, call[r].rating)
          /\ Goto(r, "gather")
       \/ /\ "StoreError" \in RatingFaults
          /\ Return(r)
          /\ UNCHANGED ratings
    /\ UNCHANGED <<shownRating, novel, stale>>

AllOf(type) == {i \in DOMAIN ratings : ratings[i].type = type}

\* mutation: one rating per rater, as getUniqueRatings has it for the list of reviews
GatheredUnique(type) ==
    {i \in AllOf(type) : \A j \in AllOf(type) : ratings[j].by = ratings[i].by => i <= j}

Gathered(type) == AllOf(type)

\* an error is only logged
GatherRatings(r) ==
    /\ At(r, "gather")
    /\ LET type == call[r].rating.type IN
       \/ /\ call' = [call EXCEPT ![r].at = "average",
                                  ![r].average = Gathered(type),
                                  ![r].there = AllOf(type)]
          /\ UNCHANGED stale
       \/ /\ "StoreError" \in RatingFaults
          /\ Return(r)
          /\ stale' = stale \union {type}
    /\ UNCHANGED <<ratings, shownRating, novel>>

UpdateRating(r) ==
    /\ At(r, "average")
    /\ LET type == call[r].rating.type IN
       \/ /\ shownRating' = [shownRating EXCEPT ![type] = call[r].average]
          /\ stale' = IF call[r].there = AllOf(type) THEN stale \ {type}
                      ELSE stale \union {type}
       \/ /\ "StoreError" \in RatingFaults
          /\ stale' = stale \union {type}
          /\ UNCHANGED shownRating
    /\ Return(r)
    /\ UNCHANGED <<ratings, novel>>

RatingNext ==
    \E r \in Caller :
        \/ \E rating \in Rating : CreateRating(r, rating)
        \/ LookForRating(r) \/ LookForRatingFails(r) \/ InsertRating(r)
        \/ GatherRatings(r) \/ UpdateRating(r)

-----------------------------------------------------------------------------
(* Properties *)

\* A second rating of one rater for one booking is inserted only by a call that began
\* before the first was there, or that could not look for it (rating_service.go:
\* "rating already submitted for this booking").
RatedOnce == [][
    ratings' # ratings =>
        LET last == ratings'[Len(ratings')]
        IN  GivenBy(last.b, last.by, last.type) # {} =>
                \E r \in Caller : /\ At(r, "insert") /\ call'[r] # call[r]
                                  /\ r \in novel \/ call[r].blind
    ]_<<ratings, call>>

\* Once nobody is at work on it, the stored average is that of all the ratings, unless
\* the one who wrote it last had gathered them too early, or a step failed: with calls
\* that do not overlap it is never wrong (updateUserAverageRating,
\* updateProviderAverageRating).
AverageTrue == \A type \in RatingType :
    \/ shownRating[type] = AllOf(type)
    \/ type \in stale
    \/ \E r \in Caller : call[r].at \in {"gather", "average"} /\ call[r].rating.type = type
=============================================================================
