------------------------------ MODULE Accounts ------------------------------
(***************************************************************************)
(* Accounts of customers and mechanics: the one-time password that opens   *)
(* one, its number, the profile, deletion, and the block of the back       *)
(* office. The two apps keep their accounts apart but share the collection *)
(* otps, which has one document per phone number.                          *)
(*                                                                         *)
(* Every account has been given a token, which stays good for thirty days, *)
(* so that a call may come for any account at any time.                    *)
(***************************************************************************)
EXTENDS Calls, Integers, Sequences, FiniteSets

CONSTANTS
    Phone,
    MaxCodes,       \* codes sent to a phone number in a behaviour
    AccountFaults   \* subset of {"StoreError"}

ASSUME AccountAssumption == MaxCodes \in Nat

App == {"user", "provider"}

VARIABLES
    accounts,   \* both collections, in the order of insertion
    counter,    \* counter[app]: its document in counters; 0 when there is none yet
    otp,        \* otp[ph]: the code that is good, 0 for none
    sent,       \* codes sent so far
    inbox,      \* the codes the SMS service has delivered
    met,        \* history: callers about to create an account for a phone number for
                \* which another one has come to life meanwhile
    extra       \* history: how often that, or the revival of a deleted account, has
                \* given a phone number one live account more

accountVars == <<accounts, counter, otp, sent, inbox, met, extra>>

\* "" and "inactive" are new; "blacklisted", "suspended", "deactivated" are blocked.
\* filled: the profile has its name and its city (of a mechanic), or a name, a mail
\* address or a city (of a customer)
Account == [app : App, phone : Phone, number : Nat, filled : BOOLEAN,
            status : {"new", "active", "blocked", "delete"}]

LoginCall == [at : {"delete", "lookup", "number", "first", "create"},
              app : App, phone : Phone, number : Nat]

\* was: the status the middleware has read; status, filled: those the handler has read
ProfileCall == [at : {"profile_read", "profile_write", "delete_read", "delete_write"},
                a : Nat, was : {"new", "active", "delete", "blocked"},
                status : {"new", "active", "delete", "blocked"}, filled : BOOLEAN]

AccountTypeOK ==
    /\ accounts \in Seq(Account)
    /\ counter \in [App -> Nat]
    /\ otp \in [Phone -> Nat] /\ sent \in [Phone -> 0..MaxCodes]
    /\ \A ph \in Phone : inbox[ph] \subseteq 1..sent[ph] /\ otp[ph] <= sent[ph]
    /\ met \subseteq Caller /\ extra \in [App \X Phone -> Nat]
    /\ \A r \in Caller : \/ call[r] \in LoginCall \union {Fresh, Done}
                         \/ call[r] \in ProfileCall /\ call[r].a \in DOMAIN accounts

\* nobody yet, or the account of a phone number, blank or in use, after some others
AccountInit ==
    /\ \/ accounts = <<>> /\ counter = [app \in App |-> 0]
       \/ \E app \in App, ph \in Phone, used \in BOOLEAN :
            /\ accounts = <<[app |-> app, phone |-> ph, number |-> 2, filled |-> used,
                             status |-> IF used THEN "active" ELSE "new"]>>
            /\ counter = [x \in App |-> IF x = app THEN 3 ELSE 0]
    /\ otp = [ph \in Phone |-> 0] /\ sent = otp
    /\ inbox = [ph \in Phone |-> {}]
    /\ met = {} /\ extra = [x \in App \X Phone |-> 0]

Of(app, ph) == {a \in DOMAIN accounts : accounts[a].app = app /\ accounts[a].phone = ph}
Live(app, ph) == {a \in Of(app, ph) : accounts[a].status # "delete"}

\* callers that have found no account of this phone number and will create one
Creating(app, ph) ==
    {r \in Caller : /\ call[r].at \in {"number", "first", "create"}
                    /\ call[r].app = app /\ call[r].phone = ph}

-----------------------------------------------------------------------------
(* One-time passwords and login *)

\* the job for the SMS may be dropped, or fail
Delivered(ph, n) == {inbox, [inbox EXCEPT ![ph] = @ \union {n}]}

\* one document per phone number
SendOTP(ph) ==
    /\ sent[ph] < MaxCodes
    /\ sent' = [sent EXCEPT ![ph] = @ + 1]
    /\ otp' = [otp EXCEPT ![ph] = sent'[ph]]
    /\ inbox' \in Delivered(ph, sent'[ph])
    /\ UNCHANGED <<call, accounts, counter, met, extra>>

OTPExpires(ph) ==
    /\ otp[ph] # 0
    /\ otp' = [otp EXCEPT ![ph] = 0]
    /\ UNCHANGED <<call, accounts, counter, sent, inbox, met, extra>>

\* the code is found and has not expired; only the customers' app deletes it then
VerifyOTP(r, app, ph) ==
    /\ At(r, "new")
    /\ otp[ph] \in inbox[ph]
    /\ Enter(r, [at |-> IF app = "user" THEN "delete" ELSE "lookup",
                 app |-> app, phone |-> ph, number |-> 0])
    /\ UNCHANGED accountVars

\* by phone number, whatever code is there by now; an error is ignored
DeleteOTP(r) ==
    /\ At(r, "delete")
    /\ \/ otp' = [otp EXCEPT ![call[r].phone] = 0]
       \/ "StoreError" \in AccountFaults /\ UNCHANGED otp
    /\ Goto(r, "lookup")
    /\ UNCHANGED <<accounts, counter, sent, inbox, met, extra>>

\* mutation: only an account whose profile has been filled in is found
FoundActive(app, ph) == {a \in Of(app, ph) : accounts[a].status = "active"}

Found(app, ph) == {a \in Of(app, ph) : accounts[a].status # "delete"}

FindByPhone(r) ==
    /\ At(r, "lookup")
    /\ \/ Found(call[r].app, call[r].phone) = {} /\ Goto(r, "number")
       \/ Found(call[r].app, call[r].phone) # {} /\ Return(r)
       \/ "StoreError" \in AccountFaults /\ Return(r)
    /\ met' = met \ {r}
    /\ UNCHANGED <<accounts, counter, otp, sent, inbox, extra>>

\* mutation: the counter is read, not increased
CountedNot(n) == n

Counted(n) == n + 1

\* FindOneAndUpdate returns the document as it was before the update; an error is
\* ignored and leaves number 0
NextNumber(r) ==
    /\ At(r, "number")
    /\ LET app == call[r].app IN
       \/ /\ counter[app] > 0
          /\ call' = [call EXCEPT ![r].at = "create", ![r].number = counter[app]]
          /\ counter' = [counter EXCEPT ![app] = Counted(@)]
       \/ /\ counter[app] = 0
          /\ Goto(r, "first")
          /\ UNCHANGED counter
       \/ /\ "StoreError" \in AccountFaults
          /\ Goto(r, "create")
          /\ UNCHANGED counter
    /\ UNCHANGED <<accounts, otp, sent, inbox, met, extra>>

\* the document is inserted; whoever comes too late has number 1 all the same
FirstNumber(r) ==
    /\ At(r, "first")
    /\ counter' = [counter EXCEPT ![call[r].app] = IF @ = 0 THEN 1 ELSE @]
    /\ call' = [call EXCEPT ![r].at = "create", ![r].number = 1]
    /\ UNCHANGED <<accounts, otp, sent, inbox, met, extra>>

CreateAccount(r) ==
    /\ At(r, "create")
    /\ LET app == call[r].app
           ph  == call[r].phone
       IN  \/ /\ accounts' = Append(accounts,
                     [app |-> app, phone |-> ph, number |-> call[r].number,
                      filled |-> FALSE, status |-> "new"])
              /\ met' = met \union Creating(app, ph)
              /\ extra' = [extra EXCEPT ![<<app, ph>>] = IF r \in met THEN @ + 1 ELSE @]
           \/ /\ "StoreError" \in AccountFaults
              /\ UNCHANGED <<accounts, met, extra>>
    /\ Return(r)
    /\ UNCHANGED <<counter, otp, sent, inbox>>

-----------------------------------------------------------------------------
(* Profile, deletion, block *)

\* mutation: the middleware looks at the token alone
AdmitsAll(status) == TRUE

\* AuthUser and AuthProvider; a deleted account is let in
Admits(status) == status # "blocked"

Calls(r, label, a) ==
    /\ At(r, "new")
    /\ Admits(accounts[a].status)
    /\ Enter(r, [at |-> label, a |-> a, was |-> accounts[a].status,
                 status |-> accounts[a].status, filled |-> FALSE])
    /\ UNCHANGED accountVars

CreateOrUpdateProfile(r, a) == Calls(r, "profile_read", a)
DeleteAccount(r, a) == Calls(r, "delete_read", a)

Read(r, from, to) ==
    /\ At(r, from)
    /\ LET account == accounts[call[r].a] IN
       call' = [call EXCEPT ![r].at = to, ![r].status = account.status,
                            ![r].filled = account.filled]
    /\ UNCHANGED accountVars

\* the mechanic's handler makes and uploads the agreement before it writes
ReadProfile(r) == Read(r, "profile_read", "profile_write")
ReadToDelete(r) == Read(r, "delete_read", "delete_write")

\* an account written to may be live again beside another one
Revival(a, status) ==
    LET app == accounts[a].app
        ph  == accounts[a].phone
    IN  IF accounts[a].status = "delete" /\ status # "delete"
        THEN /\ met' = met \union Creating(app, ph)
             /\ extra' = [extra EXCEPT ![<<app, ph>>] = @ + 1]
        ELSE UNCHANGED <<met, extra>>

Write(a, status, filled) ==
    /\ accounts' = [accounts EXCEPT ![a].status = status, ![a].filled = filled]
    /\ Revival(a, status)

\* the whole document as it was read, made active by a deletion found or by a profile
\* that has just got its name and city; a first profile must have them
WriteProviderProfile(r) ==
    /\ At(r, "profile_write") /\ accounts[call[r].a].app = "provider"
    /\ LET c == call[r] IN
       \/ \E fills \in BOOLEAN :
            /\ ~c.filled /\ c.status # "delete" => fills
            /\ Write(c.a, IF c.status = "delete" \/ ~c.filled THEN "active" ELSE c.status,
                     c.filled \/ fills)
       \/ UNCHANGED <<accounts, met, extra>>    \* no agreement, no write
    /\ Return(r)
    /\ UNCHANGED <<counter, otp, sent, inbox>>

\* only the fields of the request, and isActive: with a first profile, or to whatever the
\* request says
WriteUserProfile(r) ==
    /\ At(r, "profile_write") /\ accounts[call[r].a].app = "user"
    /\ LET c == call[r] IN
       \E asked \in {"active", "blocked", "delete"}, fills \in BOOLEAN :
          \/ Write(c.a, asked, accounts[c.a].filled \/ fills)
          \/ Write(c.a, IF ~c.filled THEN "active" ELSE accounts[c.a].status,
                   accounts[c.a].filled \/ fills)
    /\ Return(r)
    /\ UNCHANGED <<counter, otp, sent, inbox>>

\* a mechanic's profile is written back with the deletion
WriteDeletion(r) ==
    /\ At(r, "delete_write")
    /\ LET c == call[r] IN
       Write(c.a, "delete",
             IF accounts[c.a].app = "provider" THEN c.filled ELSE accounts[c.a].filled)
    /\ Return(r)
    /\ UNCHANGED <<counter, otp, sent, inbox>>

\* the back office suspends, deactivates or blacklists
Block(a) ==
    /\ accounts[a].status # "blocked"
    /\ accounts' = [accounts EXCEPT ![a].status = "blocked"]
    /\ Revival(a, "blocked")
    /\ UNCHANGED <<call, counter, otp, sent, inbox>>

AccountNext ==
    \/ \E ph \in Phone : SendOTP(ph) \/ OTPExpires(ph)
    \/ \E a \in DOMAIN accounts : Block(a)
    \/ \E r \in Caller :
        \/ \E app \in App, ph \in Phone : VerifyOTP(r, app, ph)
        \/ DeleteOTP(r) \/ FindByPhone(r) \/ NextNumber(r) \/ FirstNumber(r)
        \/ CreateAccount(r)
        \/ \E a \in DOMAIN accounts : CreateOrUpdateProfile(r, a) \/ DeleteAccount(r, a)
        \/ ReadProfile(r) \/ ReadToDelete(r)
        \/ WriteProviderProfile(r) \/ WriteUserProfile(r) \/ WriteDeletion(r)

-----------------------------------------------------------------------------
(* Properties *)

\* A phone number has a second live account in an app only where two logins of it
\* overlapped, or where a deleted account was revived beside a newer one: logins that
\* follow one another find the account, whatever state its profile is in
\* (user_service.go and provider_service.go, VerifyOTP).
OneAccount == \A x \in App \X Phone : Cardinality(Live(x[1], x[2])) <= 1 + extra[x]

\* No number above 1 is given twice in an app, whoever overtakes whom. (Number 1 is: the
\* counter returns its value before the increase; and 0 stands for a failed counter.)
NumbersDistinct == \A a, b \in DOMAIN accounts :
    a # b /\ accounts[a].app = accounts[b].app /\ accounts[a].number > 1
        => accounts[a].number # accounts[b].number

\* A block is lifted only by a call of the account's owner that had been admitted before
\* it: writing a document read earlier can undo it, a later call cannot (auth.go).
BlockLasts == [][
    \A a \in DOMAIN accounts :
        accounts[a].status = "blocked" /\ accounts'[a].status # "blocked" =>
            \E r \in Caller :
                /\ call[r].at \in {"profile_write", "delete_write"} /\ call'[r] # call[r]
                /\ call[r].a = a /\ call[r].was # "blocked"
    ]_<<accounts, call>>
=============================================================================
