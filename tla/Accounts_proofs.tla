--------------------------- MODULE Accounts_proofs ---------------------------
(***************************************************************************)
(* Proofs about module Accounts, for any number of phone numbers, callers  *)
(* and codes. Module Records_proofs draws the conclusions for Records.     *)
(***************************************************************************)
EXTENDS Accounts, FiniteSetTheorems, TLAPS

-----------------------------------------------------------------------------
(* The inductive invariant *)

\* the counter is ahead of every number it has given, but for the first
AccountState ==
    /\ accounts \in Seq(Account)
    /\ counter \in [App -> Nat]
    /\ otp \in [Phone -> Nat] /\ sent \in [Phone -> 0..MaxCodes]
    /\ inbox \in [Phone -> SUBSET Nat]
    /\ \A ph \in Phone : inbox[ph] \subseteq 1..sent[ph] /\ otp[ph] <= sent[ph]
    /\ met \subseteq Caller /\ extra \in [App \X Phone -> Nat]
    /\ OneAccount
    /\ NumbersDistinct
    /\ \A a \in DOMAIN accounts :
           accounts[a].number > 1 => accounts[a].number < counter[accounts[a].app]

Opening == {"number", "first", "create"}

\* a number that waits for its account is no account's yet; who opens an account while
\* there is one has met it; who writes one has been admitted
LoginOK(r) ==
    call[r] \in LoginCall =>
        /\ call[r].at # "create" => call[r].number = 0
        /\ call[r].number > 1 =>
               /\ call[r].number < counter[call[r].app]
               /\ \A a \in DOMAIN accounts :
                      accounts[a].app = call[r].app => accounts[a].number # call[r].number
        /\ call[r].at \in Opening /\ Live(call[r].app, call[r].phone) # {} => r \in met

ProfileOK(r) ==
    call[r] \in ProfileCall => call[r].a \in DOMAIN accounts /\ call[r].was # "blocked"

Apart(q, r) ==
    /\ call[q] \in LoginCall /\ call[r] \in LoginCall
    /\ call[q].app = call[r].app /\ call[q].number > 1
    => call[q].number # call[r].number

AccountCalls ==
    /\ call \in [Caller -> LoginCall \union ProfileCall \union {Fresh, Done}]
    /\ \A r \in Caller : LoginOK(r) /\ ProfileOK(r)
    /\ \A q, r \in Caller : q # r => Apart(q, r)

AccountIInv == AccountState /\ AccountCalls

LEMMA LoginAt ==
    ASSUME AccountCalls, NEW r \in Caller,
           call[r].at \in {"delete", "lookup", "number", "first", "create"}
    PROVE  call[r] \in LoginCall /\ LoginOK(r)
BY DEF AccountCalls, ProfileCall, Fresh, Done

LEMMA ProfileAt ==
    ASSUME AccountCalls, NEW r \in Caller,
           call[r].at \in {"profile_read", "profile_write", "delete_read", "delete_write"}
    PROVE  call[r] \in ProfileCall /\ ProfileOK(r)
BY DEF AccountCalls, LoginCall, Fresh, Done

LEMMA Shapes ==
    /\ \A c \in LoginCall : c \notin ProfileCall /\ c \notin {Fresh, Done}
    /\ \A c \in ProfileCall : c \notin LoginCall /\ c \notin {Fresh, Done}
BY DEF LoginCall, ProfileCall, Fresh, Done

LEMMA LiveFinite ==
    ASSUME accounts \in Seq(Account), NEW app, NEW ph
    PROVE  IsFiniteSet(Live(app, ph)) /\ Cardinality(Live(app, ph)) \in Nat
<1>1. IsFiniteSet(1..Len(accounts))
  BY FS_Interval
<1>2. Live(app, ph) \subseteq 1..Len(accounts)
  BY DEF Live, Of
<1> QED BY <1>1, <1>2, FS_Subset, FS_CardinalityType

LEMMA AccountFacts ==
    ASSUME AccountState
    PROVE  /\ \A a \in DOMAIN accounts :
                 /\ accounts[a] \in Account
                 /\ accounts[a].app \in App /\ accounts[a].phone \in Phone
                 /\ accounts[a].number \in Nat
                 /\ accounts[a].number > 1 => accounts[a].number < counter[accounts[a].app]
           /\ \A app \in App : counter[app] \in Nat
<1>1. \A a \in DOMAIN accounts : accounts[a] \in Account
  BY DEF AccountState
<1>2. \A x \in Account : x.app \in App /\ x.phone \in Phone /\ x.number \in Nat
  BY DEF Account
<1>3. \A a \in DOMAIN accounts :
          accounts[a].number > 1 => accounts[a].number < counter[accounts[a].app]
  BY DEF AccountState
<1>4. \A app \in App : counter[app] \in Nat
  BY DEF AccountState
<1> QED BY <1>1, <1>2, <1>3, <1>4

LEMMA AccountInitOK == AccountInit => AccountState
<1>. SUFFICES ASSUME AccountInit PROVE AccountState
  OBVIOUS
<1>. DEFINE one(app, ph, used) ==
         [app |-> app, phone |-> ph, number |-> 2, filled |-> used,
          status |-> IF used THEN "active" ELSE "new"]
<1>1. \/ accounts = <<>> /\ counter = [app \in App |-> 0]
      \/ \E app \in App, ph \in Phone, used \in BOOLEAN :
            accounts = <<one(app, ph, used)>> /\ counter = [x \in App |-> IF x = app THEN 3 ELSE 0]
  BY DEF AccountInit
<1>2. \A app \in App, ph \in Phone, used \in BOOLEAN : one(app, ph, used) \in Account
  BY DEF Account
<1>3. accounts \in Seq(Account) /\ counter \in [App -> Nat]
  <2>1. CASE accounts = <<>> /\ counter = [app \in App |-> 0]
    BY <2>1
  <2>2. ASSUME NEW app \in App, NEW ph \in Phone, NEW used \in BOOLEAN,
               accounts = <<one(app, ph, used)>>,
               counter = [x \in App |-> IF x = app THEN 3 ELSE 0]
        PROVE  accounts \in Seq(Account) /\ counter \in [App -> Nat]
    <3>. DEFINE first == one(app, ph, used)
    <3>1. first \in Account
      BY <1>2
    <3>. HIDE DEF first
    <3>2. <<first>> \in Seq(Account)
      BY <3>1
    <3>3. accounts = <<first>>
      BY <2>2 DEF first
    <3> QED BY <2>2, <3>2, <3>3
  <2> QED BY <1>1, <2>1, <2>2
<1>4. DOMAIN accounts \subseteq {1}
  BY <1>1
<1>5. OneAccount
  <2>. SUFFICES ASSUME NEW x \in App \X Phone
                PROVE  Cardinality(Live(x[1], x[2])) <= 1 + extra[x]
    BY DEF OneAccount
  <2>1. Live(x[1], x[2]) \subseteq {1}
    BY <1>4 DEF Live, Of
  <2>2. IsFiniteSet({1}) /\ Cardinality({1}) = 1
    BY FS_Singleton
  <2>3. extra[x] = 0
    BY DEF AccountInit
  <2>4. Cardinality(Live(x[1], x[2])) <= 1
    BY <2>1, <2>2, FS_Subset
  <2>5. Cardinality(Live(x[1], x[2])) \in Nat
    BY <1>3, LiveFinite
  <2> QED BY <2>3, <2>4, <2>5
<1>6. NumbersDistinct
  BY <1>4 DEF NumbersDistinct
<1>7. \A a \in DOMAIN accounts :
          accounts[a].number > 1 => accounts[a].number < counter[accounts[a].app]
  BY <1>1
<1>8. /\ otp \in [Phone -> Nat] /\ sent \in [Phone -> 0..MaxCodes]
      /\ inbox \in [Phone -> SUBSET Nat]
      /\ \A ph \in Phone : inbox[ph] \subseteq 1..sent[ph] /\ otp[ph] <= sent[ph]
      /\ met \subseteq Caller /\ extra \in [App \X Phone -> Nat]
  BY AccountAssumption DEF AccountInit
<1> QED BY <1>3, <1>5, <1>6, <1>7, <1>8 DEF AccountState

LEMMA AccountCallsInit == CallInit => AccountCalls
BY DEF CallInit, AccountCalls, LoginOK, ProfileOK, Apart, Fresh, LoginCall, ProfileCall

-----------------------------------------------------------------------------
(* Steps that leave the accounts alone *)

LEMMA AccountsStay ==
    ASSUME AccountState, UNCHANGED <<accounts, counter, extra>>,
           otp' \in [Phone -> Nat], sent' \in [Phone -> 0..MaxCodes],
           inbox' \in [Phone -> SUBSET Nat],
           \A ph \in Phone : inbox'[ph] \subseteq 1..sent'[ph] /\ otp'[ph] <= sent'[ph],
           met' \subseteq Caller
    PROVE  AccountState'
<1>1. OneAccount'
  BY DEF AccountState, OneAccount, Live, Of
<1>2. NumbersDistinct'
  BY DEF AccountState, NumbersDistinct
<1> QED BY <1>1, <1>2 DEF AccountState

\* a call that has no number above 1 when its step ends
LEMMA CallMoves ==
    ASSUME AccountState, AccountCalls, NEW r \in Caller,
           NEW rec \in LoginCall \union ProfileCall \union {Fresh, Done},
           call' = [call EXCEPT ![r] = rec], UNCHANGED <<accounts, counter>>,
           met \ {r} \subseteq met',
           rec \in LoginCall => /\ rec.number \in {0, 1}
                                /\ rec.at # "create" => rec.number = 0
                                /\ rec.at \in Opening /\ Live(rec.app, rec.phone) # {} => r \in met',
           rec \in ProfileCall => rec.a \in DOMAIN accounts /\ rec.was # "blocked"
    PROVE  AccountCalls'
<1>1. call'[r] = rec /\ \A q \in Caller \ {r} : call'[q] = call[q]
  BY DEF AccountCalls
<1>2. call' \in [Caller -> LoginCall \union ProfileCall \union {Fresh, Done}]
  BY DEF AccountCalls
<1>3. \A app, ph : Live(app, ph)' = Live(app, ph)
  BY DEF Live, Of
<1>4. ASSUME NEW q \in Caller
      PROVE  LoginOK(q)' /\ ProfileOK(q)'
  <2>1. CASE q = r
    BY <1>1, <1>3, <2>1 DEF LoginOK, ProfileOK
  <2>2. CASE q # r
    BY <1>1, <1>3, <2>2 DEF LoginOK, ProfileOK, AccountCalls
  <2> QED BY <2>1, <2>2
<1>5. ASSUME NEW p \in Caller, NEW q \in Caller, p # q
      PROVE  Apart(p, q)'
  <2>1. CASE p # r /\ q # r
    BY <1>1, <1>5, <2>1 DEF Apart, AccountCalls
  <2>2. CASE p = r
    BY <1>1, <2>2 DEF Apart
  <2>3. CASE q = r
    BY <1>1, <1>5, <2>3 DEF Apart, LoginCall
  <2> QED BY <2>1, <2>2, <2>3
<1> QED BY <1>2, <1>4, <1>5 DEF AccountCalls

LEMMA DoneOK ==
    ASSUME AccountState, AccountCalls, NEW r \in Caller, Return(r),
           UNCHANGED <<accounts, counter>>, met \ {r} \subseteq met'
    PROVE  AccountCalls'
<1>1. call' = [call EXCEPT ![r] = Done]
  BY DEF Return, Enter
<1>2. Done \notin LoginCall /\ Done \notin ProfileCall
  BY DEF Done, LoginCall, ProfileCall
<1> QED BY <1>1, <1>2, CallMoves

LEMMA CodeStep ==
    ASSUME AccountIInv, NEW ph \in Phone, SendOTP(ph) \/ OTPExpires(ph)
    PROVE  AccountIInv'
<1>. AccountState /\ AccountCalls
  BY DEF AccountIInv
<1>1. UNCHANGED <<call, accounts, counter, met, extra>>
  BY DEF SendOTP, OTPExpires
<1>2. AccountState'
  <2>1. CASE SendOTP(ph)
    <3>1. /\ sent[ph] \in 0..MaxCodes /\ sent[ph] < MaxCodes
          /\ sent' = [sent EXCEPT ![ph] = sent[ph] + 1]
      BY <2>1 DEF SendOTP, AccountState
    <3>2. sent' \in [Phone -> 0..MaxCodes] /\ sent'[ph] = sent[ph] + 1
      BY <3>1, AccountAssumption DEF AccountState
    <3>3. otp' = [otp EXCEPT ![ph] = sent[ph] + 1]
      BY <2>1, <3>2 DEF SendOTP
    <3>4. inbox' \in {inbox, [inbox EXCEPT ![ph] = @ \union {sent[ph] + 1}]}
      BY <2>1, <3>2 DEF SendOTP, Delivered
    <3>5. otp' \in [Phone -> Nat] /\ \A x \in Phone : otp'[x] <= sent'[x]
      BY <3>1, <3>3 DEF AccountState
    <3>6. inbox' \in [Phone -> SUBSET Nat]
      <4>1. sent[ph] + 1 \in Nat /\ inbox \in [Phone -> SUBSET Nat]
        BY <3>1 DEF AccountState
      <4>2. inbox[ph] \union {sent[ph] + 1} \in SUBSET Nat
        BY <4>1
      <4> QED BY <3>4, <4>1, <4>2
    <3>7. \A x \in Phone : inbox'[x] \subseteq 1..sent'[x]
      <4>. SUFFICES ASSUME NEW x \in Phone, NEW n \in inbox'[x] PROVE n \in 1..sent'[x]
        OBVIOUS
      <4>1. CASE x = ph
        <5>1. n \in inbox[ph] \/ n = sent[ph] + 1
          BY <3>4, <4>1 DEF AccountState
        <5>2. n \in 1..sent[ph] \/ n = sent[ph] + 1
          BY <5>1 DEF AccountState
        <5> QED BY <3>1, <3>2, <4>1, <5>2
      <4>2. CASE x # ph
        <5>1. inbox'[x] = inbox[x] /\ sent'[x] = sent[x]
          BY <3>1, <3>4, <4>2 DEF AccountState
        <5> QED BY <5>1 DEF AccountState
      <4> QED BY <4>1, <4>2
    <3> QED BY <1>1, <3>2, <3>5, <3>6, <3>7, AccountsStay DEF AccountState
  <2>2. CASE OTPExpires(ph)
    <3>1. otp' = [otp EXCEPT ![ph] = 0] /\ UNCHANGED <<sent, inbox>>
      BY <2>2 DEF OTPExpires
    <3>2. otp' \in [Phone -> Nat] /\ \A x \in Phone : otp'[x] <= sent'[x]
      BY <3>1, AccountAssumption DEF AccountState
    <3> QED BY <1>1, <3>1, <3>2, AccountsStay DEF AccountState
  <2> QED BY <2>1, <2>2
<1>3. AccountCalls'
  <2>1. \A app, x : Live(app, x)' = Live(app, x)
    BY <1>1 DEF Live, Of
  <2> QED BY <1>1, <2>1 DEF AccountCalls, LoginOK, ProfileOK, Apart
<1> QED BY <1>2, <1>3 DEF AccountIInv

LEMMA VerifyStep ==
    ASSUME AccountIInv, NEW r \in Caller, NEW app \in App, NEW ph \in Phone,
           VerifyOTP(r, app, ph)
    PROVE  AccountIInv'
<1>. AccountState /\ AccountCalls
  BY DEF AccountIInv
<1>. DEFINE rec == [at |-> IF app = "user" THEN "delete" ELSE "lookup",
                    app |-> app, phone |-> ph, number |-> 0]
<1>1. call' = [call EXCEPT ![r] = rec] /\ UNCHANGED accountVars
  BY DEF VerifyOTP, Enter
<1>2. rec \in LoginCall /\ rec.number = 0 /\ rec.at \notin Opening /\ rec.at # "create"
  BY DEF LoginCall, Opening
<1>3. rec \notin ProfileCall
  BY <1>2, Shapes
<1>. HIDE DEF rec
<1>4. AccountCalls'
  BY <1>1, <1>2, <1>3, CallMoves DEF accountVars
<1>5. AccountState'
  BY <1>1, AccountsStay DEF accountVars, AccountState
<1> QED BY <1>4, <1>5 DEF AccountIInv

LEMMA LoginStep ==
    ASSUME AccountIInv, NEW r \in Caller, DeleteOTP(r) \/ FindByPhone(r)
    PROVE  AccountIInv'
<1>. AccountState /\ AccountCalls
  BY DEF AccountIInv
<1>1. CASE DeleteOTP(r)
  <2>. DEFINE rec == [call[r] EXCEPT !.at = "lookup"]
  <2>1. call[r] \in LoginCall /\ LoginOK(r) /\ call[r].at = "delete"
    BY <1>1, LoginAt DEF DeleteOTP, At
  <2>2. call' = [call EXCEPT ![r] = rec]
    BY <1>1 DEF DeleteOTP, Goto
  <2>3. rec \in LoginCall /\ rec.number = 0 /\ rec.at = "lookup"
    BY <2>1 DEF LoginCall, LoginOK
  <2>4. rec \notin ProfileCall
    BY <2>3, Shapes
  <2>. HIDE DEF rec
  <2>5. UNCHANGED <<accounts, counter, met, extra, sent, inbox>>
    BY <1>1 DEF DeleteOTP
  <2>6. AccountCalls'
    BY <2>2, <2>3, <2>4, <2>5, CallMoves DEF Opening
  <2>7. otp' \in [Phone -> Nat] /\ \A x \in Phone : otp'[x] <= sent[x]
    <3>1. otp' = otp \/ otp' = [otp EXCEPT ![call[r].phone] = 0]
      BY <1>1 DEF DeleteOTP
    <3>2. \A x \in Phone : otp[x] \in Nat /\ otp[x] <= sent[x] /\ sent[x] \in Nat
      BY DEF AccountState
    <3>3. \A x \in Phone : otp'[x] \in {0, otp[x]}
      BY <3>1 DEF AccountState
    <3>4. otp' \in [Phone -> Nat]
      BY <3>1 DEF AccountState
    <3> QED BY <3>2, <3>3, <3>4
  <2> QED BY <2>5, <2>6, <2>7, AccountsStay DEF AccountIInv, AccountState
<1>2. CASE FindByPhone(r)
  <2>1. call[r] \in LoginCall /\ LoginOK(r) /\ call[r].at = "lookup"
    BY <1>2, LoginAt DEF FindByPhone, At
  <2>2. UNCHANGED <<accounts, counter, otp, sent, inbox, extra>> /\ met' = met \ {r}
    BY <1>2 DEF FindByPhone
  <2>3. AccountState'
    BY <2>2, AccountsStay DEF AccountState
  <2>4. CASE Return(r)
    BY <2>2, <2>3, <2>4, DoneOK DEF AccountIInv
  <2>5. CASE Found(call[r].app, call[r].phone) = {} /\ Goto(r, "number")
    <3>. DEFINE rec == [call[r] EXCEPT !.at = "number"]
    <3>1. call' = [call EXCEPT ![r] = rec]
      BY <2>5 DEF Goto
    <3>2. /\ rec \in LoginCall /\ rec.number = 0 /\ rec.at = "number"
          /\ rec.app = call[r].app /\ rec.phone = call[r].phone
      BY <2>1 DEF LoginCall, LoginOK
    <3>3. rec \notin ProfileCall
      BY <3>2, Shapes
    <3>. HIDE DEF rec
    <3>4. Live(rec.app, rec.phone) = {}
      BY <2>5, <3>2 DEF Found, Live
    <3> QED BY <2>2, <2>3, <3>1, <3>2, <3>3, <3>4, CallMoves DEF AccountIInv
  <2> QED BY <1>2, <2>4, <2>5 DEF FindByPhone
<1> QED BY <1>1, <1>2

LEMMA NumberStep ==
    ASSUME AccountIInv, NEW r \in Caller, NextNumber(r) \/ FirstNumber(r)
    PROVE  AccountIInv'
<1>. AccountState /\ AccountCalls
  BY DEF AccountIInv
<1>1. /\ call[r] \in LoginCall /\ LoginOK(r) /\ call[r].at \in {"number", "first"}
  BY LoginAt DEF NextNumber, FirstNumber, At
<1>2. call[r].app \in App /\ call[r].number = 0
  BY <1>1 DEF LoginCall, LoginOK
<1>3. UNCHANGED <<accounts, otp, sent, inbox, met, extra>>
  BY DEF NextNumber, FirstNumber
<1>4. counter' \in [App -> Nat] /\ \A app \in App : counter[app] <= counter'[app]
  <2>1. \/ counter' = counter
        \/ counter' = [counter EXCEPT ![call[r].app] = counter[call[r].app] + 1]
        \/ /\ counter[call[r].app] = 0
           /\ counter' = [counter EXCEPT ![call[r].app] = 1]
    <3>1. counter \in [App -> Nat]
      BY DEF AccountState
    <3> QED BY <1>2, <3>1 DEF NextNumber, FirstNumber, Counted
  <2>2. counter \in [App -> Nat] /\ counter[call[r].app] \in Nat
    BY <1>2 DEF AccountState
  <2> QED BY <1>2, <2>1, <2>2
<1>5. AccountState'
  <2>1. OneAccount' /\ NumbersDistinct'
    BY <1>3 DEF AccountState, OneAccount, NumbersDistinct, Live, Of
  <2>2. \A a \in DOMAIN accounts' :
            accounts'[a].number > 1 => accounts'[a].number < counter'[accounts'[a].app]
    <3>. SUFFICES ASSUME NEW a \in DOMAIN accounts, accounts[a].number > 1
                  PROVE  accounts[a].number < counter'[accounts[a].app]
      BY <1>3
    <3>1. /\ accounts[a].number < counter[accounts[a].app]
          /\ accounts[a].app \in App /\ accounts[a].number \in Nat
      BY AccountFacts
    <3>2. counter[accounts[a].app] \in Nat /\ counter'[accounts[a].app] \in Nat
      BY <1>4, <3>1, AccountFacts
    <3> QED BY <1>4, <3>1, <3>2
  <2> QED BY <1>3, <1>4, <2>1, <2>2 DEF AccountState
<1>6. AccountCalls'
  <2>1. PICK label \in {"first", "create"}, n \in Nat :
           /\ call' = [call EXCEPT ![r] = [call[r] EXCEPT !.at = label, !.number = n]]
           /\ label = "first" => n = 0
           /\ n > 1 => counter[call[r].app] = n /\ counter'[call[r].app] = n + 1
    <3>1. CASE NextNumber(r) /\ counter[call[r].app] > 0 /\ ~Goto(r, "create")
      <4>1. /\ call' = [call EXCEPT ![r].at = "create", ![r].number = counter[call[r].app]]
            /\ counter' = [counter EXCEPT ![call[r].app] = counter[call[r].app] + 1]
        BY <3>1, <1>2 DEF NextNumber, Counted
      <4>2. /\ counter[call[r].app] \in Nat
            /\ counter'[call[r].app] = counter[call[r].app] + 1
        BY <1>2, <4>1 DEF AccountState
      <4> QED BY <4>1, <4>2
    <3>2. CASE Goto(r, "create") \/ Goto(r, "first")
      <4>1. PICK label \in {"first", "create"} :
               call' = [call EXCEPT ![r] = [call[r] EXCEPT !.at = label]]
        BY <3>2 DEF Goto
      <4>2. call' = [call EXCEPT ![r] = [call[r] EXCEPT !.at = label, !.number = 0]]
        <5>1. call[r] = [call[r] EXCEPT !.number = 0]
          BY <1>1, <1>2 DEF LoginCall
        <5>2. [call[r] EXCEPT !.at = label] = [call[r] EXCEPT !.at = label, !.number = 0]
          BY <1>1, <5>1 DEF LoginCall
        <5> QED BY <4>1, <5>2, Zenon
      <4>. WITNESS label \in {"first", "create"}, 0 \in Nat
      <4> QED BY <4>2
    <3>3. CASE FirstNumber(r)
      <4>1. call' = [call EXCEPT ![r] = [call[r] EXCEPT !.at = "create", !.number = 1]]
        BY <3>3 DEF FirstNumber, AccountCalls
      <4>. WITNESS "create" \in {"first", "create"}, 1 \in Nat
      <4> QED BY <4>1
    <3> QED BY <3>1, <3>2, <3>3 DEF NextNumber
  <2>. DEFINE rec == [call[r] EXCEPT !.at = label, !.number = n]
  <2>2. /\ rec \in LoginCall /\ rec.at = label /\ rec.number = n
        /\ rec.app = call[r].app /\ rec.phone = call[r].phone
    BY <1>1 DEF LoginCall
  <2>3. rec \notin ProfileCall
    BY <2>2, Shapes
  <2>4. call' = [call EXCEPT ![r] = rec]
    BY <2>1
  <2>. HIDE DEF rec
  <2>5. call'[r] = rec /\ \A q \in Caller \ {r} : call'[q] = call[q]
    BY <2>4 DEF AccountCalls
  <2>6. call' \in [Caller -> LoginCall \union ProfileCall \union {Fresh, Done}]
    BY <2>2, <2>4 DEF AccountCalls
  <2>7. \A app, ph : Live(app, ph)' = Live(app, ph)
    BY <1>3 DEF Live, Of
  <2>8. ASSUME NEW q \in Caller
        PROVE  LoginOK(q)' /\ ProfileOK(q)'
    <3>1. CASE q = r
      <4>1. ProfileOK(r)'
        BY <2>3, <2>5 DEF ProfileOK
      <4>2. n > 1 => \A a \in DOMAIN accounts :
                         accounts[a].app = rec.app => accounts[a].number # n
        BY <1>2, <2>1, <2>2, AccountFacts
      <4>3. rec.at \in Opening /\ Live(rec.app, rec.phone) # {} => r \in met
        BY <1>1, <2>2 DEF LoginOK, Opening
      <4>4. n > 1 => n < counter'[rec.app]
        BY <2>1, <2>2
      <4>5. LoginOK(r)'
        BY <1>3, <2>1, <2>2, <2>5, <2>7, <4>2, <4>3, <4>4 DEF LoginOK
      <4> QED BY <3>1, <4>1, <4>5
    <3>2. CASE q # r
      <4>1. ProfileOK(q)'
        BY <1>3, <2>5, <3>2 DEF ProfileOK, AccountCalls
      <4>2. ASSUME call[q] \in LoginCall, call[q].number > 1
            PROVE  call[q].number < counter'[call[q].app]
        <5>1. call[q].app \in App /\ call[q].number \in Nat
          BY <4>2 DEF LoginCall
        <5>2. call[q].number < counter[call[q].app]
          BY <4>2 DEF AccountCalls, LoginOK
        <5> QED BY <1>4, <5>1, <5>2 DEF AccountState
      <4>3. LoginOK(q)'
        BY <1>3, <2>5, <2>7, <3>2, <4>2 DEF LoginOK, AccountCalls
      <4> QED BY <4>1, <4>3
    <3> QED BY <3>1, <3>2
  <2>9. ASSUME NEW q \in Caller \ {r}
        PROVE  Apart(q, r)' /\ Apart(r, q)'
    <3>1. ASSUME call[q] \in LoginCall, call[q].app = rec.app, call[q].number > 1
          PROVE  call[q].number # n
      <4>1. call[q].number < counter[call[q].app] /\ call[q].number \in Nat
        BY <3>1 DEF AccountCalls, LoginOK, LoginCall
      <4>2. n > 1 => counter[call[q].app] = n
        BY <2>1, <2>2, <3>1
      <4> QED BY <3>1, <4>1, <4>2
    <3>2. call[q] \in LoginCall => call[q].number \in Nat
      BY DEF LoginCall
    <3> QED BY <2>2, <2>5, <3>1, <3>2 DEF Apart
  <2>10. ASSUME NEW p \in Caller \ {r}, NEW q \in Caller \ {r}, p # q
         PROVE  Apart(p, q)'
    BY <2>5, <2>10 DEF Apart, AccountCalls
  <2> QED BY <2>6, <2>8, <2>9, <2>10 DEF AccountCalls
<1> QED BY <1>5, <1>6 DEF AccountIInv

-----------------------------------------------------------------------------
(* Accounts come and change *)

\* at most one live account more, which is counted, or is the first
LEMMA OneMore ==
    ASSUME AccountState, NEW app \in App, NEW ph \in Phone, NEW a,
           \/ Live(app, ph)' \subseteq Live(app, ph) /\ extra'[<<app, ph>>] = extra[<<app, ph>>]
           \/ /\ Live(app, ph)' \subseteq Live(app, ph) \union {a}
              /\ \/ extra'[<<app, ph>>] = extra[<<app, ph>>] + 1
                 \/ Live(app, ph) = {} /\ extra'[<<app, ph>>] = extra[<<app, ph>>]
    PROVE  Cardinality(Live(app, ph)') <= 1 + extra'[<<app, ph>>]
<1>. DEFINE old == Live(app, ph)
            new == Live(app, ph)'
<1>1. IsFiniteSet(old) /\ Cardinality(old) \in Nat
  BY LiveFinite DEF AccountState
<1>2. extra[<<app, ph>>] \in Nat /\ Cardinality(old) <= 1 + extra[<<app, ph>>]
  BY DEF AccountState, OneAccount
<1>. HIDE DEF old, new
<1>3. CASE new \subseteq old /\ extra'[<<app, ph>>] = extra[<<app, ph>>]
  <2>1. Cardinality(new) <= Cardinality(old) /\ IsFiniteSet(new)
    BY <1>1, <1>3, FS_Subset
  <2>2. Cardinality(new) \in Nat
    BY <2>1, FS_CardinalityType
  <2> QED BY <1>1, <1>2, <1>3, <2>1, <2>2 DEF new
<1>4. CASE new \subseteq old \union {a} /\ extra'[<<app, ph>>] = extra[<<app, ph>>] + 1
  <2>1. /\ IsFiniteSet(old \union {a}) /\ Cardinality(old \union {a}) \in Nat
        /\ Cardinality(old \union {a}) <= Cardinality(old) + 1
    <3>1. CASE a \in old
      <4>1. old \union {a} = old
        BY <3>1
      <4>2. Cardinality(old) <= Cardinality(old) + 1
        BY <1>1
      <4>3. Cardinality(old \union {a}) = Cardinality(old)
        BY <4>1
      <4>4. IsFiniteSet(old \union {a})
        BY <1>1, <4>1
      <4> QED BY <1>1, <4>2, <4>3, <4>4
    <3>2. CASE a \notin old
      BY <1>1, <3>2, FS_AddElement
    <3> QED BY <3>1, <3>2
  <2>2. Cardinality(new) <= Cardinality(old \union {a}) /\ IsFiniteSet(new)
    BY <1>4, <2>1, FS_Subset
  <2>3. Cardinality(new) \in Nat
    BY <2>2, FS_CardinalityType
  <2> QED BY <1>1, <1>2, <1>4, <2>1, <2>2, <2>3 DEF new
<1>5. CASE new \subseteq old \union {a} /\ old = {} /\ extra'[<<app, ph>>] = extra[<<app, ph>>]
  <2>1. IsFiniteSet({a}) /\ Cardinality({a}) = 1 /\ new \subseteq {a}
    BY <1>5, FS_Singleton
  <2>2. Cardinality(new) <= 1 /\ IsFiniteSet(new)
    BY <2>1, FS_Subset
  <2>3. Cardinality(new) \in Nat
    BY <2>2, FS_CardinalityType
  <2> QED BY <1>2, <1>5, <2>2, <2>3 DEF new
<1> QED BY <1>3, <1>4, <1>5 DEF old, new

LEMMA CreateStep ==
    ASSUME AccountIInv, NEW r \in Caller, CreateAccount(r)
    PROVE  AccountIInv'
<1>. AccountState /\ AccountCalls
  BY DEF AccountIInv
<1>. DEFINE app == call[r].app
            ph == call[r].phone
            n == call[r].number
            new == [app |-> app, phone |-> ph, number |-> n, filled |-> FALSE, status |-> "new"]
<1>1. call[r] \in LoginCall /\ LoginOK(r) /\ call[r].at = "create"
  BY LoginAt DEF CreateAccount, At
<1>2. app \in App /\ ph \in Phone /\ n \in Nat
  BY <1>1 DEF LoginCall
<1>3. call' = [call EXCEPT ![r] = Done] /\ UNCHANGED <<counter, otp, sent, inbox>>
  BY DEF CreateAccount, Return, Enter
<1>4. CASE UNCHANGED <<accounts, met, extra>>
  <2>1. AccountState'
    BY <1>3, <1>4, AccountsStay DEF AccountState
  <2>2. AccountCalls'
    BY <1>3, <1>4, DoneOK DEF CreateAccount
  <2> QED BY <2>1, <2>2 DEF AccountIInv
<1>5. CASE /\ accounts' = Append(accounts, new)
           /\ met' = met \union Creating(app, ph)
           /\ extra' = [extra EXCEPT ![<<app, ph>>] = IF r \in met THEN @ + 1 ELSE @]
  <2>1. new \in Account /\ new.app = app /\ new.phone = ph /\ new.number = n
    BY <1>2 DEF Account
  <2>. HIDE DEF new
  <2>2. /\ accounts' \in Seq(Account) /\ DOMAIN accounts' = DOMAIN accounts \union {Len(accounts) + 1}
        /\ Len(accounts) + 1 \notin DOMAIN accounts /\ accounts'[Len(accounts) + 1] = new
        /\ \A a \in DOMAIN accounts : accounts'[a] = accounts[a]
    BY <1>5, <2>1 DEF AccountState
  <2>3. \A x \in App, y \in Phone :
            Live(x, y)' \subseteq IF x = app /\ y = ph THEN Live(x, y) \union {Len(accounts) + 1}
                                 ELSE Live(x, y)
    BY <2>1, <2>2 DEF Live, Of
  <2>4. Live(app, ph) # {} => r \in met
    BY <1>1 DEF LoginOK, Opening
  <2>5. OneAccount'
    <3>. SUFFICES ASSUME NEW x \in App, NEW y \in Phone
                  PROVE  Cardinality(Live(x, y)') <= 1 + extra'[<<x, y>>]
      BY DEF OneAccount
    <3>1. extra \in [App \X Phone -> Nat]
      BY DEF AccountState
    <3>2. CASE x = app /\ y = ph
      <4>1. extra'[<<x, y>>] = IF r \in met THEN extra[<<x, y>>] + 1 ELSE extra[<<x, y>>]
        BY <1>2, <1>5, <3>1, <3>2
      <4>2. Live(x, y)' \subseteq Live(x, y) \union {Len(accounts) + 1}
        BY <2>3, <3>2
      <4>3. r \notin met => Live(x, y) = {}
        BY <2>4, <3>2
      <4> QED BY <4>1, <4>2, <4>3, OneMore
    <3>3. CASE ~(x = app /\ y = ph)
      <4>1. extra'[<<x, y>>] = extra[<<x, y>>]
        BY <1>2, <1>5, <3>1, <3>3
      <4>2. Live(x, y)' \subseteq Live(x, y)
        BY <2>3, <3>3
      <4> QED BY <4>1, <4>2, OneMore
    <3> QED BY <3>2, <3>3
  <2>6. n > 1 => /\ n < counter[app]
                 /\ \A a \in DOMAIN accounts : accounts[a].app = app => accounts[a].number # n
    BY <1>1 DEF LoginOK
  <2>7. NumbersDistinct'
    <3>. SUFFICES ASSUME NEW a \in DOMAIN accounts', NEW b \in DOMAIN accounts', a # b,
                         accounts'[a].app = accounts'[b].app, accounts'[a].number > 1
                  PROVE  accounts'[a].number # accounts'[b].number
      BY DEF NumbersDistinct
    <3>1. CASE a \in DOMAIN accounts /\ b \in DOMAIN accounts
      BY <2>2, <3>1 DEF AccountState, NumbersDistinct
    <3>2. CASE a = Len(accounts) + 1
      BY <2>1, <2>2, <2>6, <3>2
    <3>3. CASE b = Len(accounts) + 1
      BY <2>1, <2>2, <2>6, <3>3
    <3> QED BY <2>2, <3>1, <3>2, <3>3
  <2>8. \A a \in DOMAIN accounts' :
            accounts'[a].number > 1 => accounts'[a].number < counter'[accounts'[a].app]
    BY <1>3, <2>1, <2>2, <2>6 DEF AccountState
  <2>9. met' \subseteq Caller /\ extra' \in [App \X Phone -> Nat]
    BY <1>2, <1>5 DEF AccountState, Creating
  <2>10. AccountState'
    BY <1>3, <2>2, <2>5, <2>7, <2>8, <2>9 DEF AccountState
  <2>11. call'[r] = Done /\ \A q \in Caller \ {r} : call'[q] = call[q]
    BY <1>3 DEF AccountCalls
  <2>12. \A q \in Caller \ {r} : ProfileOK(q)'
    BY <2>2, <2>11 DEF ProfileOK, AccountCalls
  <2>13. ASSUME NEW q \in Caller \ {r}, call[q] \in LoginCall
         PROVE  LoginOK(q)'
    <3>1. LoginOK(q)
      BY DEF AccountCalls
    <3>2. call[q].app \in App /\ call[q].phone \in Phone /\ call[q].number \in Nat
      BY <2>13 DEF LoginCall
    <3>3. call[q].at # "create" => call[q].number = 0
      BY <2>13, <3>1 DEF LoginOK
    <3>4. call[q].number > 1 => call[q].number < counter[call[q].app]
      BY <2>13, <3>1 DEF LoginOK
    <3>5. ASSUME call[q].number > 1, NEW a \in DOMAIN accounts', accounts'[a].app = call[q].app
          PROVE  accounts'[a].number # call[q].number
      <4>1. CASE a \in DOMAIN accounts
        BY <2>2, <2>13, <3>1, <3>5, <4>1 DEF LoginOK
      <4>2. CASE a = Len(accounts) + 1
        <5>1. Apart(q, r)
          BY DEF AccountCalls
        <5> QED BY <1>1, <2>1, <2>2, <2>13, <3>5, <4>2, <5>1 DEF Apart
      <4> QED BY <2>2, <4>1, <4>2
    <3>6. ASSUME call[q].at \in Opening, Live(call[q].app, call[q].phone)' # {}
          PROVE  q \in met'
      <4>1. CASE call[q].app = app /\ call[q].phone = ph
        BY <1>5, <3>6, <4>1 DEF Creating, Opening
      <4>2. CASE ~(call[q].app = app /\ call[q].phone = ph)
        <5>1. Live(call[q].app, call[q].phone)' \subseteq Live(call[q].app, call[q].phone)
          <6>1. \A x \in App, y \in Phone :
                    ~(x = app /\ y = ph) => Live(x, y)' \subseteq Live(x, y)
            BY <2>3
          <6>2. call'[q] = call[q]
            BY <2>11
          <6> QED BY <3>2, <4>2, <6>1, <6>2 DEF Live, Of
        <5>2. Live(call[q].app, call[q].phone) # {}
          BY <3>6, <5>1
        <5>3. q \in met
          BY <2>13, <3>1, <3>6, <5>2 DEF LoginOK
        <5> QED BY <1>5, <5>3
      <4> QED BY <4>1, <4>2
    <3>7. Live(call[q].app, call[q].phone)' # {} /\ call[q].at \in Opening => q \in met'
      BY <3>6
    <3> QED BY <1>3, <2>11, <3>3, <3>4, <3>5, <3>7 DEF LoginOK
  <2>14. \A q \in Caller \ {r} : LoginOK(q)'
    BY <2>11, <2>13 DEF LoginOK
  <2>15. LoginOK(r)' /\ ProfileOK(r)' /\ \A q \in Caller : Apart(q, r)' /\ Apart(r, q)'
    BY <2>11, Shapes DEF LoginOK, ProfileOK, Apart
  <2>16. \A p, q \in Caller \ {r} : p # q => Apart(p, q)'
    BY <2>11 DEF Apart, AccountCalls
  <2>17. call' \in [Caller -> LoginCall \union ProfileCall \union {Fresh, Done}]
    BY <1>3 DEF AccountCalls
  <2>18. AccountCalls'
    BY <2>12, <2>14, <2>15, <2>16, <2>17 DEF AccountCalls
  <2> QED BY <2>10, <2>18 DEF AccountIInv
<1> QED BY <1>4, <1>5 DEF CreateAccount

\* an account written to: who is about to open another one for its phone number meets
\* it if it comes back to life
LEMMA WriteOK ==
    ASSUME AccountIInv, NEW a \in DOMAIN accounts, NEW new \in Account,
           new.app = accounts[a].app, new.phone = accounts[a].phone,
           new.number = accounts[a].number,
           accounts' = [accounts EXCEPT ![a] = new], Revival(a, new.status),
           UNCHANGED <<counter, otp, sent, inbox>>,
           call' \in [Caller -> LoginCall \union ProfileCall \union {Fresh, Done}],
           \A q \in Caller : call'[q] \in {call[q], Done}
    PROVE  AccountIInv'
<1>. AccountState /\ AccountCalls
  BY DEF AccountIInv
<1>. DEFINE app == accounts[a].app
            ph == accounts[a].phone
            revived == accounts[a].status = "delete" /\ new.status # "delete"
<1>1. app \in App /\ ph \in Phone
  BY AccountFacts
<1>2. /\ accounts' \in Seq(Account) /\ DOMAIN accounts' = DOMAIN accounts
      /\ accounts'[a] = new /\ \A b \in DOMAIN accounts : b # a => accounts'[b] = accounts[b]
  BY DEF AccountState
<1>3. \A b \in DOMAIN accounts : /\ accounts'[b].app = accounts[b].app
                                 /\ accounts'[b].phone = accounts[b].phone
                                 /\ accounts'[b].number = accounts[b].number
  BY <1>2
<1>4. IF revived
      THEN /\ met' = met \union Creating(app, ph)
           /\ extra' = [extra EXCEPT ![<<app, ph>>] = @ + 1]
      ELSE UNCHANGED <<met, extra>>
  BY DEF Revival
<1>5. \A x, y : Live(x, y)' \subseteq Live(x, y) \union IF revived /\ x = app /\ y = ph
                                                      THEN {a} ELSE {}
  BY <1>2, <1>3 DEF Live, Of
<1>. HIDE DEF revived
<1>6. OneAccount'
  <2>. SUFFICES ASSUME NEW x \in App, NEW y \in Phone
                PROVE  Cardinality(Live(x, y)') <= 1 + extra'[<<x, y>>]
    BY DEF OneAccount
  <2>1. extra \in [App \X Phone -> Nat]
    BY DEF AccountState
  <2>2. CASE revived /\ x = app /\ y = ph
    <3>1. extra'[<<x, y>>] = extra[<<x, y>>] + 1
      BY <1>1, <1>4, <2>1, <2>2
    <3>2. Live(x, y)' \subseteq Live(x, y) \union {a}
      BY <1>5, <2>2
    <3> QED BY <3>1, <3>2, OneMore
  <2>3. CASE ~(revived /\ x = app /\ y = ph)
    <3>1. extra'[<<x, y>>] = extra[<<x, y>>]
      BY <1>1, <1>4, <2>1, <2>3
    <3>2. Live(x, y)' \subseteq Live(x, y)
      BY <1>5, <2>3
    <3> QED BY <3>1, <3>2, OneMore
  <2> QED BY <2>2, <2>3
<1>7. NumbersDistinct'
  BY <1>2, <1>3 DEF AccountState, NumbersDistinct
<1>8. \A b \in DOMAIN accounts' :
          accounts'[b].number > 1 => accounts'[b].number < counter'[accounts'[b].app]
  BY <1>2, <1>3 DEF AccountState
<1>9. met' \subseteq Caller /\ extra' \in [App \X Phone -> Nat]
  <2>1. met \subseteq Caller /\ extra \in [App \X Phone -> Nat]
    BY DEF AccountState
  <2>2. extra[<<app, ph>>] + 1 \in Nat
    BY <1>1, <2>1
  <2> QED BY <1>4, <2>1, <2>2 DEF Creating
<1>10. AccountState'
  BY <1>2, <1>6, <1>7, <1>8, <1>9 DEF AccountState
<1>11. Done \notin LoginCall /\ Done \notin ProfileCall
  BY DEF Done, LoginCall, ProfileCall
<1>12. \A q \in Caller : ProfileOK(q)'
  BY <1>2, <1>11 DEF ProfileOK, AccountCalls
<1>13. ASSUME NEW q \in Caller, call'[q] \in LoginCall
       PROVE  LoginOK(q)'
  <2>1. call'[q] = call[q] /\ call[q] \in LoginCall /\ LoginOK(q)
    BY <1>11, <1>13 DEF AccountCalls
  <2>2. /\ call[q].at # "create" => call[q].number = 0
        /\ call[q].number > 1 => /\ call[q].number < counter[call[q].app]
                                 /\ \A b \in DOMAIN accounts' :
                                        accounts'[b].app = call[q].app
                                            => accounts'[b].number # call[q].number
    BY <1>2, <1>3, <2>1 DEF LoginOK
  <2>3. ASSUME call[q].at \in Opening, NEW x, NEW y, x = call[q].app, y = call[q].phone,
               Live(x, y)' # {}
        PROVE  q \in met'
    <3>1. CASE revived /\ x = app /\ y = ph
      BY <1>4, <2>3, <3>1 DEF Creating, Opening
    <3>2. CASE ~(revived /\ x = app /\ y = ph)
      <4>1. Live(x, y) # {}
        BY <1>5, <2>3, <3>2
      <4> QED BY <1>4, <2>1, <2>3, <4>1 DEF LoginOK
    <3> QED BY <3>1, <3>2
  <2>4. call[q].at \in Opening /\ Live(call[q].app, call[q].phone)' # {} => q \in met'
    BY <2>1, <2>3 DEF Live, Of
  <2> QED BY <2>1, <2>2, <2>4 DEF LoginOK
<1>14. \A q \in Caller : LoginOK(q)'
  BY <1>13 DEF LoginOK
<1>15. \A p, q \in Caller : p # q => Apart(p, q)'
  BY <1>11 DEF Apart, AccountCalls
<1>16. AccountCalls'
  BY <1>12, <1>14, <1>15 DEF AccountCalls
<1> QED BY <1>10, <1>16 DEF AccountIInv

LEMMA ProfileStep ==
    ASSUME AccountIInv, NEW r \in Caller,
           \/ \E a \in DOMAIN accounts : CreateOrUpdateProfile(r, a) \/ DeleteAccount(r, a)
           \/ ReadProfile(r) \/ ReadToDelete(r)
    PROVE  AccountIInv'
<1>. AccountState /\ AccountCalls
  BY DEF AccountIInv
<1>1. UNCHANGED accountVars
  BY DEF CreateOrUpdateProfile, DeleteAccount, Calls, ReadProfile, ReadToDelete, Read
<1>2. PICK rec \in ProfileCall : /\ call' = [call EXCEPT ![r] = rec]
                                 /\ rec.a \in DOMAIN accounts /\ rec.was # "blocked"
  <2>1. ASSUME NEW a \in DOMAIN accounts, NEW label \in {"profile_read", "delete_read"},
               Calls(r, label, a)
        PROVE  \E rec \in ProfileCall : /\ call' = [call EXCEPT ![r] = rec]
                                        /\ rec.a \in DOMAIN accounts /\ rec.was # "blocked"
    <3>. DEFINE new == [at |-> label, a |-> a, was |-> accounts[a].status,
                        status |-> accounts[a].status, filled |-> FALSE]
    <3>1. accounts[a].status \in {"new", "active", "blocked", "delete"} /\ a \in Nat
      <4>1. accounts[a] \in Account
        BY AccountFacts
      <4>2. a \in Nat
        BY DEF AccountState
      <4> QED BY <4>1, <4>2 DEF Account
    <3>2. new \in ProfileCall
      BY <3>1 DEF ProfileCall
    <3>3. call' = [call EXCEPT ![r] = new] /\ new.was # "blocked"
      BY <2>1 DEF Calls, Enter, Admits
    <3>. WITNESS new \in ProfileCall
    <3> QED BY <3>3
  <2>2. ASSUME NEW from \in {"profile_read", "delete_read"},
               NEW to \in {"profile_write", "delete_write"}, Read(r, from, to)
        PROVE  \E rec \in ProfileCall : /\ call' = [call EXCEPT ![r] = rec]
                                        /\ rec.a \in DOMAIN accounts /\ rec.was # "blocked"
    <3>. DEFINE account == accounts[call[r].a]
                new == [call[r] EXCEPT !.at = to, !.status = account.status,
                                       !.filled = account.filled]
    <3>1. call[r] \in ProfileCall /\ ProfileOK(r)
      BY <2>2, ProfileAt DEF Read, At
    <3>2. account \in Account
      BY <3>1, AccountFacts DEF ProfileOK
    <3>3. account.status \in {"new", "active", "blocked", "delete"} /\ account.filled \in BOOLEAN
      BY <3>2 DEF Account
    <3>4. call' = [call EXCEPT ![r] = new]
      BY <2>2 DEF Read, AccountCalls
    <3>. HIDE DEF account
    <3>5. /\ new \in ProfileCall /\ new.a = call[r].a /\ new.was = call[r].was
      BY <3>1, <3>3 DEF ProfileCall
    <3>6. new.a \in DOMAIN accounts /\ new.was # "blocked"
      BY <3>1, <3>5 DEF ProfileOK
    <3>. HIDE DEF new
    <3> QED BY <3>4, <3>5, <3>6
  <2> QED BY <2>1, <2>2 DEF CreateOrUpdateProfile, DeleteAccount, ReadProfile, ReadToDelete
<1>3. rec \notin LoginCall
  BY Shapes
<1>4. AccountCalls'
  BY <1>1, <1>2, <1>3, CallMoves DEF accountVars
<1>5. AccountState'
  BY <1>1, AccountsStay DEF accountVars, AccountState
<1> QED BY <1>4, <1>5 DEF AccountIInv

LEMMA WrittenStep ==
    ASSUME AccountIInv, NEW r \in Caller,
           WriteProviderProfile(r) \/ WriteUserProfile(r) \/ WriteDeletion(r)
    PROVE  AccountIInv'
<1>. AccountState /\ AccountCalls
  BY DEF AccountIInv
<1>. DEFINE a == call[r].a
<1>1. call[r] \in ProfileCall /\ ProfileOK(r)
  BY ProfileAt DEF WriteProviderProfile, WriteUserProfile, WriteDeletion, At
<1>2. a \in DOMAIN accounts /\ accounts[a] \in Account
  BY <1>1, AccountFacts DEF ProfileOK
<1>3. /\ call[r].status \in {"new", "active", "blocked", "delete"} /\ call[r].filled \in BOOLEAN
      /\ accounts[a].status \in {"new", "active", "blocked", "delete"}
      /\ accounts[a].filled \in BOOLEAN
  BY <1>1, <1>2 DEF ProfileCall, Account
<1>4. Return(r) /\ UNCHANGED <<counter, otp, sent, inbox>>
  BY DEF WriteProviderProfile, WriteUserProfile, WriteDeletion
<1>5. /\ call' \in [Caller -> LoginCall \union ProfileCall \union {Fresh, Done}]
      /\ \A q \in Caller : call'[q] \in {call[q], Done}
  BY <1>4 DEF Return, Enter, AccountCalls
<1>6. \/ UNCHANGED <<accounts, met, extra>>
      \/ \E status \in {"new", "active", "blocked", "delete"}, filled \in BOOLEAN :
             Write(a, status, filled)
  <2>1. CASE WriteProviderProfile(r)
    <3>1. CASE UNCHANGED <<accounts, met, extra>>
      BY <3>1
    <3>2. ASSUME NEW fills \in BOOLEAN,
                 Write(a, IF call[r].status = "delete" \/ ~call[r].filled THEN "active"
                          ELSE call[r].status, call[r].filled \/ fills)
          PROVE  \E status \in {"new", "active", "blocked", "delete"}, filled \in BOOLEAN :
                     Write(a, status, filled)
      <4>. DEFINE s == IF call[r].status = "delete" \/ ~call[r].filled THEN "active"
                       ELSE call[r].status
                  f == call[r].filled \/ fills
      <4>1. s \in {"new", "active", "blocked", "delete"} /\ f \in BOOLEAN
        BY <1>3
      <4>2. Write(a, s, f)
        BY <3>2
      <4>. HIDE DEF s, f
      <4> QED BY <4>1, <4>2
    <3> QED BY <2>1, <3>1, <3>2 DEF WriteProviderProfile
  <2>2. CASE WriteUserProfile(r)
    <3>1. PICK asked \in {"active", "blocked", "delete"}, fills \in BOOLEAN :
             \/ Write(a, asked, accounts[a].filled \/ fills)
             \/ Write(a, IF ~call[r].filled THEN "active" ELSE accounts[a].status,
                      accounts[a].filled \/ fills)
      BY <2>2 DEF WriteUserProfile
    <3>. DEFINE s == IF ~call[r].filled THEN "active" ELSE accounts[a].status
                f == accounts[a].filled \/ fills
    <3>2. s \in {"new", "active", "blocked", "delete"} /\ f \in BOOLEAN
      BY <1>3
    <3>3. Write(a, asked, f) \/ Write(a, s, f)
      BY <3>1
    <3>. HIDE DEF s, f
    <3> QED BY <3>2, <3>3
  <2>3. CASE WriteDeletion(r)
    <3>. DEFINE f == IF accounts[a].app = "provider" THEN call[r].filled ELSE accounts[a].filled
    <3>1. f \in BOOLEAN
      BY <1>3
    <3>2. Write(a, "delete", f)
      BY <2>3 DEF WriteDeletion
    <3>. HIDE DEF f
    <3> QED BY <3>1, <3>2
  <2> QED BY <2>1, <2>2, <2>3
<1>7. CASE UNCHANGED <<accounts, met, extra>>
  <2>1. AccountState'
    BY <1>4, <1>7, AccountsStay DEF AccountState
  <2>2. AccountCalls'
    BY <1>4, <1>7, DoneOK
  <2> QED BY <2>1, <2>2 DEF AccountIInv
<1>8. ASSUME NEW status \in {"new", "active", "blocked", "delete"}, NEW filled \in BOOLEAN,
             Write(a, status, filled)
      PROVE  AccountIInv'
  <2>. DEFINE new == [accounts[a] EXCEPT !.status = status, !.filled = filled]
  <2>1. /\ new \in Account /\ new.app = accounts[a].app /\ new.phone = accounts[a].phone
        /\ new.number = accounts[a].number /\ new.status = status
    BY <1>2 DEF Account
  <2>2. accounts' = [accounts EXCEPT ![a] = new]
    BY <1>2, <1>8 DEF Write
  <2>. HIDE DEF new
  <2>3. Revival(a, new.status)
    BY <1>8, <2>1 DEF Write
  <2>. HIDE DEF a
  <2> QED BY <1>2, <1>4, <1>5, <2>1, <2>2, <2>3, WriteOK
<1> QED BY <1>6, <1>7, <1>8

LEMMA BlockStep ==
    ASSUME AccountIInv, NEW a \in DOMAIN accounts, Block(a)
    PROVE  AccountIInv'
<1>. AccountState /\ AccountCalls
  BY DEF AccountIInv
<1>. DEFINE new == [accounts[a] EXCEPT !.status = "blocked"]
<1>1. accounts[a] \in Account
  BY AccountFacts
<1>2. /\ new \in Account /\ new.app = accounts[a].app /\ new.phone = accounts[a].phone
      /\ new.number = accounts[a].number /\ new.status = "blocked"
  BY <1>1 DEF Account
<1>3. accounts' = [accounts EXCEPT ![a] = new]
  BY DEF Block
<1>. HIDE DEF new
<1>4. Revival(a, new.status) /\ UNCHANGED <<call, counter, otp, sent, inbox>>
  BY <1>2 DEF Block
<1>5. /\ call' \in [Caller -> LoginCall \union ProfileCall \union {Fresh, Done}]
      /\ \A q \in Caller : call'[q] \in {call[q], Done}
  BY <1>4 DEF AccountCalls
<1> QED BY <1>2, <1>3, <1>4, <1>5, WriteOK

-----------------------------------------------------------------------------
(* What module Records_proofs uses *)

LEMMA AccountStep ==
    ASSUME AccountIInv, AccountNext
    PROVE  AccountIInv'
<1>1. CASE \E ph \in Phone : SendOTP(ph) \/ OTPExpires(ph)
  BY <1>1, CodeStep
<1>2. CASE \E a \in DOMAIN accounts : Block(a)
  BY <1>2, BlockStep
<1>3. ASSUME NEW r \in Caller,
             \/ \E app \in App, ph \in Phone : VerifyOTP(r, app, ph)
             \/ DeleteOTP(r) \/ FindByPhone(r) \/ NextNumber(r) \/ FirstNumber(r)
             \/ CreateAccount(r)
             \/ \E a \in DOMAIN accounts : CreateOrUpdateProfile(r, a) \/ DeleteAccount(r, a)
             \/ ReadProfile(r) \/ ReadToDelete(r)
             \/ WriteProviderProfile(r) \/ WriteUserProfile(r) \/ WriteDeletion(r)
      PROVE  AccountIInv'
  BY <1>3, VerifyStep, LoginStep, NumberStep, CreateStep, ProfileStep, WrittenStep
<1> QED BY <1>1, <1>2, <1>3 DEF AccountNext

LEMMA AccountSafe == AccountState => OneAccount /\ NumbersDistinct
BY DEF AccountState

LEMMA AccountTypes == AccountIInv => AccountTypeOK
<1>. SUFFICES ASSUME AccountIInv PROVE AccountTypeOK
  OBVIOUS
<1>1. \A r \in Caller : \/ call[r] \in LoginCall \union {Fresh, Done}
                        \/ call[r] \in ProfileCall /\ call[r].a \in DOMAIN accounts
  BY DEF AccountIInv, AccountCalls, ProfileOK
<1> QED BY <1>1 DEF AccountIInv, AccountState, AccountTypeOK

\* only a profile or a deletion on its way lifts a block
LEMMA BlockGoes ==
    ASSUME AccountIInv, AccountNext, NEW a \in DOMAIN accounts,
           accounts[a].status = "blocked", accounts'[a].status # "blocked"
    PROVE  \E r \in Caller :
               /\ call[r].at \in {"profile_write", "delete_write"} /\ call'[r] # call[r]
               /\ call[r].a = a /\ call[r].was # "blocked"
<1>. AccountState /\ AccountCalls
  BY DEF AccountIInv
<1>1. accounts' # accounts
  OBVIOUS
<1>2. ASSUME NEW b \in DOMAIN accounts, Block(b)
      PROVE  FALSE
  BY <1>2, AccountFacts DEF Block, AccountState, Account
<1>3. ASSUME NEW r \in Caller, CreateAccount(r)
      PROVE  FALSE
  <2>. DEFINE new == [app |-> call[r].app, phone |-> call[r].phone, number |-> call[r].number,
                      filled |-> FALSE, status |-> "new"]
  <2>1. accounts' = Append(accounts, new)
    BY <1>1, <1>3 DEF CreateAccount
  <2>. HIDE DEF new
  <2> QED BY <2>1 DEF AccountState
<1>4. ASSUME NEW r \in Caller,
             WriteProviderProfile(r) \/ WriteUserProfile(r) \/ WriteDeletion(r)
      PROVE  /\ call[r].at \in {"profile_write", "delete_write"} /\ call'[r] # call[r]
             /\ call[r].a = a /\ call[r].was # "blocked"
  <2>1. call[r].at \in {"profile_write", "delete_write"} /\ call' = [call EXCEPT ![r] = Done]
    BY <1>4 DEF WriteProviderProfile, WriteUserProfile, WriteDeletion, At, Return, Enter
  <2>2. call[r] \in ProfileCall /\ ProfileOK(r)
    BY <2>1, ProfileAt
  <2>3. call'[r] # call[r]
    BY <2>1 DEF Done, AccountCalls
  <2>4. call[r].a \in DOMAIN accounts /\ call[r].was # "blocked"
    BY <2>2 DEF ProfileOK
  <2>5. \E s, f : accounts' = [accounts EXCEPT ![call[r].a].status = s, ![call[r].a].filled = f]
    <3>1. \E s, f : Write(call[r].a, s, f)
      <4>1. CASE WriteProviderProfile(r)
        <5>1. PICK fills \in BOOLEAN :
                 Write(call[r].a, IF call[r].status = "delete" \/ ~call[r].filled
                                  THEN "active" ELSE call[r].status, call[r].filled \/ fills)
          BY <1>1, <4>1, Zenon DEF WriteProviderProfile
        <5> QED BY <5>1, Zenon
      <4>2. CASE WriteUserProfile(r)
        <5>1. PICK asked \in {"active", "blocked", "delete"}, fills \in BOOLEAN :
                 \/ Write(call[r].a, asked, accounts[call[r].a].filled \/ fills)
                 \/ Write(call[r].a, IF ~call[r].filled THEN "active"
                                     ELSE accounts[call[r].a].status,
                          accounts[call[r].a].filled \/ fills)
          BY <4>2, Zenon DEF WriteUserProfile
        <5> QED BY <5>1, Zenon
      <4>3. CASE WriteDeletion(r)
        <5>1. Write(call[r].a, "delete",
                    IF accounts[call[r].a].app = "provider" THEN call[r].filled
                    ELSE accounts[call[r].a].filled)
          BY <4>3, Zenon DEF WriteDeletion
        <5> QED BY <5>1, Zenon
      <4> QED BY <1>4, <4>1, <4>2, <4>3
    <3>2. PICK s, f : Write(call[r].a, s, f)
      BY <3>1
    <3> QED BY <3>2, Zenon DEF Write
  <2>6. \A b \in DOMAIN accounts : b # call[r].a => accounts'[b] = accounts[b]
    BY <2>4, <2>5
  <2> QED BY <2>1, <2>3, <2>4, <2>6
<1>5. PICK r \in Caller : WriteProviderProfile(r) \/ WriteUserProfile(r) \/ WriteDeletion(r)
  BY <1>1, <1>2, <1>3
  DEF AccountNext, SendOTP, OTPExpires, VerifyOTP, DeleteOTP, FindByPhone, NextNumber,
      FirstNumber, CreateOrUpdateProfile, DeleteAccount, Calls, ReadProfile, ReadToDelete,
      Read, accountVars
<1> QED BY <1>4, <1>5

LEMMA NoAccountChanges ==
    ASSUME AccountState, UNCHANGED accountVars
    PROVE  AccountState'
BY AccountsStay DEF accountVars, AccountState
==============================================================================
