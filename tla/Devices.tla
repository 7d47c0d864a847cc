------------------------------ MODULE Devices ------------------------------
(***************************************************************************)
(* The phones a notification goes to: the collection device_tokens, which  *)
(* apps register in, which a logout deletes from, and from which a message *)
(* to several phones removes those that are no longer there.               *)
(***************************************************************************)
EXTENDS Calls, Integers, FiniteSets

CONSTANTS
    Person,         \* customers and mechanics, by ownerId and ownerType
    Device,         \* tokens; an app keeps its token whoever signs in
    DeviceFaults    \* subset of {"StoreError", "PushError"}

VARIABLES
    tokens,     \* tokens[<<o, d>>]: how many documents say that d is a device of o
    dead,       \* tokens the push service knows no longer
    signedIn,   \* history: signedIn[o], the devices o has registered and not logged out on
    mixed       \* history: owners with two calls under way at a time, or who have logged
                \* out while several devices were registered

deviceVars == <<tokens, dead, signedIn, mixed>>

\* list: whom the message goes to, then whose documents are to be deleted
DeviceCall == [at : {"save", "insert", "push", "clean"},
               o : Person, d : Device, list : SUBSET Device]

DeviceTypeOK ==
    /\ tokens \in [Person \X Device -> Nat]
    /\ dead \subseteq Device
    /\ signedIn \in [Person -> SUBSET Device]
    /\ mixed \subseteq Person
    /\ \A r \in Caller : call[r] \in DeviceCall \union {Fresh, Done}

\* some have signed in before, one call at a time
DeviceInit ==
    /\ signedIn \in [Person -> SUBSET Device]
    /\ tokens = [x \in Person \X Device |-> IF x[2] \in signedIn[x[1]] THEN 1 ELSE 0]
    /\ dead = {}
    /\ mixed = {}

\* o has a registration under way
Registering(o) == \E r \in Caller : call[r].at \in {"save", "insert"} /\ call[r].o = o

TokensOf(o) == {d \in Device : tokens[<<o, d>>] > 0}

-----------------------------------------------------------------------------
(* Registration: an upsert, whose look-up and insertion no index ties together *)

Register(r, o, d) ==
    /\ At(r, "new") /\ d \notin dead
    /\ Enter(r, [at |-> "save", o |-> o, d |-> d, list |-> {}])
    /\ mixed' = IF Registering(o) THEN mixed \union {o} ELSE mixed
    /\ UNCHANGED <<tokens, dead, signedIn>>

\* mutation: the filter of the upsert is the token alone, so that it takes over the
\* document of another owner
SavedByToken(o, d) == \E other \in Person : tokens[<<other, d>>] > 0

Saved(o, d) == tokens[<<o, d>>] > 0

SignsIn(r) == signedIn' = [signedIn EXCEPT ![call[r].o] = @ \union {call[r].d}]

Save(r) ==
    /\ At(r, "save")
    /\ \/ /\ Saved(call[r].o, call[r].d)
          /\ Return(r) /\ SignsIn(r)
       \/ /\ ~Saved(call[r].o, call[r].d)
          /\ Goto(r, "insert") /\ UNCHANGED signedIn
       \/ /\ "StoreError" \in DeviceFaults
          /\ Return(r) /\ UNCHANGED signedIn
    /\ UNCHANGED <<tokens, dead, mixed>>

Insert(r) ==
    /\ At(r, "insert")
    /\ tokens' = [tokens EXCEPT ![<<call[r].o, call[r].d>>] = @ + 1]
    /\ Return(r) /\ SignsIn(r)
    /\ UNCHANGED <<dead, mixed>>

-----------------------------------------------------------------------------
(* Logout, on device d *)

Drop(o, d) == tokens' = [tokens EXCEPT ![<<o, d>>] = @ - 1]

Droppable(o) == {x \in {o} \X Device : tokens[x] > 0}

\* The request does not name the device. One document of the owner goes: the order asked
\* for is that of a field no document has.
Logout(r, o, d) ==
    /\ At(r, "new") /\ d \in signedIn[o]
    /\ IF Droppable(o) = {} THEN UNCHANGED tokens
                            ELSE \E x \in Droppable(o) : Drop(x[1], x[2])
    /\ signedIn' = [signedIn EXCEPT ![o] = @ \ {d}]
    /\ mixed' = IF Registering(o) \/ TokensOf(o) \ {d} # {} THEN mixed \union {o} ELSE mixed
    /\ Return(r)
    /\ UNCHANGED dead

-----------------------------------------------------------------------------
(* Messages *)

\* GetTokens names each device once, however many documents there are
Send(r, o) ==
    /\ At(r, "new") /\ TokensOf(o) # {}
    /\ Enter(r, [at |-> "push", o |-> o, d |-> CHOOSE d \in Device : TRUE,
                 list |-> TokensOf(o)])
    /\ UNCHANGED deviceVars

\* only a message to several devices tells which of them are gone
Push(r) ==
    /\ At(r, "push")
    /\ IF Cardinality(call[r].list) > 1 /\ call[r].list \intersect dead # {}
         THEN \/ call' = [call EXCEPT ![r].at = "clean", ![r].list = @ \intersect dead]
              \/ "PushError" \in DeviceFaults /\ Return(r)
         ELSE Return(r)
    /\ UNCHANGED deviceVars

\* DeleteToken goes by the token: one document of it, of any owner; errors are ignored
Clean(r) ==
    /\ At(r, "clean")
    /\ \E d \in call[r].list :
         /\ \/ \E o \in Person : d \in TokensOf(o) /\ Drop(o, d)
            \/ /\ "StoreError" \in DeviceFaults \/ \A o \in Person : d \notin TokensOf(o)
               /\ UNCHANGED tokens
         /\ IF call[r].list = {d} THEN Return(r)
                                  ELSE call' = [call EXCEPT ![r].list = @ \ {d}]
    /\ UNCHANGED <<dead, signedIn, mixed>>

\* the app is removed from the phone, or its token replaced
Dies(d) ==
    /\ d \notin dead
    /\ dead' = dead \union {d}
    /\ UNCHANGED <<call, tokens, signedIn, mixed>>

DeviceNext ==
    \/ \E d \in Device : Dies(d)
    \/ \E r \in Caller :
        \/ \E o \in Person, d \in Device : Register(r, o, d) \/ Logout(r, o, d)
        \/ \E o \in Person : Send(r, o)
        \/ Save(r) \/ Insert(r) \/ Push(r) \/ Clean(r)

-----------------------------------------------------------------------------
(* Properties *)

\* Messages to an owner go to the phones he is signed in on and to no others, in each of
\* the two roles a phone may have, however often phones vanish and are cleaned up; unless
\* two of his calls overlapped, or he logged out with several phones registered, of which
\* a vanished one is enough (device_token.go, "role safe"; Logout of both apps).
ToldWhereSignedIn == \A o \in Person \ mixed : TokensOf(o) \ dead = signedIn[o] \ dead
=============================================================================
