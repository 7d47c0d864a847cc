--------------------------- MODULE Devices_proofs ---------------------------
(***************************************************************************)
(* Proofs about module Devices, for any number of persons, devices and     *)
(* callers. Module Records_proofs draws the conclusions for Records.       *)
(***************************************************************************)
EXTENDS Devices, TLAPS

-----------------------------------------------------------------------------
(* The inductive invariant *)

DeviceState ==
    /\ tokens \in [Person \X Device -> Nat]
    /\ dead \subseteq Device
    /\ signedIn \in [Person -> SUBSET Device]
    /\ mixed \subseteq Person
    /\ \A o \in Person \ mixed, d \in Device : tokens[<<o, d>>] \in {0, 1}
    /\ ToldWhereSignedIn

Registers(c, o) == c.at \in {"save", "insert"} /\ c.o = o

\* who is about to insert a document has nobody beside him to insert the same
Overtakes(c, k) == \E o \in Person \ mixed : Registers(c, o) /\ Registers(k, o)

DeviceOK(c) ==
    /\ c.at = "clean" => c.list \subseteq dead
    /\ c.at = "insert" /\ c.o \notin mixed => tokens[<<c.o, c.d>>] = 0

DeviceCalls ==
    /\ call \in [Caller -> DeviceCall \union {Fresh, Done}]
    /\ \A r \in Caller : DeviceOK(call[r])
    /\ \A q, r \in Caller : q # r => ~Overtakes(call[q], call[r])

DeviceIInv == DeviceState /\ DeviceCalls

LEMMA DeviceAt ==
    ASSUME DeviceCalls, NEW r \in Caller, call[r].at \in {"save", "insert", "push", "clean"}
    PROVE  /\ call[r] \in DeviceCall /\ DeviceOK(call[r])
           /\ call[r].o \in Person /\ call[r].d \in Device /\ call[r].list \subseteq Device
BY DEF DeviceCalls, DeviceCall, Fresh, Done

LEMMA DeviceInitOK == DeviceInit => DeviceState
<1>. SUFFICES ASSUME DeviceInit PROVE DeviceState
  OBVIOUS
<1>1. \A o \in Person, d \in Device : tokens[<<o, d>>] = IF d \in signedIn[o] THEN 1 ELSE 0
  BY DEF DeviceInit
<1>2. /\ tokens \in [Person \X Device -> Nat] /\ signedIn \in [Person -> SUBSET Device]
      /\ dead = {} /\ mixed = {}
  BY DEF DeviceInit
<1>3. \A o \in Person : TokensOf(o) = signedIn[o]
  BY <1>1, <1>2 DEF TokensOf
<1> QED BY <1>1, <1>2, <1>3 DEF DeviceState, ToldWhereSignedIn

LEMMA DeviceCallsInit == CallInit => DeviceCalls
BY DEF CallInit, DeviceCalls, DeviceOK, Overtakes, Registers, Fresh

-----------------------------------------------------------------------------
(* Steps *)

\* a step of one caller, after which no document is where another one is to insert it
LEMMA DeviceMoves ==
    ASSUME DeviceCalls, NEW r \in Caller,
           NEW c \in DeviceCall \union {Fresh, Done}, call' = [call EXCEPT ![r] = c],
           dead \subseteq dead', mixed \subseteq mixed',
           \A q \in Caller \ {r} : \A k :
               k = call[q] /\ k.at = "insert" /\ k.o \notin mixed' /\ DeviceOK(k)
                   => tokens'[<<k.o, k.d>>] = 0,
           c.at = "clean" => c.list \subseteq dead',
           c.at = "insert" /\ c.o \notin mixed' => tokens'[<<c.o, c.d>>] = 0,
           \A o \in Person \ mixed' : Registers(c, o) =>
               \/ Registers(call[r], o)
               \/ \A q \in Caller \ {r} : ~Registers(call[q], o)
    PROVE  DeviceCalls'
<1>1. call'[r] = c /\ \A q \in Caller \ {r} : call'[q] = call[q]
  BY DEF DeviceCalls
<1>2. call' \in [Caller -> DeviceCall \union {Fresh, Done}]
  BY DEF DeviceCalls
<1>3. \A q \in Caller : DeviceOK(call[q])'
  <2>1. DeviceOK(call[r])'
    BY <1>1 DEF DeviceOK
  <2>2. \A q \in Caller \ {r} : DeviceOK(call[q])'
    BY <1>1 DEF DeviceOK, DeviceCalls
  <2> QED BY <2>1, <2>2
<1>4. ASSUME NEW p \in Caller, NEW q \in Caller, p # q
      PROVE  ~Overtakes(call[p], call[q])'
  <2>. SUFFICES ASSUME NEW o \in Person \ mixed', Registers(call'[p], o), Registers(call'[q], o)
                PROVE  FALSE
    BY DEF Overtakes, Registers
  <2>1. CASE p # r /\ q # r
    BY <1>1, <1>4, <2>1 DEF DeviceCalls, Overtakes
  <2>2. CASE p = r
    BY <1>1, <1>4, <2>2 DEF DeviceCalls, Overtakes
  <2>3. CASE q = r
    BY <1>1, <1>4, <2>3 DEF DeviceCalls, Overtakes
  <2> QED BY <2>1, <2>2, <2>3
<1> QED BY <1>2, <1>3, <1>4 DEF DeviceCalls

\* a caller moves on while the documents stay
LEMMA DeviceGoes ==
    ASSUME DeviceCalls, NEW r \in Caller,
           NEW c \in DeviceCall \union {Fresh, Done}, call' = [call EXCEPT ![r] = c],
           UNCHANGED <<tokens, dead>>, mixed \subseteq mixed',
           c.at = "clean" => c.list \subseteq dead,
           c.at = "insert" /\ c.o \notin mixed' => tokens[<<c.o, c.d>>] = 0,
           \A o \in Person \ mixed' : Registers(c, o) =>
               \/ Registers(call[r], o)
               \/ \A q \in Caller \ {r} : ~Registers(call[q], o)
    PROVE  DeviceCalls'
<1>1. \A q \in Caller \ {r} : \A k :
          k = call[q] /\ k.at = "insert" /\ k.o \notin mixed' /\ DeviceOK(k)
              => tokens'[<<k.o, k.d>>] = 0
  BY DEF DeviceOK
<1> QED BY <1>1, DeviceMoves

LEMMA DeviceStays ==
    ASSUME DeviceState, UNCHANGED <<tokens, signedIn>>, dead \subseteq dead',
           dead' \subseteq Device, mixed \subseteq mixed', mixed' \subseteq Person
    PROVE  DeviceState'
<1>1. \A o \in Person : TokensOf(o)' = TokensOf(o)
  BY DEF TokensOf
<1>2. ToldWhereSignedIn'
  BY <1>1 DEF DeviceState, ToldWhereSignedIn
<1> QED BY <1>2 DEF DeviceState

LEMMA DiesStep ==
    ASSUME DeviceIInv, NEW d \in Device, Dies(d)
    PROVE  DeviceIInv'
<1>1. DeviceState'
  BY DeviceStays DEF Dies, DeviceIInv, DeviceState
<1>2. DeviceCalls'
  BY DEF Dies, DeviceIInv, DeviceCalls, DeviceOK, Overtakes, Registers
<1> QED BY <1>1, <1>2 DEF DeviceIInv

LEMMA RegisterStep ==
    ASSUME DeviceIInv, NEW r \in Caller, NEW o \in Person, NEW d \in Device, Register(r, o, d)
    PROVE  DeviceIInv'
<1>. DeviceState /\ DeviceCalls
  BY DEF DeviceIInv
<1>. DEFINE c == [at |-> "save", o |-> o, d |-> d, list |-> {}]
<1>1. call' = [call EXCEPT ![r] = c] /\ UNCHANGED <<tokens, dead, signedIn>>
  BY DEF Register, Enter
<1>2. c \in DeviceCall /\ c.at = "save" /\ c.o = o
  BY DEF DeviceCall
<1>. HIDE DEF c
<1>3. mixed \subseteq mixed' /\ mixed' \subseteq Person
  BY DEF Register, DeviceState
<1>4. o \notin mixed' => \A q \in Caller : ~Registers(call[q], o)
  BY DEF Register, Registering, Registers
<1>5. \A x \in Person \ mixed' : Registers(c, x) =>
          \A q \in Caller \ {r} : ~Registers(call[q], x)
  BY <1>2, <1>4 DEF Registers
<1>6. DeviceCalls'
  BY <1>1, <1>2, <1>3, <1>5, DeviceGoes
<1>7. DeviceState'
  BY <1>1, <1>3, DeviceStays DEF DeviceState
<1> QED BY <1>6, <1>7 DEF DeviceIInv

\* o signs in on d, whose document is or comes there
LEMMA SignsInOK ==
    ASSUME DeviceState, NEW o \in Person, NEW d \in Device,
           tokens' \in [Person \X Device -> Nat], UNCHANGED <<dead, mixed>>,
           \A x \in Person, y \in Device :
               <<x, y>> # <<o, d>> => tokens'[<<x, y>>] = tokens[<<x, y>>],
           tokens'[<<o, d>>] > 0, o \notin mixed => tokens'[<<o, d>>] \in {0, 1},
           signedIn' = [signedIn EXCEPT ![o] = @ \union {d}]
    PROVE  DeviceState'
<1>1. \A x \in Person : x # o => TokensOf(x)' = TokensOf(x) /\ signedIn'[x] = signedIn[x]
  BY DEF TokensOf, DeviceState
<1>2. TokensOf(o)' = TokensOf(o) \union {d} /\ signedIn'[o] = signedIn[o] \union {d}
  BY DEF TokensOf, DeviceState
<1>3. ToldWhereSignedIn'
  BY <1>1, <1>2 DEF DeviceState, ToldWhereSignedIn
<1>4. signedIn' \in [Person -> SUBSET Device]
  BY DEF DeviceState
<1>5. \A x \in Person \ mixed', y \in Device : tokens'[<<x, y>>] \in {0, 1}
  BY DEF DeviceState
<1> QED BY <1>3, <1>4, <1>5 DEF DeviceState

LEMMA ReturnGoes ==
    ASSUME DeviceCalls, NEW r \in Caller, Return(r), UNCHANGED <<tokens, dead>>,
           mixed \subseteq mixed'
    PROVE  DeviceCalls'
<1>1. call' = [call EXCEPT ![r] = Done] /\ Done.at = "done"
  BY DEF Return, Enter, Done
<1>2. \A x : ~Registers(Done, x)
  BY <1>1 DEF Registers
<1> QED BY <1>1, <1>2, DeviceGoes

LEMMA SaveTokenStep ==
    ASSUME DeviceIInv, NEW r \in Caller, Save(r)
    PROVE  DeviceIInv'
<1>. DeviceState /\ DeviceCalls
  BY DEF DeviceIInv
<1>. DEFINE o == call[r].o
            d == call[r].d
<1>1. call[r] \in DeviceCall /\ call[r].at = "save" /\ o \in Person /\ d \in Device
  BY DeviceAt DEF Save, At
<1>2. UNCHANGED <<tokens, dead, mixed>>
  BY DEF Save
<1>3. CASE Saved(o, d) /\ Return(r) /\ SignsIn(r)
  <2>1. DeviceCalls'
    BY <1>2, <1>3, ReturnGoes
  <2>2. tokens[<<o, d>>] > 0 /\ signedIn' = [signedIn EXCEPT ![o] = @ \union {d}]
    BY <1>3 DEF Saved, SignsIn
  <2>3. tokens \in [Person \X Device -> Nat] /\ (o \notin mixed => tokens[<<o, d>>] \in {0, 1})
    BY <1>1 DEF DeviceState
  <2>. HIDE DEF o, d
  <2>4. DeviceState'
    BY <1>1, <1>2, <2>2, <2>3, SignsInOK
  <2> QED BY <2>1, <2>4 DEF DeviceIInv
<1>4. CASE ~Saved(o, d) /\ Goto(r, "insert") /\ UNCHANGED signedIn
  <2>. DEFINE c == [call[r] EXCEPT !.at = "insert"]
  <2>1. c \in DeviceCall /\ c.at = "insert" /\ c.o = o /\ c.d = d
    BY <1>1 DEF DeviceCall
  <2>2. call' = [call EXCEPT ![r] = c]
    BY <1>4 DEF Goto
  <2>3. tokens[<<o, d>>] = 0
    BY <1>1, <1>4 DEF Saved, DeviceState
  <2>. HIDE DEF c
  <2>4. \A x : Registers(c, x) => Registers(call[r], x)
    BY <1>1, <2>1 DEF Registers
  <2>5. DeviceCalls'
    BY <1>2, <2>1, <2>2, <2>3, <2>4, DeviceGoes
  <2>6. DeviceState'
    BY <1>2, <1>4, DeviceStays DEF DeviceState
  <2> QED BY <2>5, <2>6 DEF DeviceIInv
<1>5. CASE Return(r) /\ UNCHANGED signedIn
  <2>1. DeviceState'
    BY <1>2, <1>5, DeviceStays DEF DeviceState
  <2> QED BY <1>2, <1>5, <2>1, ReturnGoes DEF DeviceIInv
<1> QED BY <1>3, <1>4, <1>5 DEF Save

LEMMA InsertStep ==
    ASSUME DeviceIInv, NEW r \in Caller, Insert(r)
    PROVE  DeviceIInv'
<1>. DeviceState /\ DeviceCalls
  BY DEF DeviceIInv
<1>. DEFINE o == call[r].o
            d == call[r].d
<1>1. /\ call[r] \in DeviceCall /\ call[r].at = "insert" /\ DeviceOK(call[r])
      /\ o \in Person /\ d \in Device
  BY DeviceAt DEF Insert, At
<1>2. UNCHANGED <<dead, mixed>> /\ signedIn' = [signedIn EXCEPT ![o] = @ \union {d}]
  BY DEF Insert, SignsIn
<1>3. tokens' = [tokens EXCEPT ![<<o, d>>] = tokens[<<o, d>>] + 1]
  BY DEF Insert
<1>4. tokens \in [Person \X Device -> Nat] /\ <<o, d>> \in Person \X Device
  BY <1>1 DEF DeviceState
<1>5. tokens[<<o, d>>] \in Nat
  BY <1>4
<1>6. tokens' \in [Person \X Device -> Nat] /\ tokens'[<<o, d>>] = tokens[<<o, d>>] + 1
  BY <1>3, <1>4, <1>5
<1>7. \A x \in Person, y \in Device :
          <<x, y>> # <<o, d>> => tokens'[<<x, y>>] = tokens[<<x, y>>]
  BY <1>3, <1>4
<1>8. o \notin mixed => tokens[<<o, d>>] = 0
  BY <1>1 DEF DeviceOK
<1>9. DeviceState'
  <2>1. tokens'[<<o, d>>] > 0 /\ (o \notin mixed => tokens'[<<o, d>>] \in {0, 1})
    BY <1>5, <1>6, <1>8
  <2>. HIDE DEF o, d
  <2> QED BY <1>1, <1>2, <1>6, <1>7, <2>1, SignsInOK
<1>10. DeviceCalls'
  <2>1. ASSUME NEW q \in Caller \ {r}, NEW k, k = call[q], DeviceOK(k),
               k.at = "insert", k.o \notin mixed
        PROVE  tokens'[<<k.o, k.d>>] = 0
    <3>1. k.o \in Person /\ k.d \in Device
      BY <2>1, DeviceAt
    <3>2. k.o # o
      <4>1. ~Overtakes(call[q], call[r])
        BY DEF DeviceCalls
      <4> QED BY <1>1, <2>1, <3>1, <4>1 DEF Overtakes, Registers
    <3> QED BY <1>7, <2>1, <3>1, <3>2 DEF DeviceOK
  <2>2. call' = [call EXCEPT ![r] = Done] /\ Done.at = "done"
    BY DEF Insert, Return, Enter, Done
  <2>3. \A q \in Caller \ {r} : \A k :
            k = call[q] /\ k.at = "insert" /\ k.o \notin mixed' /\ DeviceOK(k)
                => tokens'[<<k.o, k.d>>] = 0
    BY <1>2, <2>1
  <2>4. \A x : ~Registers(Done, x)
    BY <2>2 DEF Registers
  <2> QED BY <1>2, <2>2, <2>3, <2>4, DeviceMoves
<1> QED BY <1>9, <1>10 DEF DeviceIInv

\* one document less
LEMMA Dropped ==
    ASSUME DeviceState, NEW o \in Person, NEW d \in Device, tokens[<<o, d>>] > 0, Drop(o, d)
    PROVE  /\ tokens' \in [Person \X Device -> Nat]
           /\ tokens'[<<o, d>>] = tokens[<<o, d>>] - 1
           /\ \A x \in Person, y \in Device :
                  <<x, y>> # <<o, d>> => tokens'[<<x, y>>] = tokens[<<x, y>>]
           /\ \A x \in Person, y \in Device : tokens[<<x, y>>] = 0 => tokens'[<<x, y>>] = 0
           /\ \A x \in Person \ mixed, y \in Device : tokens'[<<x, y>>] \in {0, 1}
<1>1. tokens \in [Person \X Device -> Nat] /\ <<o, d>> \in Person \X Device
  BY DEF DeviceState
<1>2. tokens[<<o, d>>] \in Nat /\ tokens[<<o, d>>] - 1 \in Nat
  BY <1>1
<1>3. tokens' = [tokens EXCEPT ![<<o, d>>] = tokens[<<o, d>>] - 1]
  BY DEF Drop
<1>4. /\ tokens' \in [Person \X Device -> Nat]
      /\ tokens'[<<o, d>>] = tokens[<<o, d>>] - 1
      /\ \A x \in Person, y \in Device :
             <<x, y>> # <<o, d>> => tokens'[<<x, y>>] = tokens[<<x, y>>]
  BY <1>1, <1>2, <1>3
<1>5. \A x \in Person, y \in Device : tokens[<<x, y>>] = 0 => tokens'[<<x, y>>] = 0
  BY <1>4
<1>6. ASSUME NEW x \in Person \ mixed, NEW y \in Device
      PROVE  tokens'[<<x, y>>] \in {0, 1}
  <2>1. tokens[<<x, y>>] \in {0, 1}
    BY DEF DeviceState
  <2>2. CASE <<x, y>> = <<o, d>>
    <3>1. tokens[<<o, d>>] = 1
      BY <2>1, <2>2
    <3>2. tokens'[<<o, d>>] = 0
      BY <1>4, <3>1
    <3> QED BY <2>2, <3>2
  <2>3. CASE <<x, y>> # <<o, d>>
    BY <1>4, <2>1, <2>3
  <2> QED BY <2>2, <2>3
<1> QED BY <1>4, <1>5, <1>6

LEMMA FewerDocuments ==
    ASSUME DeviceCalls, NEW r \in Caller, NEW c \in DeviceCall \union {Fresh, Done},
           call' = [call EXCEPT ![r] = c], UNCHANGED dead, mixed \subseteq mixed',
           \A x \in Person, y \in Device : tokens[<<x, y>>] = 0 => tokens'[<<x, y>>] = 0,
           c.at \notin {"save", "insert"}, c.at = "clean" => c.list \subseteq dead
    PROVE  DeviceCalls'
<1>1. ASSUME NEW q \in Caller, NEW k, k = call[q], k.at = "insert", k.o \notin mixed'
      PROVE  tokens'[<<k.o, k.d>>] = 0
  BY <1>1, DeviceAt DEF DeviceOK
<1>2. \A x : ~Registers(c, x)
  BY DEF Registers
<1>3. \A q \in Caller \ {r} : \A k :
          k = call[q] /\ k.at = "insert" /\ k.o \notin mixed' /\ DeviceOK(k)
              => tokens'[<<k.o, k.d>>] = 0
  BY <1>1
<1> QED BY <1>2, <1>3, DeviceMoves

LEMMA LogoutStep ==
    ASSUME DeviceIInv, NEW r \in Caller, NEW o \in Person, NEW d \in Device, Logout(r, o, d)
    PROVE  DeviceIInv'
<1>. DeviceState /\ DeviceCalls
  BY DEF DeviceIInv
<1>1. /\ call' = [call EXCEPT ![r] = Done] /\ UNCHANGED dead
      /\ signedIn' = [signedIn EXCEPT ![o] = @ \ {d}]
      /\ mixed \subseteq mixed' /\ mixed' \subseteq Person
      /\ o \notin mixed' => TokensOf(o) \subseteq {d}
  BY DEF Logout, Return, Enter, DeviceState
<1>2. CASE Droppable(o) = {} /\ UNCHANGED tokens
  <2>1. DeviceCalls'
    BY <1>1, <1>2, FewerDocuments DEF Done
  <2>2. TokensOf(o) = {}
    BY <1>2 DEF Droppable, TokensOf
  <2>3. \A x \in Person : TokensOf(x)' = TokensOf(x)
    BY <1>2 DEF TokensOf
  <2>4. ToldWhereSignedIn'
    BY <1>1, <2>2, <2>3 DEF DeviceState, ToldWhereSignedIn
  <2>5. DeviceState'
    BY <1>1, <1>2, <2>4 DEF DeviceState
  <2> QED BY <2>1, <2>5 DEF DeviceIInv
<1>3. ASSUME NEW e \in Device, tokens[<<o, e>>] > 0, Drop(o, e)
      PROVE  DeviceIInv'
  <2>1. /\ tokens' \in [Person \X Device -> Nat]
        /\ tokens'[<<o, e>>] = tokens[<<o, e>>] - 1
        /\ \A x \in Person, y \in Device :
               <<x, y>> # <<o, e>> => tokens'[<<x, y>>] = tokens[<<x, y>>]
        /\ \A x \in Person, y \in Device : tokens[<<x, y>>] = 0 => tokens'[<<x, y>>] = 0
        /\ \A x \in Person \ mixed, y \in Device : tokens'[<<x, y>>] \in {0, 1}
    BY <1>3, Dropped
  <2>2. DeviceCalls'
    BY <1>1, <2>1, FewerDocuments DEF Done
  <2>3. \A x \in Person : x # o => TokensOf(x)' = TokensOf(x) /\ signedIn'[x] = signedIn[x]
    BY <1>1, <2>1 DEF TokensOf, DeviceState
  <2>4. ASSUME o \notin mixed'
        PROVE  TokensOf(o)' = {} /\ signedIn'[o] \ dead = {}
    <3>1. e = d /\ TokensOf(o) = {d} /\ o \notin mixed
      BY <1>1, <1>3, <2>4 DEF TokensOf
    <3>2. tokens[<<o, d>>] = 1
      BY <1>3, <3>1 DEF DeviceState
    <3>3. tokens'[<<o, d>>] = 0
      BY <2>1, <3>1, <3>2
    <3>4. TokensOf(o)' = {}
      BY <2>1, <3>1, <3>3 DEF TokensOf
    <3>5. signedIn[o] \ dead \subseteq {d} /\ signedIn'[o] = signedIn[o] \ {d}
      BY <1>1, <3>1 DEF DeviceState, ToldWhereSignedIn
    <3> QED BY <3>4, <3>5
  <2>5. ToldWhereSignedIn'
    BY <1>1, <2>3, <2>4 DEF DeviceState, ToldWhereSignedIn
  <2>6. DeviceState'
    BY <1>1, <2>1, <2>5 DEF DeviceState
  <2> QED BY <2>2, <2>6 DEF DeviceIInv
<1>4. \/ Droppable(o) = {} /\ UNCHANGED tokens
      \/ \E e \in Device : tokens[<<o, e>>] > 0 /\ Drop(o, e)
  BY DEF Logout, Droppable
<1> QED BY <1>2, <1>3, <1>4

LEMMA MessageStep ==
    ASSUME DeviceIInv, NEW r \in Caller, (\E o \in Person : Send(r, o)) \/ Push(r)
    PROVE  DeviceIInv'
<1>. DeviceState /\ DeviceCalls
  BY DEF DeviceIInv
<1>1. UNCHANGED deviceVars
  BY DEF Send, Push
<1>2. DeviceState'
  BY <1>1, DeviceStays DEF deviceVars, DeviceState
<1>3. CASE Return(r)
  BY <1>1, <1>2, <1>3, ReturnGoes DEF deviceVars, DeviceIInv
<1>4. ASSUME NEW o \in Person, Send(r, o)
      PROVE  DeviceIInv'
  <2>. DEFINE any == CHOOSE d \in Device : TRUE
              list == TokensOf(o)
              c == [at |-> "push", o |-> o, d |-> any, list |-> list]
  <2>1. list \subseteq Device /\ any \in Device
    BY <1>4 DEF Send, TokensOf
  <2>2. call' = [call EXCEPT ![r] = c]
    BY <1>4 DEF Send, Enter
  <2>. HIDE DEF any, list
  <2>3. c \in DeviceCall /\ c.at = "push"
    BY <2>1 DEF DeviceCall
  <2>. HIDE DEF c
  <2> QED BY <1>1, <1>2, <2>2, <2>3, FewerDocuments DEF deviceVars, DeviceIInv
<1>5. CASE Push(r) /\ ~Return(r)
  <2>. DEFINE list == call[r].list \intersect dead
              c == [call[r] EXCEPT !.at = "clean", !.list = list]
  <2>1. call[r] \in DeviceCall /\ list \subseteq Device /\ list \subseteq dead
    BY <1>5, DeviceAt DEF Push, At
  <2>2. call' = [call EXCEPT ![r] = c]
    BY <1>5 DEF Push
  <2>. HIDE DEF list
  <2>3. c \in DeviceCall /\ c.at = "clean" /\ c.list = list
    BY <2>1 DEF DeviceCall
  <2>. HIDE DEF c
  <2> QED BY <1>1, <1>2, <2>1, <2>2, <2>3, FewerDocuments DEF deviceVars, DeviceIInv
<1> QED BY <1>3, <1>4, <1>5

LEMMA CleanStep ==
    ASSUME DeviceIInv, NEW r \in Caller, Clean(r)
    PROVE  DeviceIInv'
<1>. DeviceState /\ DeviceCalls
  BY DEF DeviceIInv
<1>1. call[r] \in DeviceCall /\ call[r].list \subseteq Device /\ call[r].list \subseteq dead
  BY DeviceAt DEF Clean, At, DeviceOK
<1>2. UNCHANGED <<dead, signedIn, mixed>>
  BY DEF Clean
<1>3. PICK d \in call[r].list :
          /\ \/ \E o \in Person : d \in TokensOf(o) /\ Drop(o, d)
             \/ UNCHANGED tokens
          /\ IF call[r].list = {d} THEN Return(r)
                                   ELSE call' = [call EXCEPT ![r].list = @ \ {d}]
  BY DEF Clean
<1>4. PICK c \in DeviceCall \union {Done} :
          /\ call' = [call EXCEPT ![r] = c]
          /\ c.at \notin {"save", "insert"} /\ (c.at = "clean" => c.list \subseteq dead)
  <2>1. CASE Return(r)
    <3>1. call' = [call EXCEPT ![r] = Done] /\ Done.at = "done"
      BY <2>1 DEF Return, Enter, Done
    <3> QED BY <3>1
  <2>2. CASE call' = [call EXCEPT ![r].list = call[r].list \ {d}]
    <3>. DEFINE list == call[r].list \ {d}
                c == [call[r] EXCEPT !.list = list]
    <3>1. list \subseteq Device /\ list \subseteq dead
      BY <1>1
    <3>2. call' = [call EXCEPT ![r] = c]
      BY <2>2
    <3>3. call[r].at = "clean"
      BY DEF Clean, At
    <3>. HIDE DEF list
    <3>4. c \in DeviceCall /\ c.at = "clean" /\ c.list = list
      BY <1>1, <3>1, <3>3 DEF DeviceCall
    <3>. HIDE DEF c
    <3> QED BY <3>1, <3>2, <3>4
  <2> QED BY <1>3, <2>1, <2>2
<1>5. CASE UNCHANGED tokens
  <2>1. DeviceState'
    BY <1>2, <1>5, DeviceStays DEF DeviceState
  <2> QED BY <1>2, <1>4, <1>5, <2>1, FewerDocuments DEF DeviceIInv
<1>6. ASSUME NEW o \in Person, d \in TokensOf(o), Drop(o, d)
      PROVE  DeviceIInv'
  <2>1. d \in Device /\ d \in dead /\ tokens[<<o, d>>] > 0
    BY <1>1, <1>6 DEF TokensOf
  <2>2. /\ tokens' \in [Person \X Device -> Nat]
        /\ \A x \in Person, y \in Device :
               <<x, y>> # <<o, d>> => tokens'[<<x, y>>] = tokens[<<x, y>>]
        /\ \A x \in Person, y \in Device : tokens[<<x, y>>] = 0 => tokens'[<<x, y>>] = 0
        /\ \A x \in Person \ mixed, y \in Device : tokens'[<<x, y>>] \in {0, 1}
    BY <1>6, <2>1, Dropped
  <2>3. \A x \in Person : TokensOf(x)' \ dead = TokensOf(x) \ dead
    BY <2>1, <2>2 DEF TokensOf
  <2>4. ToldWhereSignedIn'
    BY <1>2, <2>3 DEF DeviceState, ToldWhereSignedIn
  <2>5. DeviceState'
    BY <1>2, <2>2, <2>4 DEF DeviceState
  <2> QED BY <1>2, <1>4, <2>2, <2>5, FewerDocuments DEF DeviceIInv
<1> QED BY <1>3, <1>5, <1>6

-----------------------------------------------------------------------------
(* What module Records_proofs uses *)

LEMMA DeviceStep ==
    ASSUME DeviceIInv, DeviceNext
    PROVE  DeviceIInv'
<1>1. CASE \E d \in Device : Dies(d)
  BY <1>1, DiesStep
<1>2. ASSUME NEW r \in Caller,
             \/ \E o \in Person, d \in Device : Register(r, o, d) \/ Logout(r, o, d)
             \/ \E o \in Person : Send(r, o)
             \/ Save(r) \/ Insert(r) \/ Push(r) \/ Clean(r)
      PROVE  DeviceIInv'
  BY <1>2, RegisterStep, LogoutStep, MessageStep, SaveTokenStep, InsertStep, CleanStep
<1> QED BY <1>1, <1>2 DEF DeviceNext

LEMMA DeviceSafe == DeviceState => ToldWhereSignedIn
BY DEF DeviceState

LEMMA DeviceTypes == DeviceIInv => DeviceTypeOK
BY DEF DeviceIInv, DeviceState, DeviceCalls, DeviceTypeOK

LEMMA NoDeviceChanges ==
    ASSUME DeviceState, UNCHANGED deviceVars
    PROVE  DeviceState'
BY DeviceStays DEF deviceVars, DeviceState
=============================================================================
