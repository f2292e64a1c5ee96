--------------------- MODULE KeyProvisioning_proofs ---------------------
(***************************************************************************)
(* Theorems about KeyProvisioning, for every set of keys and every bound   *)
(* on the key information lists: its type, the agreement of caller and     *)
(* secure element on the keys, and the agreement of both sides inside an   *)
(* exchange.                                                               *)
(***************************************************************************)
EXTENDS KeyProvisioning, TLAPS

(***************************************************************************)
(* Types                                                                   *)
(***************************************************************************)

HostType == [pub : OptPair, secret : OptPair, okm : OptPair, counter : 0..1,
             envelope : [base : OptPair, counter : 0..1, value : OptKey],
             appended : 0..MaxInfos]
ElementType == [pair : OptPair, kek : [base : OptPair, counter : 0..1], pending : OptPair]

LEMMA CallFields ==
    ASSUME NEW c \in Calls
    PROVE  /\ c.kind \in {"plain", "wrapped", "establish"} /\ c.slot \in Slots
           /\ c.value \in OptKey /\ c.count \in 0..MaxInfos
           /\ c.kind # "establish" => c.value \in Values
           /\ First(c) \in Steps
<1>1. 0 \in 0..MaxInfos
  BY InfosAssumption
<1>2. CASE c \in [kind : {"plain"}, slot : Slots, auth : {FALSE}, value : Values, count : {0}]
  BY <1>1, <1>2 DEF OptKey, Keys, First, Steps
<1>3. CASE c \in [kind : {"wrapped"}, slot : Slots, auth : BOOLEAN, value : Values, count : {0}]
  BY <1>1, <1>3 DEF OptKey, Keys, First, Steps
<1>4. CASE c \in [kind : {"establish"}, slot : {"host"}, auth : BOOLEAN, value : {None},
                   count : {0}]
  BY <1>1, <1>4 DEF OptKey, Slots, First, Steps
<1>5. CASE c \in [kind : {"establish"}, slot : {"sym"}, auth : BOOLEAN, value : {None},
                   count : 0..MaxInfos]
  BY <1>5 DEF OptKey, Slots, First, Steps
<1> QED
  BY <1>2, <1>3, <1>4, <1>5 DEF Calls

LEMMA EmptyTypes == /\ EmptyHost \in HostType /\ EmptyHost.appended = 0
                    /\ ResetElement \in ElementType
                    /\ HostOrder \in [Infos -> BOOLEAN]
<1>1. None \in OptPair /\ None \in OptKey
  BY DEF OptPair, OptKey
<1>2. EmptyHost \in HostType
  BY <1>1, InfosAssumption DEF EmptyHost, HostType, NoEnvelope
<1> QED
  BY <1>1, <1>2 DEF EmptyHost, ResetElement, ElementType, ClosedSession, HostOrder

LEMMA SwappedType ==
    ASSUME NEW l \in [Infos -> BOOLEAN], NEW S
    PROVE  Swapped(l, S) \in [Infos -> BOOLEAN]
BY DEF Swapped

\* A call returns with buffers that are gone and keys the caller may know.
LEMMA ReturnType ==
    ASSUME TypeOK, NEW code \in Codes, Return(code)
    PROVE  /\ pc' \in Steps /\ ret' \in Codes /\ host' \in HostType
           /\ host'.appended = 0 /\ caller_key' \in [Slots -> OptKey]
<1>1. caller_key \in [Slots -> OptKey] /\ call.slot \in Slots
  BY CallFields DEF TypeOK
<1>2. host.okm \in OptKey /\ call.value \in OptKey
  BY CallFields DEF TypeOK, OptKey, OptPair, Keys
<1>3. CallerKeyAfter(code) \in [Slots -> OptKey]
  BY <1>1, <1>2 DEF CallerKeyAfter
<1> QED
  BY <1>3, EmptyTypes DEF Return, Steps

\* What a command does in the secure element has its type.
SEType == /\ se \in ElementType /\ se_key \in [Slots -> OptKey]
          /\ unreported \in SUBSET Slots

LEMMA StoreType ==
    ASSUME TypeOK, NEW key \in OptKey, Store(key)
    PROVE  se_key' \in [Slots -> OptKey] /\ unreported' \in SUBSET Slots
BY CallFields DEF TypeOK, Store

LEMMA SEUnchanged == TypeOK /\ UNCHANGED seVars => SEType'
BY DEF TypeOK, seVars, SEType, ElementType

\* A step goes on or returns.
LEMMA ConfirmType ==
    ASSUME TypeOK, UNCHANGED <<call, list>>, infos' \in [Infos -> BOOLEAN], SEType',
           NEW result \in HostType, result.appended <= call.count,
           NEW step \in Steps, NEW code \in Codes,
           (host' = result /\ Goto(step)) \/ Return(code)
    PROVE  TypeOK'
<1>1. call.count \in 0..MaxInfos
  BY CallFields DEF TypeOK
<1>2. CASE host' = result /\ Goto(step)
  BY <1>1, <1>2 DEF TypeOK, Goto, SEType, HostType, ElementType
<1>3. CASE Return(code)
  <2>1. /\ pc' \in Steps /\ ret' \in Codes /\ host' \in HostType
        /\ host'.appended = 0 /\ caller_key' \in [Slots -> OptKey]
    BY <1>3, ReturnType
  <2> QED
    BY <1>1, <2>1, InfosAssumption DEF TypeOK, SEType, HostType, ElementType
<1> QED
  BY <1>2, <1>3

LEMMA StepType ==
    ASSUME TypeOK, UNCHANGED <<call, infos, list>>, SEType',
           NEW result \in HostType, result.appended <= call.count,
           NEW step \in Steps, NEW code \in Codes,
           (host' = result /\ Goto(step)) \/ Return(code)
    PROVE  TypeOK'
BY ConfirmType DEF TypeOK

LEMMA TypeInit == Init => TypeOK
<1> SUFFICES ASSUME Init PROVE TypeOK
  OBVIOUS
<1>1. call.count \in 0..MaxInfos
  BY CallFields DEF Init
<1>2. None \in OptKey /\ "none" \in Codes /\ "idle" \in Steps
  BY DEF OptKey, Codes, Steps
<1> QED
  BY <1>1, <1>2, EmptyTypes, InfosAssumption DEF Init, TypeOK, HostType, ElementType

\* A session derives one working KEK and the MAC takes the entries the caller
\* counted: for this the type needs what CallInv says of the running call.
LEMMA TypeStep == TypeOK /\ CallInv /\ [Next]_vars => TypeOK'
<1> SUFFICES ASSUME TypeOK, CallInv, [Next]_vars PROVE TypeOK'
  OBVIOUS
<1>1. /\ host \in HostType /\ se \in ElementType /\ host.appended <= call.count
      /\ call.kind \in {"plain", "wrapped", "establish"} /\ call.slot \in Slots
      /\ call.value \in OptKey /\ call.count \in 0..MaxInfos
  BY CallFields DEF TypeOK, HostType, ElementType
<1>2. /\ AfterWrite \in Steps /\ AfterSEKeygen \in Steps /\ AfterAgree \in Steps
      /\ AfterHKDF \in Steps
  BY DEF AfterWrite, AfterSEKeygen, AfterAgree, AfterHKDF, SignOrAgree, EarlyDerivation, Steps
<1>3. {"STSE_OK", "INVALID_PARAMETER", "PLATFORM_ERROR", "TRANSFER_ERROR"} \subseteq Codes
  BY DEF Codes
<1>4. None \in OptPair /\ OptPair \subseteq OptKey /\ Pairs \subseteq OptPair
  BY DEF OptPair, OptKey, Keys
<1>5. CASE StartCall
  <2>1. /\ call' \in Calls /\ call'.count \in 0..MaxInfos /\ First(call') \in Steps
    BY <1>5, CallFields DEF StartCall
  <2>2. infos' \in [Infos -> BOOLEAN] /\ list' = infos'
    BY <1>5, EmptyTypes DEF StartCall, TypeOK
  <2>3. SEType'
    BY <1>5, SEUnchanged DEF StartCall
  <2> QED
    BY <1>5, <2>1, <2>2, <2>3, EmptyTypes, InfosAssumption
       DEF StartCall, TypeOK, HostType, ElementType, SEType, Codes
<1>6. CASE Step
  <2>1. UNCHANGED <<call, infos, list>>
    BY <1>6 DEF Step
  <2>2. CASE QuerySlot
    <3>1. SEType'
      BY <2>2, SEUnchanged DEF QuerySlot, Command
    <3> QED
      BY <1>1, <1>3, <2>1, <2>2, <3>1, StepType DEF QuerySlot, Command, Steps
  <2>3. CASE HostKeygen
    BY <1>1, <1>3, <2>1, <2>3, StepType, SEUnchanged DEF HostKeygen, Compute, Steps
  <2>4. CASE SEKeygen
    <3>1. CASE UNCHANGED seVars /\ Return("TRANSFER_ERROR")
      BY <1>1, <1>2, <1>3, <2>1, <3>1, StepType, SEUnchanged
    <3>2. ASSUME NEW p \in Pairs,
                 Command(se' = [se EXCEPT !.pair = p] /\ UNCHANGED <<se_key, unreported>>,
                         [host EXCEPT !.pub = p], AfterSEKeygen)
          PROVE  TypeOK'
      <4>1. [host EXCEPT !.pub = p] \in HostType
            /\ [host EXCEPT !.pub = p].appended <= call.count
        BY <1>1, <1>4 DEF HostType
      <4>2. [se EXCEPT !.pair = p] \in ElementType
        BY <1>1, <1>4 DEF ElementType
      <4>3. SEType'
        BY <3>2, <4>2, SEUnchanged DEF Command, SEType, TypeOK
      <4> QED
        BY <1>2, <1>3, <2>1, <3>2, <4>1, <4>3, StepType DEF Command
    <3> QED
      BY <2>4, <3>1, <3>2 DEF SEKeygen
  <2>5. CASE Sign
    BY <1>1, <1>3, <2>1, <2>5, StepType, SEUnchanged DEF Sign, Compute, Steps
  <2>6. CASE ECDH
    <3>1. [host EXCEPT !.secret = host.pub] \in HostType
          /\ [host EXCEPT !.secret = host.pub].appended <= call.count
      BY <1>1 DEF HostType
    <3> QED
      BY <1>3, <2>1, <2>6, <3>1, StepType, SEUnchanged DEF ECDH, Compute, Steps
  <2>7. CASE HKDF
    <3> DEFINE h == [host EXCEPT !.okm = host.secret, !.counter = 0]
    <3>1. 0 \in 0..1 /\ host.secret \in OptPair
      BY <1>1 DEF HostType
    <3>2. h \in HostType /\ h.appended = host.appended
      BY <1>1, <3>1 DEF HostType
    <3>3. UNCHANGED seVars /\ ((host' = h /\ Goto(AfterHKDF)) \/ Return("PLATFORM_ERROR"))
      BY <2>7 DEF HKDF, Compute
    <3> HIDE DEF h
    <3> QED
      BY <1>1, <1>2, <1>3, <2>1, <3>2, <3>3, StepType, SEUnchanged
  <2>8. CASE StartKEKSession
    <3>1. se.pair \in OptPair
          /\ [se EXCEPT !.kek = [base |-> se.pair, counter |-> 0]] \in ElementType
      BY <1>1 DEF ElementType
    <3>2. SEType'
      BY <2>8, <3>1, SEUnchanged DEF StartKEKSession, Command, SEType, TypeOK
    <3> QED
      BY <1>1, <1>2, <1>3, <2>1, <2>8, <3>2, StepType DEF StartKEKSession, Command
  <2>9. CASE EstablishHostKey
    <3>1. se.pair \in OptKey
      BY <1>1, <1>4 DEF ElementType
    <3>2. SEType'
      BY <1>1, <2>9, <3>1, StoreType, SEUnchanged DEF EstablishHostKey, Command, SEType
    <3> QED
      BY <1>1, <1>2, <1>3, <2>1, <2>9, <3>2, StepType DEF EstablishHostKey, Command
  <2>10. CASE EstablishSymmetricKey
    <3>1. [se EXCEPT !.pending = se.pair] \in ElementType
      BY <1>1 DEF ElementType
    <3>2. SEType'
      BY <2>10, <3>1, SEUnchanged DEF EstablishSymmetricKey, Command, SEType, TypeOK
    <3> QED
      BY <1>1, <1>2, <1>3, <2>1, <2>10, <3>2, StepType DEF EstablishSymmetricKey, Command
  <2>11. CASE Wrap
    <3> DEFINE e == [base |-> host.okm, counter |-> WorkingCounter, value |-> call.value]
               h == [host EXCEPT !.counter = host.counter + 1, !.envelope = e]
    <3>1. host.counter = 0
      BY <2>11 DEF Wrap, CallInv, ExchangeInv
    <3>2. e \in [base : OptPair, counter : 0..1, value : OptKey]
      BY <1>1, <3>1 DEF HostType, WorkingCounter
    <3>3. h \in HostType /\ h.appended = host.appended
      <4>1. host.counter + 1 \in 0..1
        BY <3>1
      <4> HIDE DEF e
      <4> QED
        BY <1>1, <3>2, <4>1 DEF HostType
    <3>4. UNCHANGED seVars /\ ((host' = h /\ Goto("write")) \/ Return("PLATFORM_ERROR"))
      BY <2>11 DEF Wrap, Compute
    <3> HIDE DEF h
    <3> QED
      BY <1>1, <1>3, <2>1, <3>3, <3>4, StepType, SEUnchanged DEF Steps
  <2>12. CASE WritePlain
    <3>1. SEType'
      BY <1>1, <2>12, StoreType, SEUnchanged DEF WritePlain, Command, SEType
    <3> QED
      BY <1>1, <1>2, <1>3, <2>1, <2>12, <3>1, StepType DEF WritePlain, Command
  <2>13. CASE WriteWrapped
    <3>1. host.envelope.counter \in 0..1 /\ host.envelope.value \in OptKey
          /\ se.kek.counter \in 0..1
      BY <1>1 DEF HostType, ElementType
    <3>2. ASSUME Opens(se.kek, host.envelope)
          PROVE  [se EXCEPT !.kek.counter = se.kek.counter + 1] \in ElementType
      BY <1>1, <3>1, <3>2 DEF Opens, ElementType
    <3>3. SEType'
      BY <2>13, <3>1, <3>2, StoreType, SEUnchanged DEF WriteWrapped, Command, SEType
    <3> QED
      BY <1>1, <1>2, <1>3, <2>1, <2>13, <3>3, StepType DEF WriteWrapped, Command
  <2>14. CASE StopKEKSession
    <3>1. [se EXCEPT !.kek = ClosedSession] \in ElementType
      BY <1>1, <1>4 DEF ElementType, ClosedSession
    <3>2. SEType'
      BY <2>14, <3>1, SEUnchanged DEF StopKEKSession, Command, SEType, TypeOK
    <3> QED
      BY <1>1, <1>3, <2>1, <2>14, <3>2, StepType DEF StopKEKSession, Command, Steps
  <2>15. CASE CMACInit
    BY <1>1, <1>3, <2>1, <2>15, StepType, SEUnchanged DEF CMACInit, Compute, Steps
  <2>16. CASE CMACFinish
    BY <1>1, <1>3, <2>1, <2>16, StepType, SEUnchanged DEF CMACFinish, Compute, Steps
  <2>17. CASE ReturnSuccess
    <3>1. SEType'
      BY <1>1, <2>17 DEF ReturnSuccess, SEType, TypeOK, ElementType
    <3> QED
      BY <1>1, <1>3, <2>1, <2>17, <3>1, StepType DEF ReturnSuccess, Steps
  <2> QED
    BY <1>6, <2>2, <2>3, <2>4, <2>5, <2>6, <2>7, <2>8, <2>9, <2>10, <2>11, <2>12, <2>13,
       <2>14, <2>15, <2>16, <2>17 DEF Step
<1>7. CASE Confirmation
  <2>1. UNCHANGED <<call, list>>
    BY <1>7 DEF Confirmation
  <2>2. CASE CMACAppend
    <3> DEFINE i == host.appended + 1
               h == [host EXCEPT !.appended = i]
               next == IF LastEntry(i) THEN "cmac_finish" ELSE "cmac_append"
    <3>1. host.appended < call.count
      BY <2>2 DEF CMACAppend, CallInv, ListInv
    <3>2. i \in 0..MaxInfos /\ i <= call.count
      BY <1>1, <3>1, InfosAssumption DEF HostType
    <3>3. h \in HostType /\ h.appended = i
      BY <1>1, <3>2 DEF HostType
    <3>4. infos' \in [Infos -> BOOLEAN]
      BY <2>2, SwappedType DEF CMACAppend, TypeOK
    <3>5. UNCHANGED seVars /\ ((host' = h /\ Goto(next)) \/ Return("PLATFORM_ERROR"))
      BY <2>2 DEF CMACAppend, Compute
    <3>6. next \in Steps /\ SEType'
      BY <3>5, SEUnchanged DEF Steps
    <3> HIDE DEF h, i, next
    <3> QED
      BY <1>1, <1>3, <2>1, <3>2, <3>3, <3>4, <3>5, <3>6, ConfirmType
  <2>3. CASE Confirm
    <3>1. infos' \in [Infos -> BOOLEAN]
      BY <2>3, SwappedType DEF Confirm, AfterTransfer, TypeOK
    <3>2. host.okm \in OptKey /\ [se EXCEPT !.pending = None] \in ElementType
      BY <1>1, <1>4 DEF HostType, ElementType
    <3>3. SEType'
      BY <2>3, <3>2, StoreType, SEUnchanged DEF Confirm, Command, SEType
    <3> QED
      BY <1>1, <1>3, <2>1, <2>3, <3>1, <3>3, ConfirmType DEF Confirm, Command, Steps
  <2> QED
    BY <1>7, <2>2, <2>3 DEF Confirmation
<1>8. CASE HostRestart
  <2>1. SEType'
    BY <1>8, SEUnchanged DEF HostRestart
  <2> QED
    BY <1>1, <1>8, <2>1, EmptyTypes, InfosAssumption
       DEF HostRestart, TypeOK, HostType, ElementType, SEType, Codes, Steps
<1>9. CASE SecureElementReset
  BY <1>9, EmptyTypes DEF SecureElementReset, hostVars, TypeOK, ElementType
<1>10. CASE UNCHANGED vars
  BY <1>10 DEF vars, hostVars, seVars, TypeOK
<1> QED
  BY <1>5, <1>6, <1>7, <1>8, <1>9, <1>10 DEF Next

(***************************************************************************)
(* The running call                                                        *)
(***************************************************************************)

LEMMA SwapNone ==
    ASSUME NEW l \in [Infos -> BOOLEAN]
    PROVE  Swapped(l, 1..0) = l
<1>1. \A i \in Infos : i \notin 1..0
  BY InfosAssumption DEF Infos
<1> QED
  BY <1>1 DEF Swapped

LEMMA SwapOneMore ==
    ASSUME NEW l \in [Infos -> BOOLEAN], NEW n \in Nat
    PROVE  Swapped(Swapped(l, 1..n), {n + 1}) = Swapped(l, 1..(n + 1))
<1>1. ASSUME NEW i \in Infos
      PROVE  (i \in 1..(n + 1)) <=> (i \in 1..n \/ i = n + 1)
  BY InfosAssumption DEF Infos
<1>2. n + 1 \notin 1..n
  OBVIOUS
<1> QED
  BY <1>1, <1>2 DEF Swapped

LEMMA SwapBack ==
    ASSUME NEW l \in [Infos -> BOOLEAN], NEW S
    PROVE  /\ Swapped(Swapped(l, S), S) = l
           /\ \A i \in Infos : i \in S => Swapped(l, S)[i] # l[i]
BY DEF Swapped

LEMMA CallInit == TypeOK /\ Init => CallInv
<1> SUFFICES ASSUME TypeOK, Init PROVE CallInv
  OBVIOUS
<1> QED
  BY DEF Init, CallInv, RouteInv, ExchangeInv, StoredInv, ListInv, EmptyHost

\* Nothing is left of a call that has returned.
LEMMA IdleInv == pc' = "idle" /\ host' = EmptyHost => CallInv'
BY DEF CallInv, RouteInv, ExchangeInv, StoredInv, ListInv, EmptyHost

LEMMA ReturnInv == ASSUME NEW code, Return(code) PROVE CallInv'
BY IdleInv DEF Return

\* A step of a call other than the confirmation: what it has to show when it goes on.
LEMMA StepInv ==
    ASSUME TypeOK, CallInv, UNCHANGED <<call, infos, list>>,
           pc \notin {"idle", "cmac_append", "cmac_finish", "confirm", "done"},
           pc' \notin {"cmac_finish", "confirm", "done"},
           pc' = "cmac_append" => call.count # 0,
           host'.appended = host.appended
    PROVE  ListInv'
BY CallFields DEF TypeOK, CallInv, ListInv

LEMMA CallStep == TypeOK /\ CallInv /\ [Next]_vars => CallInv'
<1> SUFFICES ASSUME TypeOK, CallInv, [Next]_vars PROVE CallInv'
  OBVIOUS
<1>1. /\ host \in HostType /\ se \in ElementType /\ host.appended <= call.count
      /\ call.kind \in {"plain", "wrapped", "establish"} /\ call.slot \in Slots
      /\ call.value \in OptKey /\ call.count \in 0..MaxInfos
  BY CallFields DEF TypeOK, HostType, ElementType
<1>2. RouteInv /\ ExchangeInv /\ StoredInv /\ ListInv
  BY DEF CallInv
<1> USE DEF CallInv
<1>3. CASE StartCall
  <2>1. /\ call'.kind \in {"plain", "wrapped", "establish"} /\ host' = EmptyHost
        /\ infos' = list' /\ infos' \in [Infos -> BOOLEAN]
    BY <1>3, CallFields, EmptyTypes DEF StartCall, TypeOK
  <2>2. infos' = Swapped(list', 1..0)
    BY <2>1, SwapNone
  <2>3. pc' = First(call')
    BY <1>3 DEF StartCall
  <2> QED
    BY <2>1, <2>2, <2>3
       DEF First, RouteInv, ExchangeInv, StoredInv, ListInv, EmptyHost, EarlyDerivation,
           EstablishesSym
<1>4. CASE Step
  <2>1. UNCHANGED <<call, infos, list>>
    BY <1>4 DEF Step
  <2>2. CASE QuerySlot
    <3>1. CASE pc' = "host_keygen" /\ host' = host /\ UNCHANGED seVars
      <4>1. ListInv'
        BY <2>1, <2>2, <3>1, StepInv DEF QuerySlot
      <4> QED
        BY <1>2, <2>1, <2>2, <3>1, <4>1
           DEF QuerySlot, RouteInv, ExchangeInv, StoredInv, EstablishesSym, EarlyDerivation
    <3> QED
      BY <2>2, <3>1, ReturnInv DEF QuerySlot, Command, Goto
  <2>3. CASE HostKeygen
    <3>1. CASE pc' = "se_keygen" /\ host' = host /\ UNCHANGED seVars
      <4>1. ListInv'
        BY <2>1, <2>3, <3>1, StepInv DEF HostKeygen
      <4> QED
        BY <1>2, <2>1, <2>3, <3>1, <4>1
           DEF HostKeygen, RouteInv, ExchangeInv, StoredInv, EstablishesSym, EarlyDerivation
    <3> QED
      BY <2>3, <3>1, ReturnInv DEF HostKeygen, Compute, Goto
  <2>4. CASE SEKeygen
    <3>1. ASSUME NEW p \in Pairs, se' = [se EXCEPT !.pair = p], pc' = AfterSEKeygen,
                 host' = [host EXCEPT !.pub = p]
          PROVE  CallInv'
      <4>1. /\ se'.pair = p /\ host'.pub = p /\ host'.appended = host.appended
        BY <1>1, <3>1 DEF HostType, ElementType
      <4>2. pc = "se_keygen" /\ call.kind # "plain"
        BY <1>2, <2>4 DEF SEKeygen, RouteInv
      <4>3. \/ pc' \in {"sign", "agree"} /\ ~EarlyDerivation
            \/ pc' = "ecdh" /\ EarlyDerivation
        BY <3>1 DEF AfterSEKeygen, SignOrAgree
      <4>4. ListInv'
        BY <2>1, <4>1, <4>2, <4>3, StepInv
      <4> QED
        BY <1>1, <2>1, <4>1, <4>2, <4>3, <4>4
           DEF RouteInv, ExchangeInv, StoredInv, EstablishesSym, EarlyDerivation
    <3> QED
      BY <2>4, <3>1, ReturnInv DEF SEKeygen, Command, Goto
  <2>5. CASE Sign
    <3>1. CASE pc' = "agree" /\ host' = host /\ UNCHANGED seVars
      <4>1. ListInv'
        BY <2>1, <2>5, <3>1, StepInv DEF Sign
      <4> QED
        BY <1>1, <1>2, <2>1, <2>5, <3>1, <4>1
           DEF Sign, seVars, RouteInv, ExchangeInv, StoredInv, EstablishesSym, EarlyDerivation
    <3> QED
      BY <2>5, <3>1, ReturnInv DEF Sign, Compute, Goto
  <2>6. CASE ECDH
    <3>1. CASE pc' = "hkdf" /\ host' = [host EXCEPT !.secret = host.pub] /\ UNCHANGED seVars
      <4>1. /\ host'.secret = host'.pub /\ host'.pub = host.pub
            /\ host'.appended = host.appended /\ host'.okm = host.okm
        BY <1>1, <3>1 DEF HostType
      <4>2. ListInv'
        BY <2>1, <2>6, <3>1, <4>1, StepInv DEF ECDH
      <4> QED
        BY <1>1, <1>2, <2>1, <2>6, <3>1, <4>1, <4>2
           DEF ECDH, seVars, RouteInv, ExchangeInv, StoredInv, EstablishesSym, EarlyDerivation
    <3> QED
      BY <2>6, <3>1, ReturnInv DEF ECDH, Compute, Goto
  <2>7. CASE HKDF
    <3> DEFINE h == [host EXCEPT !.okm = host.secret, !.counter = 0]
    <3>1. CASE pc' = AfterHKDF /\ host' = h /\ UNCHANGED seVars
      <4>1. /\ host'.okm = host.pub /\ host'.counter = 0 /\ host'.pub = host.pub
            /\ host'.appended = host.appended
        BY <1>1, <2>7, <3>1 DEF HKDF, HostType, ExchangeInv
      <4>2. \/ EarlyDerivation /\ pc' \in {"sign", "agree"}
            \/ ~EarlyDerivation /\ call.kind = "wrapped" /\ pc' = "wrap"
            \/ EstablishesSym /\ ~EarlyDerivation /\ pc' = "cmac_init"
        BY <1>1, <1>2, <2>7, <3>1
           DEF HKDF, AfterHKDF, SignOrAgree, EarlyDerivation, EstablishesSym, RouteInv, Slots
      <4>3. ListInv'
        BY <2>1, <2>7, <4>1, <4>2, StepInv DEF HKDF
      <4> QED
        BY <1>1, <1>2, <2>1, <2>7, <3>1, <4>1, <4>2, <4>3
           DEF HKDF, seVars, RouteInv, ExchangeInv, StoredInv, EstablishesSym, EarlyDerivation
    <3> QED
      BY <2>7, <3>1, ReturnInv DEF HKDF, Compute, Goto
  <2>8. CASE StartKEKSession
    <3>1. CASE /\ pc' = "ecdh" /\ host' = host /\ se.pair # None
               /\ se' = [se EXCEPT !.kek = [base |-> se.pair, counter |-> 0]]
      <4>1. se.pair = host.pub
        BY <1>2, <2>8, <3>1 DEF StartKEKSession, ExchangeInv
      <4>2. se'.kek = [base |-> host.pub, counter |-> 0]
        BY <1>1, <3>1, <4>1 DEF ElementType
      <4>3. ListInv'
        BY <2>1, <2>8, <3>1, StepInv DEF StartKEKSession
      <4> QED
        BY <1>1, <1>2, <2>1, <2>8, <3>1, <4>2, <4>3
           DEF StartKEKSession, RouteInv, ExchangeInv, StoredInv, EstablishesSym, EarlyDerivation
    <3> QED
      BY <2>8, <3>1, ReturnInv DEF StartKEKSession, Command, Goto, AfterAgree, EarlyDerivation
  <2>9. CASE EstablishHostKey
    <3>1. CASE /\ pc' = "done" /\ host' = host /\ se.pair # None
               /\ Store(se.pair) /\ UNCHANGED se
      <4>1. se.pair = host.okm /\ EarlyDerivation
        BY <1>2, <2>9, <3>1 DEF EstablishHostKey, ExchangeInv
      <4>2. StoredInv'
        BY <1>1, <2>1, <3>1, <4>1 DEF Store, StoredInv, TypeOK, EarlyDerivation
      <4>3. ListInv'
        <5>1. infos = Swapped(list, 1..0) /\ list \in [Infos -> BOOLEAN]
          BY <1>2, <2>9 DEF EstablishHostKey, ListInv, TypeOK
        <5>2. infos = list
          BY <5>1, SwapNone
        <5> QED
          BY <2>1, <3>1, <5>2 DEF ListInv
      <4> QED
        BY <1>1, <1>2, <2>1, <2>9, <3>1, <4>1, <4>2, <4>3
           DEF EstablishHostKey, RouteInv, ExchangeInv, EstablishesSym, EarlyDerivation
    <3> QED
      BY <2>9, <3>1, ReturnInv DEF EstablishHostKey, Command, Goto, AfterAgree
  <2>10. CASE EstablishSymmetricKey
    <3>1. CASE /\ pc' = "ecdh" /\ host' = host /\ se.pair # None
               /\ se' = [se EXCEPT !.pending = se.pair]
      <4>1. se.pair = host.pub /\ EstablishesSym
        BY <1>2, <2>10, <3>1 DEF EstablishSymmetricKey, ExchangeInv, EstablishesSym
      <4>2. se'.pending = host.pub
        BY <1>1, <3>1, <4>1 DEF ElementType
      <4>3. ListInv'
        BY <2>1, <2>10, <3>1, StepInv DEF EstablishSymmetricKey
      <4> QED
        BY <1>1, <1>2, <2>1, <2>10, <3>1, <4>1, <4>2, <4>3
           DEF EstablishSymmetricKey, RouteInv, ExchangeInv, StoredInv, EstablishesSym,
               EarlyDerivation
    <3> QED
      BY <2>10, <3>1, ReturnInv
         DEF EstablishSymmetricKey, Command, Goto, AfterAgree, EarlyDerivation
  <2>11. CASE Wrap
    <3> DEFINE e == [base |-> host.okm, counter |-> WorkingCounter, value |-> call.value]
               h == [host EXCEPT !.counter = host.counter + 1, !.envelope = e]
    <3>1. CASE pc' = "write" /\ host' = h /\ UNCHANGED seVars
      <4>1. host.okm = host.pub /\ host.counter = 0 /\ call.kind = "wrapped"
        <5>1. pc = "wrap"
          BY <2>11 DEF Wrap
        <5> HIDE DEF e, h
        <5> QED
          BY <1>2, <5>1 DEF RouteInv, ExchangeInv
      <4>2. e = [base |-> host.pub, counter |-> 1, value |-> call.value]
        BY <4>1 DEF WorkingCounter
      <4>3. h.envelope = e /\ h.pub = host.pub /\ h.appended = host.appended
        BY <1>1 DEF HostType
      <4>4. /\ host'.envelope = [base |-> host'.pub, counter |-> 1, value |-> call.value]
            /\ host'.pub = host.pub /\ host'.appended = host.appended
        BY <3>1, <4>2, <4>3
      <4>5. ListInv'
        BY <2>1, <2>11, <3>1, <4>4, StepInv DEF Wrap
      <4> HIDE DEF h, e
      <4> QED
        BY <1>1, <1>2, <2>1, <2>11, <3>1, <4>1, <4>4, <4>5
           DEF Wrap, seVars, RouteInv, ExchangeInv, StoredInv, EstablishesSym, EarlyDerivation
    <3> QED
      BY <2>11, <3>1, ReturnInv DEF Wrap, Compute, Goto
  <2>12. CASE WritePlain
    <3>1. CASE pc' = "done" /\ host' = host /\ Store(call.value) /\ UNCHANGED se
      <4>1. StoredInv'
        BY <1>1, <2>1, <2>12, <3>1 DEF WritePlain, Store, StoredInv, TypeOK
      <4>2. ListInv'
        <5>1. infos = Swapped(list, 1..0) /\ list \in [Infos -> BOOLEAN]
          BY <1>2, <2>12 DEF WritePlain, ListInv, TypeOK
        <5>2. infos = list
          BY <5>1, SwapNone
        <5> QED
          BY <2>1, <3>1, <5>2 DEF ListInv
      <4> QED
        BY <1>1, <1>2, <2>1, <2>12, <3>1, <4>1, <4>2
           DEF WritePlain, RouteInv, ExchangeInv, EstablishesSym, EarlyDerivation
    <3> QED
      BY <2>12, <3>1, ReturnInv DEF WritePlain, Command, Goto, AfterWrite
  <2>13. CASE WriteWrapped
    <3>1. CASE pc' = "stop" /\ host' = host /\ Store(host.envelope.value)
      <4>1. host.envelope.value = call.value
        BY <1>2, <2>13 DEF WriteWrapped, ExchangeInv
      <4>2. StoredInv'
        BY <1>1, <2>1, <2>13, <3>1, <4>1 DEF WriteWrapped, Store, StoredInv, TypeOK
      <4>3. ListInv'
        BY <2>1, <2>13, <3>1, StepInv DEF WriteWrapped
      <4> QED
        BY <1>1, <1>2, <2>1, <2>13, <3>1, <4>2, <4>3
           DEF WriteWrapped, RouteInv, ExchangeInv, EstablishesSym, EarlyDerivation
    <3> QED
      BY <2>13, <3>1, ReturnInv DEF WriteWrapped, Command, Goto, AfterWrite
  <2>14. CASE StopKEKSession
    <3>1. CASE pc' = "done" /\ host' = host /\ UNCHANGED <<se_key, unreported>>
      <4>1. call.kind = "wrapped"
        BY <1>2, <2>14 DEF StopKEKSession, RouteInv
      <4>2. ListInv'
        <5>1. infos = Swapped(list, 1..0) /\ list \in [Infos -> BOOLEAN]
          BY <1>2, <2>14 DEF StopKEKSession, ListInv, TypeOK
        <5>2. infos = list
          BY <5>1, SwapNone
        <5> QED
          BY <2>1, <3>1, <5>2 DEF ListInv
      <4> QED
        BY <1>1, <1>2, <2>1, <2>14, <3>1, <4>1, <4>2
           DEF StopKEKSession, RouteInv, ExchangeInv, StoredInv, EstablishesSym, EarlyDerivation
    <3> QED
      BY <2>14, <3>1, ReturnInv DEF StopKEKSession, Command, Goto
  <2>15. CASE CMACInit
    <3>1. CASE pc' = "cmac_append" /\ host' = host /\ UNCHANGED seVars /\ call.count # 0
      <4>1. ListInv'
        BY <2>1, <2>15, <3>1, StepInv DEF CMACInit
      <4> QED
        BY <1>1, <1>2, <2>1, <2>15, <3>1, <4>1
           DEF CMACInit, seVars, RouteInv, ExchangeInv, StoredInv, EstablishesSym, EarlyDerivation
    <3> QED
      BY <2>15, <3>1, ReturnInv DEF CMACInit, Compute, Goto
  <2>16. CASE CMACFinish
    <3>1. CASE pc' = "confirm" /\ host' = host /\ UNCHANGED seVars
      BY <1>1, <1>2, <2>1, <2>16, <3>1
         DEF CMACFinish, seVars, RouteInv, ExchangeInv, StoredInv, ListInv, EstablishesSym,
             EarlyDerivation
    <3> QED
      BY <2>16, <3>1, ReturnInv DEF CMACFinish, Compute, Goto
  <2>17. CASE ReturnSuccess
    BY <2>17, ReturnInv DEF ReturnSuccess
  <2> QED
    BY <1>4, <2>2, <2>3, <2>4, <2>5, <2>6, <2>7, <2>8, <2>9, <2>10, <2>11, <2>12, <2>13,
       <2>14, <2>15, <2>16, <2>17 DEF Step
<1>5. CASE Confirmation
  <2>1. UNCHANGED <<call, list>>
    BY <1>5 DEF Confirmation
  <2>2. EstablishesSym /\ ~EarlyDerivation
    BY <1>2, <1>5 DEF Confirmation, CMACAppend, Confirm, RouteInv, EarlyDerivation, EstablishesSym
  <2>3. infos = Swapped(list, 1..host.appended) /\ list \in [Infos -> BOOLEAN]
    BY <1>2, <1>5 DEF Confirmation, CMACAppend, Confirm, ListInv, TypeOK
  <2>4. CASE CMACAppend
    <3> DEFINE i == host.appended + 1
               h == [host EXCEPT !.appended = i]
    <3>1. CASE /\ pc' = (IF LastEntry(i) THEN "cmac_finish" ELSE "cmac_append")
               /\ host' = h /\ UNCHANGED seVars
      <4>1. host'.appended = i /\ host'.okm = host.okm /\ host'.pub = host.pub
        BY <1>1, <3>1 DEF HostType
      <4>2. host.appended \in Nat /\ host.appended < call.count
        BY <1>1, <1>2, <2>4, InfosAssumption DEF CMACAppend, ListInv, HostType
      <4>3. infos' = Swapped(list, 1..i)
        BY <2>3, <2>4, <4>2, SwapOneMore DEF CMACAppend
      <4>4. IF i = call.count THEN pc' = "cmac_finish" ELSE pc' = "cmac_append" /\ i < call.count
        BY <1>1, <3>1, <4>2 DEF LastEntry
      <4>5. ListInv'
        BY <2>1, <4>1, <4>3, <4>4 DEF ListInv
      <4> QED
        BY <1>1, <1>2, <2>1, <2>2, <2>4, <3>1, <4>1, <4>4, <4>5
           DEF CMACAppend, seVars, RouteInv, ExchangeInv, StoredInv, EstablishesSym,
               EarlyDerivation
    <3> QED
      BY <2>4, <3>1, ReturnInv DEF CMACAppend, Compute, Goto
  <2>5. CASE Confirm
    <3>1. CASE pc' = "done" /\ host' = host /\ Store(host.okm)
      <4>1. StoredInv'
        BY <1>1, <2>1, <2>2, <3>1 DEF Store, StoredInv, TypeOK, EstablishesSym
      <4>2. host.appended = call.count
        BY <1>2, <2>5 DEF Confirm, ListInv
      <4>3. infos' = list
        BY <2>3, <2>5, <4>2, SwapBack DEF Confirm, AfterTransfer
      <4>4. ListInv'
        BY <2>1, <3>1, <4>3 DEF ListInv
      <4> QED
        BY <2>1, <2>2, <3>1, <4>1, <4>4
           DEF RouteInv, ExchangeInv, EstablishesSym, EarlyDerivation
    <3> QED
      BY <2>5, <3>1, ReturnInv DEF Confirm, Command, Goto
  <2> QED
    BY <1>5, <2>4, <2>5 DEF Confirmation
<1>6. CASE HostRestart
  BY <1>6, IdleInv DEF HostRestart
<1>7. CASE SecureElementReset
  <2>1. UNCHANGED <<call, pc, host, infos, list, se_key, unreported>>
    BY <1>7 DEF SecureElementReset, hostVars
  <2>2. se'.pair = None /\ se'.pending = None /\ se'.kek = ClosedSession
    BY <1>7 DEF SecureElementReset, ResetElement
  <2> QED
    BY <1>2, <2>1, <2>2
       DEF RouteInv, ExchangeInv, StoredInv, ListInv, EstablishesSym, EarlyDerivation
<1>8. CASE UNCHANGED vars
  BY <1>2, <1>8
     DEF vars, hostVars, seVars, RouteInv, ExchangeInv, StoredInv, ListInv, EstablishesSym,
         EarlyDerivation
<1> QED
  BY <1>3, <1>4, <1>5, <1>6, <1>7, <1>8 DEF Next

(***************************************************************************)
(* Keys                                                                    *)
(***************************************************************************)

\* What a step may do to the keys before the call succeeds: write the slot of
\* the call, which is unreported from then on.
Unreported(key) == caller_key' = caller_key
                     /\ (UNCHANGED <<se_key, unreported>> \/ (Store(key) /\ call' = call))

LEMMA UnreportedKeepsKeys ==
    ASSUME TypeOK, KeysKnown, NEW key, Unreported(key)
    PROVE  KeysKnown'
<1>1. call.slot \in Slots /\ se_key \in [Slots -> OptKey] /\ unreported \subseteq Slots
  BY CallFields DEF TypeOK
<1> QED
  BY <1>1 DEF KeysKnown, Unreported, Store

LEMMA FailureKeepsCaller ==
    ASSUME NEW code, code # "STSE_OK", Return(code)
    PROVE  caller_key' = caller_key
BY DEF Return, CallerKeyAfter

LEMMA KeysStep == TypeOK /\ CallInv /\ KeysKnown /\ [Next]_vars => KeysKnown'
<1> SUFFICES ASSUME TypeOK, CallInv, KeysKnown, [Next]_vars PROVE KeysKnown'
  OBVIOUS
<1>1. CASE ReturnSuccess /\ UNCHANGED call
  <2>1. /\ call.slot \in Slots /\ caller_key \in [Slots -> OptKey]
        /\ se_key[call.slot] = IF call.kind = "establish" THEN host.okm ELSE call.value
    BY <1>1, CallFields DEF ReturnSuccess, CallInv, StoredInv, TypeOK
  <2>2. caller_key' = [caller_key EXCEPT ![call.slot] = se_key[call.slot]]
    BY <1>1, <2>1 DEF ReturnSuccess, Return, CallerKeyAfter
  <2>3. UNCHANGED se_key /\ unreported' = unreported \ {call.slot}
    BY <1>1 DEF ReturnSuccess
  <2> QED
    BY <2>1, <2>2, <2>3 DEF KeysKnown
<1>2. CASE Step /\ ~ReturnSuccess
  <2>1. call' = call
    BY <1>2 DEF Step
  <2>2. CASE QuerySlot \/ HostKeygen \/ SEKeygen \/ Sign \/ ECDH \/ HKDF \/ Wrap \/ CMACInit
               \/ CMACFinish \/ StopKEKSession \/ StartKEKSession \/ EstablishSymmetricKey
    <3>1. caller_key' = caller_key /\ UNCHANGED <<se_key, unreported>>
      BY <2>2, FailureKeepsCaller
         DEF QuerySlot, HostKeygen, SEKeygen, Sign, ECDH, HKDF, Wrap, CMACInit, CMACFinish,
             StopKEKSession, StartKEKSession, EstablishSymmetricKey, Command, Compute, Goto,
             seVars
    <3> QED
      BY <3>1, UnreportedKeepsKeys DEF Unreported
  <2>3. CASE EstablishHostKey
    BY <2>1, <2>3, FailureKeepsCaller, UnreportedKeepsKeys
       DEF EstablishHostKey, Command, Goto, seVars, Unreported
  <2>4. CASE WritePlain
    BY <2>1, <2>4, FailureKeepsCaller, UnreportedKeepsKeys
       DEF WritePlain, Command, Goto, seVars, Unreported
  <2>5. CASE WriteWrapped
    BY <2>1, <2>5, FailureKeepsCaller, UnreportedKeepsKeys
       DEF WriteWrapped, Command, Goto, seVars, Unreported
  <2> QED
    BY <1>2, <2>2, <2>3, <2>4, <2>5 DEF Step
<1>3. CASE Confirmation
  <2>1. call' = call
    BY <1>3 DEF Confirmation
  <2>2. CASE CMACAppend
    BY <2>2, FailureKeepsCaller, UnreportedKeepsKeys
       DEF CMACAppend, Compute, Goto, seVars, Unreported
  <2>3. CASE Confirm
    BY <2>1, <2>3, FailureKeepsCaller, UnreportedKeepsKeys
       DEF Confirm, Command, Goto, seVars, Unreported
  <2> QED
    BY <1>3, <2>2, <2>3 DEF Confirmation
<1>4. CASE StartCall \/ HostRestart \/ SecureElementReset \/ UNCHANGED vars
  BY <1>4 DEF StartCall, HostRestart, SecureElementReset, vars, hostVars, seVars, KeysKnown
<1> QED
  BY <1>1, <1>2, <1>3, <1>4 DEF Next, Step

(***************************************************************************)
(* The session and the list                                                *)
(***************************************************************************)

LEMMA StoppedStep == TypeOK /\ CallInv /\ SessionStopped /\ [Next]_vars => SessionStopped'
<1> SUFFICES ASSUME TypeOK, CallInv, SessionStopped, [Next]_vars,
                    pc' = "done", call'.kind = "wrapped"
             PROVE  se'.kek = ClosedSession
  BY DEF SessionStopped
<1>1. se \in ElementType /\ RouteInv
  BY DEF TypeOK, ElementType, CallInv
<1>2. ASSUME NEW code, Return(code) PROVE FALSE
  BY <1>2 DEF Return
<1>3. CASE Step
  <2>1. call' = call /\ call.kind = "wrapped"
    BY <1>3 DEF Step
  <2>2. CASE StopKEKSession
    BY <1>1, <1>2, <2>2 DEF StopKEKSession, Command, ElementType
  <2>3. CASE ~StopKEKSession
    <3>1. AfterWrite = "stop" /\ AfterAgree = "ecdh" /\ ~EarlyDerivation
          /\ AfterHKDF = "wrap" /\ AfterSEKeygen \in {"sign", "agree"}
      BY <2>1 DEF AfterWrite, AfterAgree, AfterHKDF, AfterSEKeygen, SignOrAgree, EarlyDerivation
    <3> QED
      BY <1>1, <1>2, <1>3, <2>1, <2>3, <3>1
         DEF Step, QuerySlot, HostKeygen, SEKeygen, Sign, ECDH, HKDF, StartKEKSession,
             EstablishHostKey, EstablishSymmetricKey, Wrap, WritePlain, WriteWrapped, CMACInit,
             CMACFinish, ReturnSuccess, Command, Compute, Goto
  <2> QED
    BY <2>2, <2>3
<1>4. CASE Confirmation
  BY <1>1, <1>4 DEF Confirmation, CMACAppend, Confirm, RouteInv, EstablishesSym
<1>5. CASE StartCall
  BY <1>5, CallFields DEF StartCall, First
<1>6. CASE SecureElementReset
  BY <1>6 DEF SecureElementReset, ResetElement
<1>7. CASE HostRestart
  BY <1>7 DEF HostRestart
<1>8. CASE UNCHANGED vars
  BY <1>8 DEF vars, hostVars, seVars, SessionStopped
<1> QED
  BY <1>3, <1>4, <1>5, <1>6, <1>7, <1>8 DEF Next

LEMMA ListStep == TypeOK /\ CallInv /\ ListHandedBack /\ [Next]_vars => ListHandedBack'
<1> SUFFICES ASSUME TypeOK, CallInv, ListHandedBack, [Next]_vars,
                    pc' = "idle", ret' \notin {"none", "PLATFORM_ERROR"}
             PROVE  infos' = list'
  BY DEF ListHandedBack
<1>1. ListInv /\ list \in [Infos -> BOOLEAN] /\ infos \in [Infos -> BOOLEAN]
  BY DEF TypeOK, CallInv
<1>2. infos = list \/ pc \in {"idle", "cmac_append", "cmac_finish", "confirm"}
  BY <1>1, SwapNone DEF ListInv
<1>3. CASE Step
  <2>1. infos' = infos /\ list' = list
    BY <1>3 DEF Step
  <2>2. pc # "idle"
    BY <1>3 DEF Step, QuerySlot, HostKeygen, SEKeygen, Sign, ECDH, HKDF, StartKEKSession,
                EstablishHostKey, EstablishSymmetricKey, Wrap, WritePlain, WriteWrapped,
                StopKEKSession, CMACInit, CMACFinish, ReturnSuccess
  <2>3. pc \notin {"cmac_append", "confirm"}
    BY <1>3 DEF Step, QuerySlot, HostKeygen, SEKeygen, Sign, ECDH, HKDF, StartKEKSession,
                EstablishHostKey, EstablishSymmetricKey, Wrap, WritePlain, WriteWrapped,
                StopKEKSession, CMACInit, CMACFinish, ReturnSuccess
  <2>4. pc # "cmac_finish"
    <3>1. ASSUME pc = "cmac_finish" PROVE CMACFinish
      BY <1>3, <3>1
         DEF Step, QuerySlot, HostKeygen, SEKeygen, Sign, ECDH, HKDF, StartKEKSession,
             EstablishHostKey, EstablishSymmetricKey, Wrap, WritePlain, WriteWrapped,
             StopKEKSession, CMACInit, ReturnSuccess
    <3> QED
      BY <3>1 DEF CMACFinish, Compute, Goto, Return
  <2> QED
    BY <1>2, <2>1, <2>2, <2>3, <2>4
<1>4. CASE Confirmation
  <2>1. CASE CMACAppend
    BY <2>1 DEF CMACAppend, Compute, Goto, Return, LastEntry
  <2>2. CASE Confirm
    BY <1>1, <1>4, <2>2, SwapBack DEF Confirmation, Confirm, AfterTransfer, ListInv
  <2> QED
    BY <1>4, <2>1, <2>2 DEF Confirmation
<1>5. CASE StartCall \/ HostRestart
  BY <1>5 DEF StartCall, HostRestart
<1>6. CASE SecureElementReset \/ UNCHANGED vars
  BY <1>6 DEF SecureElementReset, vars, hostVars, ListHandedBack
<1> QED
  BY <1>3, <1>4, <1>5, <1>6 DEF Next

(***************************************************************************)
(* The theorems                                                            *)
(***************************************************************************)

IInv == TypeOK /\ CallInv /\ KeysKnown /\ SessionStopped /\ ListHandedBack

\* The strengthening that is inductive: the invariants and what each step of a
\* call relies on.
THEOREM Inductive == Spec => []IInv
<1>1. Init => IInv
  BY TypeInit, CallInit DEF Init, IInv, KeysKnown, SessionStopped, ListHandedBack
<1>2. IInv /\ [Next]_vars => IInv'
  BY TypeStep, CallStep, KeysStep, StoppedStep, ListStep DEF IInv
<1> QED
  BY <1>1, <1>2, PTL DEF Spec

\* Every reachable state has the types of the code, at most one working KEK is
\* derived in a session, and the MAC takes no entry past the caller's count.
THEOREM TypeCorrect == Spec => []TypeOK
<1>1. IInv => TypeOK
  BY DEF IInv
<1> QED
  BY <1>1, Inductive, PTL

\* Whatever is lost, refused or restarted, the caller knows the key in every slot
\* that no unsuccessful call has written.
THEOREM KeysAreKnown == Spec => []KeysKnown
<1>1. IInv => KeysKnown
  BY DEF IInv
<1> QED
  BY <1>1, Inductive, PTL

\* The secure element can open every envelope it is sent, unless it was reset.
THEOREM EnvelopeAlwaysOpens == Spec => []EnvelopeOpens
<1>1. IInv => EnvelopeOpens
  <2> SUFFICES ASSUME IInv, pc = "write", call.kind = "wrapped", se.kek.base # None
               PROVE  Opens(se.kek, host.envelope)
    BY DEF EnvelopeOpens
  <2>1. /\ se.kek \in {ClosedSession, [base |-> host.pub, counter |-> 0]}
        /\ host.envelope = [base |-> host.pub, counter |-> 1, value |-> call.value]
    BY DEF IInv, CallInv, ExchangeInv
  <2>2. se.kek = [base |-> host.pub, counter |-> 0]
    BY <2>1 DEF ClosedSession
  <2> QED
    BY <2>1, <2>2 DEF Opens
<1> QED
  BY <1>1, Inductive, PTL

\* A confirmation is under the key that the secure element keeps in RAM, over
\* lengths that were swapped exactly once.
THEOREM ConfirmationAlwaysAgrees == Spec => []ConfirmationAgrees
<1>1. IInv => ConfirmationAgrees
  <2> SUFFICES ASSUME IInv, pc = "confirm"
               PROVE  /\ se.pending \in {None, host.okm}
                      /\ \A i \in 1..call.count : infos[i] # list[i]
    BY DEF ConfirmationAgrees
  <2>1. /\ EstablishesSym /\ host.okm = host.pub /\ se.pending \in {None, host.pub}
        /\ infos = Swapped(list, 1..call.count)
    BY DEF IInv, CallInv, RouteInv, ExchangeInv, ListInv
  <2>2. list \in [Infos -> BOOLEAN] /\ 1..call.count \subseteq Infos
    BY CallFields, InfosAssumption DEF IInv, TypeOK, Infos
  <2> QED
    BY <2>1, <2>2, SwapBack
<1> QED
  BY <1>1, Inductive, PTL

\* No call that wraps a key succeeds while a volatile KEK session is open.
THEOREM SessionIsStopped == Spec => []SessionStopped
<1>1. IInv => SessionStopped
  BY DEF IInv
<1> QED
  BY <1>1, Inductive, PTL

\* However many entries the caller counts, the list comes back as it was from
\* every call in which the platform did not fail.
THEOREM ListIsHandedBack == Spec => []ListHandedBack
<1>1. IInv => ListHandedBack
  BY DEF IInv
<1> QED
  BY <1>1, Inductive, PTL

=============================================================================
