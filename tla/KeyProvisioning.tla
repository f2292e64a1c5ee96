--------------------------- MODULE KeyProvisioning ---------------------------
(***************************************************************************)
(* How keys get into the host key slot and the symmetric key slots of an   *)
(* STSAFE-A120 (stse_symmetric_keys_management.c): written as they are,    *)
(* wrapped in a volatile KEK session, or established by a Diffie-Hellman   *)
(* exchange; the last two also with a signature of the host.               *)
(*                                                                         *)
(* A call is a sequence of steps.  Each is a computation of the platform,  *)
(* which may fail, or a command, which may be refused, may be lost, or may *)
(* be taken while its answer is lost.  At the first failure the call       *)
(* returns; what it has done in the secure element by then stays.  Host    *)
(* and secure element may restart between any two steps.                   *)
(*                                                                         *)
(* Every call generates new ephemeral keys on both sides, so the secret of *)
(* an exchange, and what is derived from it, goes by the name of the key   *)
(* pair of the secure element.                                             *)
(***************************************************************************)
EXTENDS Naturals

CONSTANTS Pairs,    \* names of ephemeral key pairs of the secure element
          Values,   \* keys the caller writes
          MaxInfos, \* bound on the length of a key information list
          None

Keys == Pairs \cup Values
Slots == {"host", "sym"}
Infos == 1..MaxInfos

ASSUME NoneAssumption == None \notin Keys
ASSUME DisjointAssumption == Pairs \cap Values = {}
ASSUME InfosAssumption == MaxInfos \in Nat \ {0}

\* The calls: an establishment of symmetric keys comes with a list of key
\* information, a write with the key.
Calls ==
    [kind : {"plain"}, slot : Slots, auth : {FALSE}, value : Values, count : {0}]
      \cup [kind : {"wrapped"}, slot : Slots, auth : BOOLEAN, value : Values, count : {0}]
      \cup [kind : {"establish"}, slot : {"host"}, auth : BOOLEAN, value : {None}, count : {0}]
      \cup [kind : {"establish"}, slot : {"sym"}, auth : BOOLEAN, value : {None},
            count : 0..MaxInfos]

VARIABLES call, pc, ret, \* the running call, or the last one
          host,          \* its stack: keys, secrets, the session context
          infos,         \* key information list: which lengths are in wire order
          list,          \* history: infos when the call began
          caller_key,    \* the keys the caller takes to be in the slots
          se,            \* volatile state of the secure element
          se_key,        \* the keys in its slots
          unreported     \* history: slots written by a call that has not succeeded

hostVars == <<host, pc, ret, caller_key>>
seVars == <<se, se_key, unreported>>
vars == <<call, hostVars, infos, list, seVars>>

Codes == {"none", "STSE_OK", "INVALID_PARAMETER", "PLATFORM_ERROR", "TRANSFER_ERROR"}

ClosedSession == [base |-> None, counter |-> 0]
NoEnvelope == [base |-> None, counter |-> 0, value |-> None]
\* The buffers of a call.  okm is what HKDF made of the secret: the base KEK,
\* the host keys, or confirmation key and symmetric keys.
EmptyHost == [pub |-> None, secret |-> None, okm |-> None, counter |-> 0,
              envelope |-> NoEnvelope, appended |-> 0]
ResetElement == [pair |-> None, kek |-> ClosedSession, pending |-> None]
HostOrder == [i \in Infos |-> FALSE]

Init == /\ call \in Calls
        /\ pc = "idle" /\ ret = "none" /\ host = EmptyHost
        /\ infos = HostOrder /\ list = HostOrder
        /\ caller_key = [s \in Slots |-> None]
        /\ se = ResetElement /\ se_key = [s \in Slots |-> None]
        /\ unreported = {}

-----------------------------------------------------------------------------
(* Control                                                                 *)

First(c) == IF c.kind = "plain" THEN "write"
            ELSE IF c.kind = "establish" /\ c.slot = "host" /\ c.auth THEN "query"
            ELSE "host_keygen"

\* The step after the running one.  Establishing host keys derives them before
\* the secure element is told the public key of the host, the other calls after.
AfterWriteNoStop == "done"
AfterWrite == IF call.kind = "wrapped" THEN "stop" ELSE "done"

EarlyDerivation == call.kind = "establish" /\ call.slot = "host"
SignOrAgree == IF call.auth THEN "sign" ELSE "agree"
AfterSEKeygenNoAgree == IF EarlyDerivation \/ ~call.auth THEN "ecdh" ELSE SignOrAgree
AfterSEKeygen == IF EarlyDerivation THEN "ecdh" ELSE SignOrAgree
AfterAgree == IF EarlyDerivation THEN "done" ELSE "ecdh"
AfterHKDF == CASE EarlyDerivation -> SignOrAgree
               [] call.kind = "wrapped" -> "wrap"
               [] OTHER -> "cmac_init"

\* What the caller knows when the call has returned code.
CallerKeyAfterAny(code) ==
    [caller_key EXCEPT ![call.slot] =
       IF call.kind = "establish" THEN host.okm ELSE call.value]
CallerKeyAfter(code) ==
    IF code = "STSE_OK"
      THEN [caller_key EXCEPT ![call.slot] =
              IF call.kind = "establish" THEN host.okm ELSE call.value]
      ELSE caller_key

Return(code) == /\ pc' = "idle" /\ ret' = code
                /\ caller_key' = CallerKeyAfter(code)
                /\ host' = EmptyHost

Goto(step) == pc' = step /\ UNCHANGED <<ret, caller_key>>

\* A computation of the platform with its result.
Compute(result, step) ==
    /\ UNCHANGED seVars
    /\ \/ host' = result /\ Goto(step)
       \/ Return("PLATFORM_ERROR")

\* A command: taken says what it does in the secure element if it is accepted.
Command(taken, result, step) ==
    \/ taken /\ host' = result /\ Goto(step)
    \/ taken /\ Return("TRANSFER_ERROR")
    \/ UNCHANGED seVars /\ Return("TRANSFER_ERROR")

Store(key) == /\ se_key' = [se_key EXCEPT ![call.slot] = key]
              /\ unreported' = unreported \cup {call.slot}

-----------------------------------------------------------------------------
(* The steps                                                               *)

\* The caller may hand over the list of an earlier call, or a new one.
StartCall ==
    /\ pc = "idle"
    /\ call' \in Calls
    /\ pc' = First(call') /\ ret' = "none" /\ host' = EmptyHost
    /\ infos' \in {infos, HostOrder} /\ list' = infos'
    /\ UNCHANGED <<caller_key, seVars>>

\* The slot of the public key has to hold a key that may establish host keys.
QuerySlot ==
    /\ pc = "query"
    /\ \/ Command(UNCHANGED seVars, host, "host_keygen")
       \/ UNCHANGED seVars /\ Return("INVALID_PARAMETER")

HostKeygen == pc = "host_keygen" /\ Compute(host, "se_keygen")

\* The names in use, so that a new pair can be told from every other.
Remembered == {se.kek.base, se.pending} \cup {se_key[s] : s \in Slots}
                \cup {caller_key[s] : s \in Slots}

SEKeygen ==
    /\ pc = "se_keygen"
    /\ \/ \E p \in Pairs \ Remembered :
            Command(se' = [se EXCEPT !.pair = p] /\ UNCHANGED <<se_key, unreported>>,
                    [host EXCEPT !.pub = p], AfterSEKeygen)
       \/ UNCHANGED seVars /\ Return("TRANSFER_ERROR")

Sign == pc = "sign" /\ Compute(host, "agree")

ECDH == pc = "ecdh" /\ Compute([host EXCEPT !.secret = host.pub], "hkdf")

HKDF == pc = "hkdf" /\ Compute([host EXCEPT !.okm = host.secret, !.counter = 0], AfterHKDF)

\* The commands that give the secure element the public key of the host.
StartKEKSession ==
    /\ pc = "agree" /\ call.kind = "wrapped"
    /\ Command(/\ se.pair # None
               /\ se' = [se EXCEPT !.kek = [base |-> se.pair, counter |-> 0]]
               /\ UNCHANGED <<se_key, unreported>>, host, AfterAgree)

EstablishHostKey ==
    /\ pc = "agree" /\ EarlyDerivation
    /\ Command(se.pair # None /\ Store(se.pair) /\ UNCHANGED se, host, AfterAgree)

EstablishSymmetricKey ==
    /\ pc = "agree" /\ call.kind = "establish" /\ call.slot = "sym"
    /\ Command(/\ se.pair # None
               /\ se' = [se EXCEPT !.pending = se.pair]
               /\ UNCHANGED <<se_key, unreported>>, host, AfterAgree)

\* The working KEK is derived with a counter that is advanced first.
WorkingCounterAdvancedLater == host.counter
WorkingCounter == host.counter + 1

Wrap ==
    /\ pc = "wrap"
    /\ Compute([host EXCEPT !.counter = host.counter + 1,
                            !.envelope = [base |-> host.okm, counter |-> WorkingCounter,
                                          value |-> call.value]], "write")

WritePlain ==
    /\ pc = "write" /\ call.kind = "plain"
    /\ Command(Store(call.value) /\ UNCHANGED se, host, AfterWrite)

\* External: the session of the secure element opens the envelope.
Opens(kek, envelope) ==
    kek.base # None /\ envelope.base = kek.base /\ envelope.counter = kek.counter + 1

WriteWrapped ==
    /\ pc = "write" /\ call.kind = "wrapped"
    /\ Command(/\ Opens(se.kek, host.envelope)
               /\ se' = [se EXCEPT !.kek.counter = se.kek.counter + 1]
               /\ Store(host.envelope.value), host, AfterWrite)

StopKEKSession ==
    /\ pc = "stop"
    /\ Command(se' = [se EXCEPT !.kek = ClosedSession] /\ UNCHANGED <<se_key, unreported>>,
               host, "done")

\* stsafea_confirm_symmetric_key swaps the bytes of each length in the caller's
\* list, computes the MAC entry by entry, and swaps them back after the transfer.
Swapped(l, S) == [i \in Infos |-> IF i \in S THEN ~l[i] ELSE l[i]]

CMACInit ==
    /\ pc = "cmac_init"
    /\ IF call.count = 0
         THEN UNCHANGED seVars /\ Return("INVALID_PARAMETER")
         ELSE Compute(host, "cmac_append")

LastEntryPastEnd(i) == i > call.count
LastEntry(i) == i = call.count

CMACAppend ==
    /\ pc = "cmac_append"
    /\ LET i == host.appended + 1
       IN  /\ infos' = Swapped(infos, {i})
           /\ Compute([host EXCEPT !.appended = i],
                      IF LastEntry(i) THEN "cmac_finish" ELSE "cmac_append")

CMACFinish == pc = "cmac_finish" /\ Compute(host, "confirm")

AfterTransferUnrestored(l) == l
AfterTransfer(l) == Swapped(l, 1..call.count)

Confirm ==
    /\ pc = "confirm"
    /\ infos' = AfterTransfer(infos)
    /\ Command(/\ se.pending # None /\ se.pending = host.okm
               /\ \A i \in 1..call.count : infos[i]
               /\ se' = [se EXCEPT !.pending = None] /\ Store(host.okm), host, "done")

ReturnSuccess ==
    /\ pc = "done"
    /\ Return("STSE_OK")
    /\ unreported' = unreported \ {call.slot}
    /\ UNCHANGED <<se, se_key>>

-----------------------------------------------------------------------------
(* Restarts                                                                *)

HostRestart ==
    /\ pc' = "idle" /\ ret' = "none" /\ host' = EmptyHost
    /\ infos' = HostOrder /\ list' = HostOrder
    /\ UNCHANGED <<call, caller_key, seVars>>

SecureElementReset ==
    /\ se' = ResetElement
    /\ UNCHANGED <<call, hostVars, infos, list, se_key, unreported>>

-----------------------------------------------------------------------------
Step == /\ \/ QuerySlot \/ HostKeygen \/ SEKeygen \/ Sign \/ ECDH \/ HKDF
           \/ StartKEKSession \/ EstablishHostKey \/ EstablishSymmetricKey
           \/ Wrap \/ WritePlain \/ WriteWrapped \/ StopKEKSession
           \/ CMACInit \/ CMACFinish \/ ReturnSuccess
        /\ UNCHANGED <<call, infos, list>>

Confirmation == (CMACAppend \/ Confirm) /\ UNCHANGED <<call, list>>

Next == StartCall \/ Step \/ Confirmation \/ HostRestart \/ SecureElementReset

Spec == Init /\ [][Next]_vars

-----------------------------------------------------------------------------
(* Properties                                                              *)

Steps == {"idle", "query", "host_keygen", "se_keygen", "sign", "agree", "ecdh", "hkdf",
          "wrap", "write", "stop", "cmac_init", "cmac_append", "cmac_finish", "confirm",
          "done"}

OptKey == Keys \cup {None}
OptPair == Pairs \cup {None}

\* The state has the types of the code: the buffers hold keys or nothing, a
\* session of the call derives at most one working KEK, and no more entries of
\* the list are appended to the MAC than the caller counted.
TypeOK ==
    /\ call \in Calls /\ pc \in Steps /\ ret \in Codes
    /\ host \in [pub : OptPair, secret : OptPair, okm : OptPair, counter : 0..1,
                 envelope : [base : OptPair, counter : 0..1, value : OptKey],
                 appended : 0..MaxInfos]
    /\ host.appended <= call.count
    /\ infos \in [Infos -> BOOLEAN] /\ list \in [Infos -> BOOLEAN]
    /\ caller_key \in [Slots -> OptKey] /\ se_key \in [Slots -> OptKey]
    /\ se \in [pair : OptPair, kek : [base : OptPair, counter : 0..1], pending : OptPair]
    /\ unreported \in SUBSET Slots

\* The caller knows the key in every slot, unless a call that the secure element
\* carried out has not returned STSE_OK: because its answer was lost, because the
\* session could not be stopped after the write, or because the host restarted.
\* A call that fails before it reaches the slot leaves the caller's keys alone.
KeysKnown == \A s \in Slots \ unreported : caller_key[s] = se_key[s]

\* When an envelope is sent, the volatile KEK session of the secure element can
\* open it: both sides derived the working KEK from the secret of this call and
\* under the same counter, whatever session an earlier call left open.
EnvelopeOpens ==
    pc = "write" /\ call.kind = "wrapped" =>
        se.kek.base = None \/ Opens(se.kek, host.envelope)

\* When the confirmation is sent, its MAC is under the key of the exchange that
\* the secure element keeps in RAM, not under that of an abandoned call, and
\* every length of the list was swapped exactly once.
ConfirmationAgrees ==
    pc = "confirm" => /\ se.pending \in {None, host.okm}
                      /\ \A i \in 1..call.count : infos[i] # list[i]

\* A call that wraps a key does not succeed while a volatile KEK session, its own
\* or one that an earlier call left behind, is open in the secure element.
SessionStopped == pc = "done" /\ call.kind = "wrapped" => se.kek = ClosedSession

\* The key information list is handed back as it was, unless the platform failed.
ListHandedBack == pc = "idle" /\ ret \notin {"none", "PLATFORM_ERROR"} => infos = list

\* The key information list is an input of the call (stsafea_symmetric_key_slots.h,
\* "param[in]"): whatever the call returns, it is as it was.
ListIsInput == pc = "idle" /\ ret # "none" => infos = list

-----------------------------------------------------------------------------
(* What makes the properties inductive                                     *)

EstablishesSym == call.kind = "establish" /\ call.slot = "sym"

\* The steps belong to the calls that take them.
RouteInv ==
    /\ call.kind = "plain" => pc \in {"idle", "write", "done"}
    /\ pc \in {"wrap", "stop"} => call.kind = "wrapped"
    /\ pc \in {"cmac_init", "cmac_append", "cmac_finish", "confirm"} => EstablishesSym
    /\ pc = "write" => call.kind # "establish"

\* As long as the secure element has not been reset, both sides hold the same
\* secret, from the step that agreed on it to the last one that uses it.
ExchangeInv ==
    /\ pc \in {"sign", "agree"} \/ (EarlyDerivation /\ pc \in {"ecdh", "hkdf"}) =>
         se.pair \in {None, host.pub}
    /\ pc = "hkdf" => host.secret = host.pub
    /\ pc \in {"wrap", "cmac_init", "cmac_append", "cmac_finish", "confirm"}
         \/ (EarlyDerivation /\ pc \in {"sign", "agree"}) => host.okm = host.pub
    /\ pc = "wrap" => host.counter = 0
    /\ call.kind = "wrapped" /\ pc \in {"ecdh", "hkdf", "wrap", "write"} =>
         se.kek \in {ClosedSession, [base |-> host.pub, counter |-> 0]}
    /\ call.kind = "wrapped" /\ pc = "write" =>
         host.envelope = [base |-> host.pub, counter |-> 1, value |-> call.value]
    /\ EstablishesSym /\ pc \in {"ecdh", "hkdf", "cmac_init", "cmac_append",
                                 "cmac_finish", "confirm"} =>
         se.pending \in {None, host.pub}

\* After the command that writes the slot, it holds what the caller will be told.
StoredInv ==
    pc \in {"stop", "done"} =>
        /\ call.slot \in unreported
        /\ se_key[call.slot] = IF call.kind = "establish" THEN host.okm ELSE call.value

\* The lengths of the entries that went into the MAC are swapped, no others.
ListInv ==
    /\ pc \notin {"idle", "done"} =>
         infos = Swapped(list, 1..host.appended)
    /\ pc = "done" => infos = list
    /\ pc \in {"cmac_finish", "confirm"} => host.appended = call.count
    /\ pc = "cmac_append" => host.appended < call.count
    /\ pc \notin {"cmac_append", "cmac_finish", "confirm", "done"} => host.appended = 0

CallInv == RouteInv /\ ExchangeInv /\ StoredInv /\ ListInv

=============================================================================
