----------------------------- MODULE HostSession -----------------------------
(***************************************************************************)
(* Host sessions of the STSAFE-A services: opening, closing and selecting  *)
(* a session (stsafea_sessions.c), and transferring a command through the  *)
(* active one (stsafea_frame_transfer.c): C-MAC, retransmission on a       *)
(* missing bus acknowledge, reception, MAC counter, R-MAC, decryption.     *)
(*                                                                         *)
(* Both ends count the protected commands: the host in MAC_counter of the  *)
(* session, the secure element in a sequence counter it keeps in           *)
(* non-volatile memory.  A C-MAC is only accepted under equal counters, so *)
(* the question is when the two agree: several sessions share one counter  *)
(* of the secure element, a frame may be taken by the secure element       *)
(* although the bus reports a failure, an answer may be lost, the host may *)
(* restart at any step and the counter may reach its maximum.              *)
(*                                                                         *)
(* The library is sequential: a call runs to its end, and only the secure  *)
(* element, the bus and a restart of the host act between its steps.       *)
(* Payload bytes, keys and MAC values are abstracted: a C-MAC is the       *)
(* counter it was computed under.                                          *)
(***************************************************************************)
EXTENDS Naturals

CONSTANTS Sessions,       \* the session contexts of the application
          NULL,           \* no session, no command
          Commands,       \* command codes
          perso_info,     \* per command: access condition, encryption flags
          HeaderOnly,     \* the commands whose frame is only a header
          DeviceTypes,    \* products the handler may be bound to
          WireModulus,    \* per product: 2^(bits of the counter on the wire)
          HostModulus,    \* 2^(bits of MAC_counter), a u32 of the host
          MaxPollingRetry \* STSE_MAX_POLLING_RETRY

PersoEntries == [ac : {"FREE", "HOST"}, cmd_enc : BOOLEAN, rsp_enc : BOOLEAN]

ASSUME SessionAssumption == NULL \notin Sessions
ASSUME CommandAssumption == /\ NULL \notin Commands
                            /\ perso_info \in [Commands -> PersoEntries]
                            /\ HeaderOnly \subseteq Commands
ASSUME CounterAssumption ==
    /\ HostModulus \in Nat
    /\ WireModulus \in [DeviceTypes -> Nat]
    /\ \A d \in DeviceTypes : 2 <= WireModulus[d] /\ WireModulus[d] <= HostModulus
ASSUME RetryAssumption == MaxPollingRetry \in Nat \ {0}

VARIABLES
    device_type,           \* product of the handler
    session,               \* the session contexts
    pActive_host_session,  \* the session protected commands go through
    call,                  \* the library call under way, or the last one
    sequence_counter,      \* the secure element's C-MAC sequence counter
    answer,                \* the answer the secure element holds
    accepted,              \* history: acceptances of the current command
    synced                 \* history: sessions that saw every acceptance

vars == <<device_type, session, pActive_host_session, call, sequence_counter,
          answer, accepted, synced>>

-----------------------------------------------------------------------------
(* Return codes.  Status codes of the secure element are at most 0xFF.     *)

DeviceStatus == {"OK", "COMMUNICATION_ERROR", "INVALID_C_MAC",
                 "C_MAC_COUNTER_MAXIMUM_REACHED", "OTHER_STATUS"}
BusErrors == {"BUS_ACK_ERROR", "BUS_ERR"}
HostErrors == BusErrors \cup {"FRAME_CRC_ERROR", "SERVICE_SESSION_ERROR",
                              "PLATFORM_ERROR"}
ReturnCodes == DeviceStatus \cup HostErrors

Encrypted(c) == perso_info[c].cmd_enc \/ perso_info[c].rsp_enc
\* The dispatch of stsafea_frame_transfer: these go through a session.
Protected(c) == Encrypted(c) \/ perso_info[c].ac # "FREE"

ClosedSession == [type |-> "NONE", MAC_counter |-> 0]
IsOpen(s) == session[s].type = "HOST"

MaxCounter == WireModulus[device_type] - 1
Exhausted == sequence_counter = MaxCounter

\* The counter bytes that enter a MAC: four on the A120, three before it.
OnWire(counter) == counter % WireModulus[device_type]
NextCounterUnbounded(counter) == counter + 1
NextCounter(counter) == (counter + 1) % HostModulus

Busy == call.pc \in {"transmit", "receive", "complete"}
Idle == call.pc = "idle"

NoCall(cmd, code) == [pc |-> "idle", cmd |-> cmd, mac |-> 0,
                      retry_count |-> 0, ret |-> code]
Return(code) == call' = NoCall(call.cmd, code)

-----------------------------------------------------------------------------
(* Session management                                                      *)

\* The query of the host key slot may fail, or find no host key.
OpenHostSessionFails ==
    /\ Idle
    /\ \E code \in {"SERVICE_SESSION_ERROR", "BUS_ACK_ERROR", "OTHER_STATUS"} :
          call' = NoCall(NULL, code)
    /\ accepted' = 0
    /\ UNCHANGED <<device_type, session, pActive_host_session,
                   sequence_counter, answer, synced>>

\* The counter is read from the secure element; the session becomes active.
OpenHostSession(s) ==
    /\ Idle
    /\ session' = [session EXCEPT ![s] = [type |-> "HOST",
                                          MAC_counter |-> sequence_counter]]
    /\ pActive_host_session' = s
    /\ call' = NoCall(NULL, "OK")
    /\ accepted' = 0
    /\ synced' = synced \cup {s}
    /\ UNCHANGED <<device_type, sequence_counter, answer>>

ActiveAfterCloseKept(s) == pActive_host_session
ActiveAfterClose(s) ==
    IF pActive_host_session = s THEN NULL ELSE pActive_host_session

\* The caller closes only what it opened: the code follows pSTSE of the
\* context, which a cleared context does not have.
CloseHostSession(s) ==
    /\ Idle
    /\ IsOpen(s)
    /\ pActive_host_session' = ActiveAfterClose(s)
    /\ session' = [session EXCEPT ![s] = ClosedSession]
    /\ synced' = synced \ {s}
    /\ UNCHANGED <<device_type, call, sequence_counter, answer, accepted>>

SetActiveHostSession(s) ==
    /\ Idle
    /\ IsOpen(s)
    /\ pActive_host_session' = s
    /\ UNCHANGED <<device_type, session, call, sequence_counter, answer,
                   accepted, synced>>

-----------------------------------------------------------------------------
(* A transfer                                                              *)

\* stsafea_frame_transfer up to the first byte on the bus: dispatch on the
\* personalisation, encryption and C-MAC, computed once for all attempts.
StartTransfer(c) ==
    /\ Idle
    /\ accepted' = 0
    /\ UNCHANGED <<device_type, session, pActive_host_session,
                   sequence_counter, answer, synced>>
    /\ \/ /\ ~Protected(c)
          /\ call' = [pc |-> "transmit", cmd |-> c, mac |-> 0,
                      retry_count |-> MaxPollingRetry, ret |-> "BUS_ACK_ERROR"]
       \/ /\ Protected(c)
          /\ pActive_host_session = NULL
          /\ call' = NoCall(c, "SERVICE_SESSION_ERROR")
       \/ /\ Protected(c)
          /\ pActive_host_session # NULL
          /\ \/ call' = NoCall(c, "PLATFORM_ERROR")
             \/ call' = [pc |-> "transmit", cmd |-> c,
                         mac |-> OnWire(session[pActive_host_session].MAC_counter),
                         retry_count |-> MaxPollingRetry,
                         ret |-> "BUS_ACK_ERROR"]

(***************************************************************************)
(* The secure element takes a frame (external).  A frame damaged on the    *)
(* bus is answered with COMMUNICATION_ERROR.  An accepted protected        *)
(* command counts, whatever its status.                                    *)
(***************************************************************************)
MacAccepted == /\ ~Exhausted
               /\ call.mac = sequence_counter

DeviceAccepts ==
    /\ ~Protected(call.cmd) \/ MacAccepted
    /\ accepted' = accepted + 1
    /\ answer' \in {"OK", "OTHER_STATUS"}
    /\ IF Protected(call.cmd)
       THEN /\ sequence_counter' = sequence_counter + 1
            /\ synced' = synced \cap {pActive_host_session}
       ELSE UNCHANGED <<sequence_counter, synced>>

DeviceRejects ==
    /\ \/ answer' = "COMMUNICATION_ERROR"
       \/ /\ Protected(call.cmd)
          /\ Exhausted
          /\ answer' = "C_MAC_COUNTER_MAXIMUM_REACHED"
       \/ /\ Protected(call.cmd)
          /\ ~Exhausted /\ ~MacAccepted
          /\ answer' = "INVALID_C_MAC"
    /\ UNCHANGED <<sequence_counter, accepted, synced>>

DeviceTakesFrame == DeviceAccepts \/ DeviceRejects
DeviceSilent == UNCHANGED <<sequence_counter, answer, accepted, synced>>

\* The bus result of an attempt decides what the transmit loop does next.
AfterAttemptForever(bus) ==
    call' = [call EXCEPT
        !.ret = bus,
        !.pc = IF bus = "OK" THEN "receive"
               ELSE IF bus = "BUS_ACK_ERROR" THEN "transmit" ELSE "complete"]
AfterAttempt(bus) ==
    call' = [call EXCEPT
        !.ret = bus,
        !.retry_count = IF bus = "OK" THEN @ ELSE @ - 1,
        !.pc = IF bus = "OK" THEN "receive"
               ELSE IF bus = "BUS_ACK_ERROR" /\ call.retry_count > 1
                    THEN "transmit" ELSE "complete"]

\* One pass of the loop of stsafea_frame_transmit.
TransmitAttempt ==
    /\ call.pc = "transmit"
    /\ UNCHANGED <<device_type, session, pActive_host_session>>
    /\ \/ /\ DeviceTakesFrame
          /\ \E bus \in {"OK"} \cup BusErrors : AfterAttempt(bus)
       \/ /\ DeviceSilent
          /\ \E bus \in BusErrors : AfterAttempt(bus)

\* stsafea_frame_receive: the answer arrives intact, or an error is found.
ReceiveAnswer ==
    /\ call.pc = "receive"
    /\ \E code \in {answer} \cup BusErrors \cup {"FRAME_CRC_ERROR"} :
          call' = [call EXCEPT !.pc = "complete", !.ret = code]
    /\ UNCHANGED <<device_type, session, pActive_host_session,
                   sequence_counter, answer, accepted, synced>>

-----------------------------------------------------------------------------
(* The end of stsafea_session_authenticated_transfer                       *)

CounterAdvancesOnAnyStatus(ret) == ret \in DeviceStatus
CounterAdvances(ret) ==
    /\ ret \in DeviceStatus
    /\ ret \notin {"INVALID_C_MAC", "COMMUNICATION_ERROR"}

\* stsafea_session_frame_r_mac_verify reads the length of the element after
\* the command header, which a command without payload does not have.
DereferencesNull(c) == c \in HeaderOnly /\ ~perso_info[c].cmd_enc

CompletePlain ==
    /\ call.pc = "complete"
    /\ ~Protected(call.cmd)
    /\ Return(call.ret)
    /\ UNCHANGED <<device_type, session, pActive_host_session,
                   sequence_counter, answer, accepted, synced>>

\* R-MAC verification and decryption only follow an OK answer; both may fail.
CodeAfterVerificationAlways == {"OK", "PLATFORM_ERROR", "SERVICE_SESSION_ERROR"}
CodeAfterVerification ==
    IF call.ret = "OK"
    THEN {"OK", "PLATFORM_ERROR"}
         \cup (IF perso_info[call.cmd].rsp_enc THEN {"SERVICE_SESSION_ERROR"} ELSE {})
    ELSE {call.ret}

CompleteProtected ==
    /\ call.pc = "complete"
    /\ Protected(call.cmd)
    /\ session' = IF CounterAdvances(call.ret)
                  THEN [session EXCEPT ![pActive_host_session].MAC_counter =
                           NextCounter(@)]
                  ELSE session
    /\ synced' = IF accepted > 0 /\ ~CounterAdvances(call.ret)
                 THEN synced \ {pActive_host_session} ELSE synced
    /\ \/ \E code \in CodeAfterVerification : Return(code)
       \/ /\ call.ret = "OK"
          /\ DereferencesNull(call.cmd)
          /\ call' = [call EXCEPT !.pc = "fault"]
    /\ UNCHANGED <<device_type, pActive_host_session, sequence_counter, answer,
                   accepted>>

\* The host loses its memory at any step; the secure element keeps its own.
HostRestart ==
    /\ session' = [s \in Sessions |-> ClosedSession]
    /\ pActive_host_session' = NULL
    /\ call' = NoCall(NULL, "SERVICE_SESSION_ERROR")
    /\ accepted' = 0
    /\ synced' = {}
    /\ UNCHANGED <<device_type, sequence_counter, answer>>

-----------------------------------------------------------------------------
Init ==
    /\ device_type \in DeviceTypes
    /\ session = [s \in Sessions |-> ClosedSession]
    /\ pActive_host_session = NULL
    /\ call = NoCall(NULL, "SERVICE_SESSION_ERROR")
    /\ sequence_counter \in 0..MaxCounter
    /\ answer = "OTHER_STATUS"
    /\ accepted = 0
    /\ synced = {}

Manage == \/ OpenHostSessionFails
          \/ \E s \in Sessions : \/ OpenHostSession(s)
                                 \/ CloseHostSession(s)
                                 \/ SetActiveHostSession(s)

Step == TransmitAttempt \/ ReceiveAnswer \/ CompletePlain \/ CompleteProtected

Next == Manage \/ (\E c \in Commands : StartTransfer(c)) \/ Step \/ HostRestart

Spec == Init /\ [][Next]_vars

\* The code of a call runs on: every platform function it calls returns.
FairSpec == Spec /\ WF_vars(Step)

-----------------------------------------------------------------------------
CallRecords == [pc : {"idle", "transmit", "receive", "complete", "fault"},
                cmd : Commands \cup {NULL},
                mac : Nat,
                retry_count : 0..MaxPollingRetry,
                ret : ReturnCodes]

\* Type invariant; MAC_counter stays a host word and the secure element's
\* counter stays within the bytes it has on the wire.
TypeOK ==
    /\ device_type \in DeviceTypes
    /\ session \in [Sessions -> [type : {"NONE", "HOST"},
                                 MAC_counter : 0..(HostModulus - 1)]]
    /\ pActive_host_session \in Sessions \cup {NULL}
    /\ call \in CallRecords
    /\ call.pc # "idle" => call.cmd \in Commands
    /\ call.pc = "transmit" => call.retry_count > 0
    /\ sequence_counter \in 0..MaxCounter
    /\ answer \in DeviceStatus
    /\ accepted \in Nat
    /\ synced \subseteq Sessions

\* The handler never points at a context that was closed or never opened:
\* a protected command would follow its NULL device pointer
\* (stsafea_close_host_session clears pActive_host_session).
ActiveSessionIsOpen ==
    pActive_host_session # NULL => IsOpen(pActive_host_session)

ProtectedCall == call.cmd \in Commands /\ Protected(call.cmd)

\* A status that follows a verified C-MAC comes from an accepted command, and
\* the maximum is only reported at the maximum.
Justified(code) ==
    /\ code \in {"OK", "OTHER_STATUS"} => accepted = 1
    /\ code = "C_MAC_COUNTER_MAXIMUM_REACHED" => Exhausted

\* The active session owes one increment between the acceptance of its
\* command and the end of the call.
Owed(s) == IF Busy /\ Protected(call.cmd) /\ s = pActive_host_session
           THEN accepted ELSE 0

\* As long as the secure element can count, a session that saw the status of
\* every acceptance since it was opened agrees with it, and any other is
\* strictly behind: it lost an answer, or another session was used.  No lost
\* acknowledge, retransmission or restart puts a host counter ahead.
CounterAgreement ==
    ~Exhausted => \A s \in Sessions : IsOpen(s) =>
        IF s \in synced
        THEN session[s].MAC_counter + Owed(s) = sequence_counter
        ELSE session[s].MAC_counter < sequence_counter

\* Why CounterAgreement is inductive: what holds between the computation of
\* a C-MAC and the end of its call.
CallInv ==
    Busy /\ ProtectedCall =>
        /\ pActive_host_session \in Sessions
        /\ accepted \in {0, 1}
        /\ accepted = 1 => pActive_host_session \in synced
        /\ call.mac = OnWire(session[pActive_host_session].MAC_counter)
        /\ call.pc = "receive" => Justified(answer)
        /\ call.pc = "complete" => Justified(call.ret)

\* What a session promises: see SecureChannel.
OutcomeOf == IF ~ProtectedCall THEN "none"
             ELSE IF ~Idle THEN "pending"
             ELSE IF call.ret = "OK" THEN "ok" ELSE "failed"
Channel == INSTANCE SecureChannel WITH
    busy <- ~Idle /\ ProtectedCall,
    accepted <- IF ProtectedCall THEN accepted ELSE 0,
    outcome <- OutcomeOf

\* Retransmitting a protected frame is harmless: its command is accepted at
\* most once, and a call that returns OK had it accepted in that call.
ImplementsChannel == Channel!Spec

\* "STSE_OK on success; error code otherwise": a call ends with a return code.
NoFault == call.pc # "fault"

\* A call that started comes back to its caller, unless it runs into the
\* NULL element of a command without payload: the retries are bounded.
CallsReturn == Busy ~> ~Busy
=============================================================================
