------------------------- MODULE HostSession_proofs -------------------------
(***************************************************************************)
(* Proofs about HostSession, for any number of sessions, commands, retries *)
(* and any counter widths.                                                 *)
(***************************************************************************)
EXTENDS HostSession, TLAPS

(***************************************************************************)
(* The two facts about the modulus that the counters need: a value that    *)
(* fits is kept, and every value is brought into range.                    *)
(***************************************************************************)
LEMMA ModKeeps == \A m \in Nat \ {0} : \A x \in 0..(m-1) : x % m = x
  OBVIOUS

LEMMA ModRange == \A m \in Nat \ {0} : \A x \in Nat : x % m \in 0..(m-1)
  OBVIOUS

\* Widths: the wire never has more counter values than the host word.
LEMMA Widths ==
  ASSUME device_type \in DeviceTypes
  PROVE  /\ HostModulus \in Nat \ {0}
         /\ WireModulus[device_type] \in Nat \ {0}
         /\ MaxCounter \in Nat
         /\ 0..MaxCounter \subseteq 0..(HostModulus - 1)
  BY CounterAssumption DEF MaxCounter

-----------------------------------------------------------------------------
(* Types                                                                   *)

LEMMA NoCallType ==
  ASSUME NEW c \in Commands \cup {NULL}, NEW code \in ReturnCodes
  PROVE  /\ NoCall(c, code) \in CallRecords
         /\ NoCall(c, code).pc = "idle"
  BY RetryAssumption DEF NoCall, CallRecords

LEMMA TransmitType ==
  TypeOK /\ TransmitAttempt => TypeOK'
  <1> SUFFICES ASSUME TypeOK, TransmitAttempt PROVE TypeOK'
    OBVIOUS
  <1>1. /\ call' \in CallRecords
        /\ call'.cmd = call.cmd
        /\ call'.pc = "transmit" => call'.retry_count > 0
    <2>1. /\ call \in CallRecords
          /\ call.retry_count \in 1..MaxPollingRetry
          /\ MaxPollingRetry \in Nat
      BY RetryAssumption DEF TypeOK, TransmitAttempt, CallRecords
    <2>2. ASSUME NEW bus \in {"OK"} \cup BusErrors, AfterAttempt(bus)
          PROVE  /\ call' \in CallRecords
                 /\ call'.cmd = call.cmd
                 /\ call'.pc = "transmit" => call'.retry_count > 0
      <3> DEFINE n  == IF bus = "OK" THEN call.retry_count ELSE call.retry_count - 1
                 pc == IF bus = "OK" THEN "receive"
                       ELSE IF bus = "BUS_ACK_ERROR" /\ call.retry_count > 1
                            THEN "transmit" ELSE "complete"
      <3>1. call' = [call EXCEPT !.ret = bus, !.retry_count = n, !.pc = pc]
        BY <2>2 DEF AfterAttempt
      <3>2. n \in 0..MaxPollingRetry /\ (pc = "transmit" => n > 0)
        BY <2>1
      <3>3. bus \in ReturnCodes
        BY DEF BusErrors, ReturnCodes, HostErrors, DeviceStatus
      <3>4. pc \in {"transmit", "receive", "complete"}
        OBVIOUS
      <3> HIDE DEF n, pc
      <3> QED
        BY <2>1, <3>1, <3>2, <3>3, <3>4 DEF CallRecords
    <2> QED
      BY <2>2 DEF TransmitAttempt
  <1>2. call.cmd \in Commands
    BY DEF TypeOK, TransmitAttempt
  <1>3. /\ sequence_counter' \in 0..MaxCounter
        /\ answer' \in DeviceStatus
        /\ accepted' \in Nat
        /\ synced' \subseteq Sessions
    <2>1. CASE DeviceAccepts
      BY <2>1, Widths, <1>2
      DEF TypeOK, DeviceAccepts, MacAccepted, Exhausted, DeviceStatus, MaxCounter
    <2>2. CASE DeviceRejects
      BY <2>2 DEF TypeOK, DeviceRejects, DeviceStatus
    <2>3. CASE DeviceSilent
      BY <2>3 DEF TypeOK, DeviceSilent
    <2> QED
      BY <2>1, <2>2, <2>3 DEF TransmitAttempt, DeviceTakesFrame
  <1> QED
    BY <1>1, <1>2, <1>3 DEF TypeOK, TransmitAttempt, MaxCounter

LEMMA CompleteType ==
  TypeOK /\ CompleteProtected => TypeOK'
  <1> SUFFICES ASSUME TypeOK, CompleteProtected PROVE TypeOK'
    OBVIOUS
  <1>1. /\ call' \in CallRecords
        /\ call'.cmd \in Commands
        /\ call'.pc # "transmit"
    <2>1. call.cmd \in Commands /\ CodeAfterVerification \subseteq ReturnCodes
      BY DEF TypeOK, CompleteProtected, CodeAfterVerification, CallRecords,
             ReturnCodes, HostErrors, BusErrors, DeviceStatus
    <2>2. ASSUME NEW code \in CodeAfterVerification, Return(code)
          PROVE  /\ call' \in CallRecords
                 /\ call'.cmd \in Commands
                 /\ call'.pc # "transmit"
      BY <2>1, <2>2, NoCallType DEF Return, NoCall
    <2>3. CASE call' = [call EXCEPT !.pc = "fault"]
      BY <2>1, <2>3 DEF TypeOK, CallRecords
    <2> QED
      BY <2>2, <2>3 DEF CompleteProtected
  <1>2. session' \in [Sessions -> [type : {"NONE", "HOST"},
                                   MAC_counter : 0..(HostModulus - 1)]]
    <2>1. \A x \in 0..(HostModulus - 1) : NextCounter(x) \in 0..(HostModulus - 1)
      BY ModRange, Widths DEF TypeOK, NextCounter
    <2> QED
      BY <2>1 DEF TypeOK, CompleteProtected
  <1> QED
    BY <1>1, <1>2 DEF TypeOK, CompleteProtected, MaxCounter

LEMMA StartType ==
  ASSUME NEW c \in Commands, TypeOK, StartTransfer(c)
  PROVE  TypeOK'
  <1>1. /\ call' \in CallRecords
        /\ call'.cmd = c
        /\ call'.pc = "transmit" => call'.retry_count > 0
    <2>1. \A x \in Nat : OnWire(x) \in Nat
      <3>1. WireModulus[device_type] \in Nat \ {0}
        BY Widths DEF TypeOK
      <3>2. \A x \in Nat : OnWire(x) \in 0..(WireModulus[device_type] - 1)
        BY <3>1, ModRange DEF OnWire
      <3> QED
        BY <3>1, <3>2
    <2>2. CASE ~Protected(c)
      BY <2>2, RetryAssumption
      DEF StartTransfer, CallRecords, ReturnCodes, HostErrors, BusErrors
    <2>3. CASE pActive_host_session = NULL /\ Protected(c)
      BY <2>3, NoCallType DEF StartTransfer, NoCall, ReturnCodes, HostErrors
    <2>4. CASE pActive_host_session # NULL /\ Protected(c)
      <3>1. session[pActive_host_session].MAC_counter \in Nat
        BY <2>4 DEF TypeOK
      <3> QED
        BY <2>1, <2>4, <3>1, NoCallType, RetryAssumption
        DEF StartTransfer, NoCall, CallRecords, ReturnCodes, HostErrors, BusErrors
    <2> QED
      BY <2>2, <2>3, <2>4
  <1> QED
    BY <1>1 DEF TypeOK, StartTransfer, MaxCounter

\* The variables keep their types (TypeOK).
THEOREM TypeCorrect == Spec => []TypeOK
  <1>1. Init => TypeOK
    BY NoCallType, Widths
    DEF Init, TypeOK, ClosedSession, NoCall, ReturnCodes, HostErrors, DeviceStatus
  <1>2. TypeOK /\ [Next]_vars => TypeOK'
    <2> SUFFICES ASSUME TypeOK, [Next]_vars PROVE TypeOK'
      OBVIOUS
    <2>1. CASE OpenHostSessionFails
      <3>1. PICK code \in ReturnCodes : call' = NoCall(NULL, code)
        BY <2>1
        DEF OpenHostSessionFails, ReturnCodes, HostErrors, BusErrors, DeviceStatus
      <3>2. call' \in CallRecords /\ call'.pc = "idle"
        BY <3>1, NoCallType
      <3> QED
        BY <2>1, <3>2 DEF OpenHostSessionFails, TypeOK, MaxCounter
    <2>2. ASSUME NEW s \in Sessions, OpenHostSession(s) PROVE TypeOK'
      BY <2>2, NoCallType, Widths
      DEF OpenHostSession, TypeOK, NoCall, MaxCounter, ReturnCodes, DeviceStatus
    <2>3. ASSUME NEW s \in Sessions, CloseHostSession(s) PROVE TypeOK'
      BY <2>3, Widths
      DEF CloseHostSession, ActiveAfterClose, ClosedSession, TypeOK, MaxCounter
    <2>4. ASSUME NEW s \in Sessions, SetActiveHostSession(s) PROVE TypeOK'
      BY <2>4 DEF SetActiveHostSession, TypeOK, MaxCounter
    <2>5. ASSUME NEW c \in Commands, StartTransfer(c) PROVE TypeOK'
      BY <2>5, StartType
    <2>6. CASE TransmitAttempt
      BY <2>6, TransmitType
    <2>7. CASE ReceiveAnswer
      BY <2>7
      DEF ReceiveAnswer, TypeOK, CallRecords, MaxCounter, ReturnCodes,
          HostErrors, BusErrors, DeviceStatus
    <2>8. CASE CompletePlain
      <3>1. call.cmd \in Commands /\ call.ret \in ReturnCodes
        BY <2>8 DEF CompletePlain, TypeOK, CallRecords
      <3> QED
        BY <2>8, <3>1, NoCallType DEF CompletePlain, Return, NoCall, TypeOK, MaxCounter
    <2>9. CASE CompleteProtected
      BY <2>9, CompleteType
    <2>10. CASE HostRestart
      BY <2>10, NoCallType, Widths
      DEF HostRestart, ClosedSession, TypeOK, NoCall, MaxCounter, ReturnCodes, HostErrors
    <2>11. CASE UNCHANGED vars
      BY <2>11 DEF vars, TypeOK, MaxCounter
    <2> QED
      BY <2>1, <2>2, <2>3, <2>4, <2>5, <2>6, <2>7, <2>8, <2>9, <2>10, <2>11
      DEF Next, Manage, Step
  <1> QED
    BY <1>1, <1>2, PTL DEF Spec

-----------------------------------------------------------------------------
(* The active session is open                                              *)

\* The end of a protected call touches no type and only the counter of the
\* active session.
LEMMA CompleteSessions ==
  ASSUME TypeOK, CompleteProtected
  PROVE  \A s \in Sessions :
           /\ session'[s].type = session[s].type
           /\ session'[s].MAC_counter =
                IF s = pActive_host_session /\ CounterAdvances(call.ret)
                THEN NextCounter(session[s].MAC_counter)
                ELSE session[s].MAC_counter
  BY DEF TypeOK, CompleteProtected

\* The active session is never a closed one (ActiveSessionIsOpen).
THEOREM ActiveOpen == Spec => []ActiveSessionIsOpen
  <1>1. Init => ActiveSessionIsOpen
    BY DEF Init, ActiveSessionIsOpen
  <1>2. TypeOK /\ ActiveSessionIsOpen /\ [Next]_vars => ActiveSessionIsOpen'
    <2> SUFFICES ASSUME TypeOK, ActiveSessionIsOpen, [Next]_vars
                 PROVE  ActiveSessionIsOpen'
      OBVIOUS
    <2> USE DEF ActiveSessionIsOpen, IsOpen
    <2>1. CASE UNCHANGED <<session, pActive_host_session>>
      BY <2>1
    <2>2. ASSUME NEW s \in Sessions, OpenHostSession(s)
          PROVE  ActiveSessionIsOpen'
      BY <2>2 DEF OpenHostSession, TypeOK
    <2>3. ASSUME NEW s \in Sessions, CloseHostSession(s)
          PROVE  ActiveSessionIsOpen'
      BY <2>3 DEF CloseHostSession, ActiveAfterClose, TypeOK
    <2>4. ASSUME NEW s \in Sessions, SetActiveHostSession(s)
          PROVE  ActiveSessionIsOpen'
      BY <2>4 DEF SetActiveHostSession
    <2>5. CASE CompleteProtected
      BY <2>5, CompleteSessions DEF TypeOK, CompleteProtected
    <2>6. CASE HostRestart
      BY <2>6 DEF HostRestart
    <2> QED
      BY <2>1, <2>2, <2>3, <2>4, <2>5, <2>6
      DEF Next, Manage, Step, OpenHostSessionFails, StartTransfer,
          TransmitAttempt, ReceiveAnswer, CompletePlain, vars
  <1> QED
    BY <1>1, <1>2, TypeCorrect, PTL DEF Spec

-----------------------------------------------------------------------------
(* The counters agree                                                      *)

(***************************************************************************)
(* CounterAgreement alone is not inductive: that an acceptance happens     *)
(* once, and that the status the host counts is that of an acceptance,     *)
(* follows from the C-MAC being computed once per call, which CallInv      *)
(* keeps from StartTransfer to the end of the call.                        *)
(***************************************************************************)
Agreement == CounterAgreement /\ CallInv
Before == TypeOK /\ ActiveSessionIsOpen /\ Agreement

\* No call under way before or after the step: nothing is owed.
LEMMA ManageAgreement ==
  Before /\ Manage => Agreement'
  <1> SUFFICES ASSUME Before, Manage PROVE Agreement'
    OBVIOUS
  <1> USE DEF Before, Agreement
  <1>1. call.pc = "idle" /\ call'.pc = "idle"
    BY DEF Manage, OpenHostSessionFails, OpenHostSession, CloseHostSession,
           SetActiveHostSession, Idle, NoCall
  <1>2. ~Busy /\ ~Busy'
    BY <1>1 DEF Busy
  <1>3. CallInv'
    BY <1>2 DEF CallInv
  <1>4. (\A s \in Sessions : Owed(s) = 0) /\ (\A s \in Sessions : Owed(s)' = 0)
    BY <1>2 DEF Owed
  <1>5. Exhausted' <=> Exhausted
    BY DEF Manage, OpenHostSessionFails, OpenHostSession, CloseHostSession,
           SetActiveHostSession, Exhausted, MaxCounter
  <1>6. CASE OpenHostSessionFails \/ \E s \in Sessions : SetActiveHostSession(s)
    BY <1>3, <1>4, <1>5, <1>6
    DEF OpenHostSessionFails, SetActiveHostSession, CounterAgreement, IsOpen
  <1>7. ASSUME NEW s \in Sessions, OpenHostSession(s) PROVE Agreement'
    <2>1. /\ session'[s].MAC_counter = sequence_counter
          /\ \A t \in Sessions \ {s} : session'[t] = session[t]
      BY <1>7 DEF OpenHostSession, TypeOK
    <2>2. sequence_counter \in Nat
      BY Widths DEF TypeOK
    <2> QED
      BY <1>3, <1>4, <1>5, <1>7, <2>1, <2>2
      DEF OpenHostSession, CounterAgreement, IsOpen, TypeOK
  <1>8. ASSUME NEW s \in Sessions, CloseHostSession(s) PROVE Agreement'
    <2>1. /\ session'[s].type = "NONE"
          /\ \A t \in Sessions \ {s} : session'[t] = session[t]
      BY <1>8 DEF CloseHostSession, ClosedSession, TypeOK
    <2> QED
      BY <1>3, <1>4, <1>5, <1>8, <2>1
      DEF CloseHostSession, CounterAgreement, IsOpen, TypeOK
  <1> QED
    BY <1>6, <1>7, <1>8 DEF Manage

\* The C-MAC is computed under the counter of the active session.
LEMMA StartAgreement ==
  ASSUME NEW c \in Commands, Before, StartTransfer(c)
  PROVE  Agreement'
  <1> USE DEF Before, Agreement
  <1>1. /\ \A s \in Sessions : Owed(s) = 0
        /\ \A s \in Sessions : Owed(s)' = 0
    BY DEF StartTransfer, Idle, Busy, Owed
  <1>2. CounterAgreement'
    BY <1>1 DEF StartTransfer, CounterAgreement, IsOpen, Exhausted, MaxCounter
  <1>3. CallInv'
    <2>1. CASE call'.pc = "idle"
      BY <2>1 DEF CallInv, Busy
    <2>2. CASE ~Protected(c)
      BY <2>2 DEF StartTransfer, CallInv, ProtectedCall, Protected, Encrypted
    <2>3. CASE Protected(c) /\ call'.pc # "idle"
      <3>1. /\ pActive_host_session # NULL
            /\ call' = [pc |-> "transmit", cmd |-> c,
                        mac |-> OnWire(session[pActive_host_session].MAC_counter),
                        retry_count |-> MaxPollingRetry, ret |-> "BUS_ACK_ERROR"]
            /\ accepted' = 0
        BY <2>3 DEF StartTransfer, NoCall
      <3> QED
        BY <3>1 DEF CallInv, StartTransfer, TypeOK, OnWire
    <2> QED
      BY <2>1, <2>2, <2>3
  <1> QED
    BY <1>2, <1>3

\* What the transmit loop does to the call, whatever the bus reports.
LEMMA AttemptEffect ==
  ASSUME TypeOK, TransmitAttempt
  PROVE  /\ call.pc = "transmit"
         /\ call'.cmd = call.cmd
         /\ call'.mac = call.mac
         /\ \/ call'.pc = "receive" /\ DeviceTakesFrame
            \/ call'.pc \in {"transmit", "complete"} /\ call'.ret \in BusErrors
  <1>1. call \in CallRecords
    BY DEF TypeOK
  <1>2. ASSUME NEW bus, AfterAttempt(bus)
        PROVE  /\ call'.cmd = call.cmd
               /\ call'.mac = call.mac
               /\ call'.ret = bus
               /\ bus = "OK" => call'.pc = "receive"
               /\ bus # "OK" => call'.pc \in {"transmit", "complete"}
    <2> DEFINE n  == IF bus = "OK" THEN call.retry_count ELSE call.retry_count - 1
               pc == IF bus = "OK" THEN "receive"
                     ELSE IF bus = "BUS_ACK_ERROR" /\ call.retry_count > 1
                          THEN "transmit" ELSE "complete"
    <2>1. call' = [call EXCEPT !.ret = bus, !.retry_count = n, !.pc = pc]
      BY <1>2 DEF AfterAttempt
    <2>2. /\ bus = "OK" => pc = "receive"
          /\ bus # "OK" => pc \in {"transmit", "complete"}
      OBVIOUS
    <2> HIDE DEF n, pc
    <2> QED
      BY <1>1, <2>1, <2>2 DEF CallRecords
  <1> QED
    BY <1>2 DEF TransmitAttempt, BusErrors

\* An accepted C-MAC was computed under the counter of a session that agrees.
LEMMA AcceptanceAgrees ==
  ASSUME Before, Busy, ProtectedCall, MacAccepted
  PROVE  /\ pActive_host_session \in synced
         /\ accepted = 0
         /\ session[pActive_host_session].MAC_counter = sequence_counter
  <1> DEFINE p == pActive_host_session
             n == session[p].MAC_counter
  <1>1. /\ p \in Sessions /\ IsOpen(p)
        /\ accepted \in {0, 1}
        /\ sequence_counter = OnWire(n)
    BY SessionAssumption
    DEF Before, Agreement, CallInv, ActiveSessionIsOpen, MacAccepted
  <1>2. Owed(p) = accepted
    BY DEF Owed, ProtectedCall
  <1>3. n \in Nat /\ sequence_counter \in Nat /\ sequence_counter \in 0..MaxCounter
    BY <1>1, Widths DEF Before, TypeOK
  <1>4. IF p \in synced THEN n + accepted = sequence_counter
                        ELSE n < sequence_counter
    BY <1>1, <1>2 DEF Before, Agreement, CounterAgreement, MacAccepted
  <1>5. n \in 0..(WireModulus[device_type] - 1)
    <2>1. n <= sequence_counter
      BY <1>1, <1>3, <1>4
    <2> QED
      BY <1>3, <2>1, Widths DEF MaxCounter, Before, TypeOK
  <1>6. OnWire(n) = n
    BY <1>5, ModKeeps, Widths DEF OnWire, Before, TypeOK
  <1> QED
    BY <1>1, <1>3, <1>4, <1>6

LEMMA TransmitAgreement ==
  Before /\ TransmitAttempt => Agreement'
  <1> SUFFICES ASSUME Before, TransmitAttempt PROVE Agreement'
    OBVIOUS
  <1> USE DEF Before, Agreement
  <1>1. /\ call.pc = "transmit" /\ call'.cmd = call.cmd /\ call'.mac = call.mac
        /\ \/ call'.pc = "receive" /\ DeviceTakesFrame
           \/ call'.pc \in {"transmit", "complete"} /\ call'.ret \in BusErrors
    BY AttemptEffect
  <1>2. /\ UNCHANGED <<device_type, session, pActive_host_session>>
        /\ Busy /\ Busy'
        /\ ProtectedCall' <=> ProtectedCall
        /\ Protected(call.cmd) <=> ProtectedCall
        /\ Protected(call'.cmd) <=> ProtectedCall
    BY <1>1 DEF TransmitAttempt, Busy, ProtectedCall, Protected, Encrypted, TypeOK
  <1>3. DeviceAccepts \/ DeviceRejects \/ DeviceSilent
    BY DEF TransmitAttempt, DeviceTakesFrame
  <1>4. CASE UNCHANGED <<sequence_counter, accepted, synced>> /\ ~DeviceAccepts
    <2>1. \A s \in Sessions : Owed(s)' = Owed(s)
      BY <1>2, <1>4 DEF Owed
    <2>2. Exhausted' <=> Exhausted
      BY <1>2, <1>4 DEF Exhausted, MaxCounter
    <2>3. CounterAgreement'
      BY <1>2, <1>4, <2>1, <2>2 DEF CounterAgreement, IsOpen
    <2>4. ProtectedCall /\ call'.pc = "receive" => Justified(answer)'
      BY <1>1, <1>4, <2>2 DEF DeviceTakesFrame, DeviceRejects, Justified
    <2>5. call'.pc = "complete" => Justified(call.ret)'
      BY <1>1 DEF BusErrors, Justified
    <2>6. CallInv'
      BY <1>1, <1>2, <1>4, <2>4, <2>5 DEF CallInv, OnWire
    <2> QED
      BY <2>3, <2>6
  <1>5. CASE DeviceAccepts /\ ~ProtectedCall
    <2>1. UNCHANGED <<sequence_counter, synced>>
      BY <1>2, <1>5 DEF DeviceAccepts
    <2>2. \A s \in Sessions : Owed(s) = 0 /\ Owed(s)' = 0
      BY <1>2, <1>5 DEF Owed
    <2> QED
      BY <1>2, <1>5, <2>1, <2>2
      DEF CounterAgreement, CallInv, IsOpen, Exhausted, MaxCounter
  <1>6. CASE DeviceAccepts /\ ProtectedCall
    <2> DEFINE p == pActive_host_session
    <2>1. MacAccepted /\ accepted' = accepted + 1
          /\ sequence_counter' = sequence_counter + 1
          /\ synced' = synced \cap {p}
          /\ answer' \in {"OK", "OTHER_STATUS"}
      BY <1>2, <1>6 DEF DeviceAccepts
    <2>2. p \in synced /\ accepted = 0 /\ session[p].MAC_counter = sequence_counter
      BY <1>2, <1>6, <2>1, AcceptanceAgrees
    <2>3. sequence_counter \in Nat /\ ~Exhausted
      BY <2>1, Widths DEF TypeOK, MacAccepted
    <2>4. CounterAgreement'
      <3> SUFFICES ASSUME NEW s \in Sessions, IsOpen(s)
                   PROVE  IF s \in synced'
                          THEN session[s].MAC_counter + Owed(s)' = sequence_counter + 1
                          ELSE session[s].MAC_counter < sequence_counter + 1
        BY <1>2, <2>1 DEF CounterAgreement, IsOpen
      <3>1. session[s].MAC_counter \in Nat
        BY Widths DEF TypeOK
      <3>2. CASE s = p
        <4>1. Owed(s)' = 1
          BY <1>2, <1>6, <2>1, <2>2, <3>2 DEF Owed
        <4> QED
          BY <2>1, <2>2, <3>2, <4>1
      <3>3. CASE s # p
        <4>1. Owed(s) = 0
          BY <3>3 DEF Owed
        <4> QED
          BY <2>1, <2>3, <3>1, <3>3, <4>1 DEF CounterAgreement
      <3> QED
        BY <3>2, <3>3
    <2>5. Justified(answer)'
      BY <2>1, <2>2 DEF Justified
    <2>6. call'.pc = "complete" => Justified(call.ret)'
      BY <1>1 DEF BusErrors, Justified
    <2>7. CallInv'
      BY <1>1, <1>2, <1>6, <2>1, <2>2, <2>5, <2>6 DEF CallInv, OnWire, TypeOK
    <2> QED
      BY <2>4, <2>7
  <1> QED
    BY <1>3, <1>4, <1>5, <1>6 DEF DeviceRejects, DeviceSilent

LEMMA ReceiveAgreement ==
  Before /\ ReceiveAnswer => Agreement'
  <1> SUFFICES ASSUME Before, ReceiveAnswer PROVE Agreement'
    OBVIOUS
  <1> USE DEF Before, Agreement
  <1>1. PICK code \in {answer} \cup BusErrors \cup {"FRAME_CRC_ERROR"} :
            call' = [call EXCEPT !.pc = "complete", !.ret = code]
    BY DEF ReceiveAnswer
  <1>2. /\ call.pc = "receive" /\ call'.pc = "complete"
        /\ call'.cmd = call.cmd /\ call'.mac = call.mac /\ call'.ret = code
    BY <1>1 DEF ReceiveAnswer, TypeOK, CallRecords
  <1>3. /\ UNCHANGED <<device_type, session, pActive_host_session,
                       sequence_counter, answer, accepted, synced>>
        /\ Busy /\ Busy'
        /\ ProtectedCall' <=> ProtectedCall
        /\ Protected(call.cmd)' <=> Protected(call.cmd)
        /\ Exhausted' <=> Exhausted
    BY <1>2 DEF ReceiveAnswer, Busy, ProtectedCall, Protected, Encrypted,
                Exhausted, MaxCounter
  <1>4. CounterAgreement'
    <2>1. \A s \in Sessions : Owed(s)' = Owed(s)
      BY <1>3 DEF Owed
    <2> QED
      BY <1>3, <2>1 DEF CounterAgreement, IsOpen
  <1>5. ProtectedCall => Justified(call.ret)'
    BY <1>2, <1>3 DEF CallInv, Justified, BusErrors
  <1>6. CallInv'
    BY <1>2, <1>3, <1>5 DEF CallInv, OnWire
  <1> QED
    BY <1>4, <1>6

\* The host counts exactly when the command was accepted, or when the secure
\* element cannot count any more.
LEMMA CompleteAgreement ==
  Before /\ CompleteProtected => Agreement'
  <1> SUFFICES ASSUME Before, CompleteProtected PROVE Agreement'
    OBVIOUS
  <1> USE DEF Before, Agreement
  <1> DEFINE p == pActive_host_session
  <1>1. Busy /\ ProtectedCall /\ Protected(call.cmd) /\ call.pc = "complete"
    BY DEF CompleteProtected, Busy, ProtectedCall, TypeOK
  <1>2. /\ p \in Sessions /\ IsOpen(p)
        /\ accepted \in {0, 1}
        /\ accepted = 1 => p \in synced
        /\ Justified(call.ret)
    BY <1>1, SessionAssumption DEF CallInv, ActiveSessionIsOpen
  <1>3. ~Busy' /\ UNCHANGED <<sequence_counter, device_type, accepted>>
        /\ pActive_host_session' = p
    BY DEF CompleteProtected, Return, NoCall, Busy, TypeOK, CallRecords
  <1>4. CallInv'
    BY <1>3 DEF CallInv
  <1>5. CounterAgreement'
    <2> SUFFICES ASSUME ~Exhausted, NEW s \in Sessions, IsOpen(s)
                 PROVE  IF s \in synced'
                        THEN session'[s].MAC_counter = sequence_counter
                        ELSE session'[s].MAC_counter < sequence_counter
      <3>1. Exhausted' <=> Exhausted
        BY <1>3 DEF Exhausted, MaxCounter
      <3>2. \A s \in Sessions : session'[s].MAC_counter + Owed(s)'
                                = session'[s].MAC_counter
        <4> SUFFICES ASSUME NEW s \in Sessions
                     PROVE  session'[s].MAC_counter + Owed(s)'
                            = session'[s].MAC_counter
          OBVIOUS
        <4>1. Owed(s)' = 0
          BY <1>3 DEF Owed
        <4>2. session'[s].MAC_counter \in Nat
          <5>1. TypeOK'
            BY CompleteType
          <5> QED
            BY <5>1, Widths, <1>3 DEF TypeOK
        <4> QED
          BY <4>1, <4>2
      <3>3. \A s \in Sessions : IsOpen(s)' <=> IsOpen(s)
        BY CompleteSessions DEF IsOpen
      <3> QED
        BY <1>3, <3>1, <3>2, <3>3 DEF CounterAgreement
    <2>1. session[s].MAC_counter \in Nat /\ sequence_counter \in Nat
          /\ sequence_counter < MaxCounter
      BY Widths DEF TypeOK, Exhausted
    <2>2. IF s \in synced THEN session[s].MAC_counter + Owed(s) = sequence_counter
                          ELSE session[s].MAC_counter < sequence_counter
      BY DEF CounterAgreement
    <2>3. CASE s # p
      <3>1. /\ Owed(s) = 0
            /\ s \in synced' <=> s \in synced
            /\ session'[s].MAC_counter = session[s].MAC_counter
        BY <2>3, CompleteSessions DEF Owed, CompleteProtected
      <3> QED
        BY <2>1, <2>2, <3>1
    <2>4. CASE s = p /\ CounterAdvances(call.ret)
      <3>1. accepted = 1 /\ p \in synced
        BY <1>2, <2>4 DEF CounterAdvances, DeviceStatus, Justified
      <3>2. session[s].MAC_counter + 1 = sequence_counter
        BY <1>1, <2>2, <2>4, <3>1 DEF Owed
      <3>3. NextCounter(session[s].MAC_counter) = sequence_counter
        <4>1. sequence_counter \in 0..(HostModulus - 1) /\ HostModulus \in Nat \ {0}
          BY Widths DEF TypeOK
        <4> QED
          BY <3>2, <4>1, ModKeeps DEF NextCounter
      <3>4. synced' = synced
        BY <2>4 DEF CompleteProtected
      <3> QED
        BY <2>4, <3>1, <3>3, <3>4, CompleteSessions
    <2>5. CASE s = p /\ ~CounterAdvances(call.ret)
      <3>1. session'[s].MAC_counter = session[s].MAC_counter
        BY <2>5, CompleteSessions
      <3>2. Owed(s) = accepted
        BY <1>1, <2>5 DEF Owed
      <3>3. CASE accepted = 1
        <4>1. s \notin synced'
          BY <2>5, <3>3 DEF CompleteProtected
        <4> QED
          BY <1>2, <2>1, <2>2, <2>5, <3>1, <3>2, <3>3, <4>1
      <3>4. CASE accepted = 0
        <4>1. synced' = synced
          BY <3>4 DEF CompleteProtected
        <4> QED
          BY <2>1, <2>2, <3>1, <3>2, <3>4, <4>1
      <3> QED
        BY <1>2, <3>3, <3>4
    <2> QED
      BY <2>3, <2>4, <2>5
  <1> QED
    BY <1>4, <1>5

\* Every open session agrees with the secure element or is behind it
\* (CounterAgreement), and at most one acceptance happens per call.
THEOREM CountersAgree == Spec => [](CounterAgreement /\ CallInv)
  <1>1. Init => Agreement
    BY DEF Init, Agreement, CounterAgreement, CallInv, IsOpen, ClosedSession,
           NoCall, Busy
  <1>2. Before /\ [Next]_vars => Agreement'
    <2> SUFFICES ASSUME Before, [Next]_vars PROVE Agreement'
      OBVIOUS
    <2>1. CASE CompletePlain
      <3>1. /\ \A s \in Sessions : Owed(s) = 0
            /\ \A s \in Sessions : Owed(s)' = 0
            /\ ~Busy'
        BY <2>1 DEF CompletePlain, Return, NoCall, Busy, Owed
      <3> QED
        BY <2>1, <3>1
        DEF CompletePlain, Before, Agreement, CounterAgreement, CallInv, IsOpen,
            Exhausted, MaxCounter
    <2>2. CASE HostRestart
      BY <2>2
      DEF HostRestart, Agreement, CounterAgreement, CallInv, IsOpen, ClosedSession,
          NoCall, Busy
    <2>3. CASE UNCHANGED vars
      BY <2>3
      DEF vars, Before, Agreement, CounterAgreement, CallInv, IsOpen, Exhausted,
          MaxCounter, Owed, Busy, ProtectedCall, Protected, Encrypted, Justified,
          OnWire
    <2> QED
      BY <2>1, <2>2, <2>3, ManageAgreement, StartAgreement, TransmitAgreement,
         ReceiveAgreement, CompleteAgreement
      DEF Next, Step
  <1>3. Before <=> TypeOK /\ ActiveSessionIsOpen /\ Agreement
    BY DEF Before
  <1> QED
    BY <1>1, <1>2, <1>3, TypeCorrect, ActiveOpen, PTL DEF Spec, Agreement

-----------------------------------------------------------------------------
(* A host session is a secure channel                                      *)

\* A call of a command that is not protected, or of none, is no channel call.
LEMMA NoChannelCall ==
  ASSUME ~ProtectedCall', accepted' \in Nat
  PROVE  Channel!Leave
  BY DEF Channel!Leave, OutcomeOf

LEMMA ManageChannel ==
  Before /\ Manage => [Channel!Next]_Channel!channelVars
  <1> SUFFICES ASSUME Before, Manage
               PROVE  [Channel!Next]_Channel!channelVars
    OBVIOUS
  <1>1. CASE OpenHostSessionFails \/ \E s \in Sessions : OpenHostSession(s)
    <2>1. call'.cmd = NULL /\ accepted' = 0
      BY <1>1 DEF OpenHostSessionFails, OpenHostSession, NoCall
    <2>2. ~ProtectedCall'
      BY <2>1, CommandAssumption DEF ProtectedCall
    <2> QED
      BY <2>1, <2>2, NoChannelCall DEF Channel!Next
  <1>2. CASE \E s \in Sessions : CloseHostSession(s) \/ SetActiveHostSession(s)
    BY <1>2
    DEF CloseHostSession, SetActiveHostSession, Channel!channelVars, Idle,
        ProtectedCall, Protected, Encrypted, OutcomeOf
  <1> QED
    BY <1>1, <1>2 DEF Manage

LEMMA StartChannel ==
  ASSUME NEW c \in Commands, Before, StartTransfer(c)
  PROVE  [Channel!Next]_Channel!channelVars
  <1>1. /\ call'.cmd = c
        /\ accepted' = 0
        /\ Idle
        /\ ~Protected(c) \/ (call'.pc = "idle" /\ call'.ret # "OK")
           \/ call'.pc = "transmit"
    BY DEF StartTransfer, NoCall
  <1>2. ProtectedCall' <=> Protected(c)
    BY <1>1 DEF ProtectedCall, Protected, Encrypted
  <1>3. CASE ~Protected(c)
    BY <1>1, <1>2, <1>3, NoChannelCall DEF Channel!Next
  <1>4. CASE Protected(c) /\ call'.pc = "idle" /\ call'.ret # "OK"
    BY <1>1, <1>2, <1>4 DEF Channel!Next, Channel!Leave, OutcomeOf, Idle
  <1>5. CASE Protected(c) /\ call'.pc = "transmit"
    BY <1>1, <1>2, <1>5 DEF Channel!Next, Channel!Begin, OutcomeOf, Idle
  <1> QED
    BY <1>1, <1>3, <1>4, <1>5

LEMMA TransmitChannel ==
  Before /\ TransmitAttempt => [Channel!Next]_Channel!channelVars
  <1> SUFFICES ASSUME Before, TransmitAttempt
               PROVE  [Channel!Next]_Channel!channelVars
    OBVIOUS
  <1>1. /\ call.pc = "transmit" /\ call'.cmd = call.cmd
        /\ call'.pc \in {"transmit", "receive", "complete"}
    BY AttemptEffect DEF Before
  <1>2. /\ ~Idle /\ ~Idle' /\ Busy
        /\ ProtectedCall' <=> ProtectedCall
        /\ Protected(call.cmd) <=> ProtectedCall
    BY <1>1 DEF Idle, Busy, ProtectedCall, Protected, Encrypted, Before, TypeOK
  <1>3. CASE UNCHANGED accepted \/ ~ProtectedCall
    BY <1>2, <1>3 DEF Channel!channelVars, OutcomeOf
  <1>4. CASE DeviceAccepts /\ ProtectedCall
    <2>1. accepted = 0 /\ accepted' = accepted + 1
      BY <1>2, <1>4, AcceptanceAgrees DEF DeviceAccepts
    <2> QED
      BY <1>2, <1>4, <2>1 DEF Channel!Next, Channel!Accept, OutcomeOf
  <1> QED
    BY <1>3, <1>4
    DEF TransmitAttempt, DeviceTakesFrame, DeviceRejects, DeviceSilent

LEMMA CompleteChannel ==
  Before /\ CompleteProtected => [Channel!Next]_Channel!channelVars
  <1> SUFFICES ASSUME Before, CompleteProtected
               PROVE  [Channel!Next]_Channel!channelVars
    OBVIOUS
  <1>1. /\ ProtectedCall /\ ~Idle
        /\ call.ret = "OK" => accepted = 1
        /\ accepted' = accepted
    BY DEF Before, TypeOK, Agreement, CallInv, CompleteProtected, Busy, Idle,
           ProtectedCall, Justified
  <1>2. ASSUME NEW code \in CodeAfterVerification, Return(code)
        PROVE  Channel!Finish
    <2>1. /\ call'.cmd = call.cmd /\ call'.pc = "idle" /\ call'.ret = code
          /\ code = "OK" => call.ret = "OK"
      BY <1>2 DEF Return, NoCall, CodeAfterVerification
    <2>2. ProtectedCall' /\ Idle'
      BY <1>1, <2>1 DEF ProtectedCall, Protected, Encrypted, Idle
    <2> QED
      BY <1>1, <2>1, <2>2 DEF Channel!Finish, OutcomeOf
  <1>3. CASE call' = [call EXCEPT !.pc = "fault"]
    <2>1. call'.cmd = call.cmd /\ call'.pc = "fault"
      BY <1>3 DEF Before, TypeOK, CallRecords
    <2>2. ProtectedCall' /\ ~Idle'
      BY <1>1, <2>1 DEF ProtectedCall, Protected, Encrypted, Idle
    <2> QED
      BY <1>1, <2>2 DEF Channel!channelVars, OutcomeOf
  <1> QED
    BY <1>2, <1>3 DEF CompleteProtected, Channel!Next

\* Every behaviour of a host session is one of a secure channel
\* (ImplementsChannel): accepted at most once per call, OK only if accepted.
THEOREM SessionIsChannel == Spec => ImplementsChannel
  <1>1. Init => Channel!Init
    BY CommandAssumption DEF Init, Channel!Init, NoCall, Idle, ProtectedCall, OutcomeOf
  <1>2. Before /\ [Next]_vars => [Channel!Next]_Channel!channelVars
    <2> SUFFICES ASSUME Before, [Next]_vars
                 PROVE  [Channel!Next]_Channel!channelVars
      OBVIOUS
    <2>1. CASE ReceiveAnswer
      <3>1. /\ call.pc = "receive" /\ call'.pc = "complete" /\ call'.cmd = call.cmd
            /\ accepted' = accepted
        BY <2>1 DEF ReceiveAnswer, Before, TypeOK, CallRecords
      <3> QED
        BY <3>1 DEF Channel!channelVars, Idle, ProtectedCall, Protected, Encrypted,
                    OutcomeOf
    <2>2. CASE CompletePlain
      <3>1. ~ProtectedCall /\ ~ProtectedCall' /\ accepted' = accepted
        BY <2>2 DEF CompletePlain, Return, NoCall, ProtectedCall, Protected, Encrypted
      <3> QED
        BY <3>1 DEF Channel!channelVars, OutcomeOf
    <2>3. CASE HostRestart
      <3>1. ~ProtectedCall' /\ accepted' = 0
        BY <2>3, CommandAssumption DEF HostRestart, NoCall, ProtectedCall
      <3> QED
        BY <3>1, NoChannelCall DEF Channel!Next
    <2>4. CASE UNCHANGED vars
      BY <2>4 DEF vars, Channel!channelVars, Idle, ProtectedCall, Protected,
                  Encrypted, OutcomeOf
    <2> QED
      BY <2>1, <2>2, <2>3, <2>4, ManageChannel, StartChannel, TransmitChannel,
         CompleteChannel
      DEF Next, Step
  <1>3. Before <=> TypeOK /\ ActiveSessionIsOpen /\ (CounterAgreement /\ CallInv)
    BY DEF Before, Agreement
  <1> QED
    BY <1>1, <1>2, <1>3, TypeCorrect, ActiveOpen, CountersAgree, PTL
    DEF Spec, ImplementsChannel, Channel!Spec

=============================================================================
