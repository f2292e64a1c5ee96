--------------------------- MODULE LFrameTransfer ----------------------------
(***************************************************************************)
(* One command and its answer on the bus of a STSAFE-L                     *)
(* (stsafel_frame_transfer.c): stsafel_frame_raw_transfer with             *)
(* stsafel_frame_transmit and a receiver for each bus.                     *)
(*                                                                         *)
(* Over I2C an answer is announced by its length, read on its own and      *)
(* covered by no CRC, and the frame is adapted to it.  Over ST1-Wire the   *)
(* frame is as long as the caller expects the answer.  Both receivers act  *)
(* on the header of the answer before they check its CRC.                  *)
(*                                                                         *)
(* Faults are those of FrameTransfer: the bus driver may fail, and what it *)
(* delivers may be damaged; a CRC finds every damage.                      *)
(***************************************************************************)
EXTENDS Frames

CONSTANTS Requests,        \* [cmd, rsp]: the elements of the caller's frames
          Answers,         \* [status, payload]: what the secure element may say
          NoisyLengths,    \* damaged length fields
          BusTypes,        \* buses of the secure elements
          MaxFrame,        \* stsafel_maximum_frame_length
          MaxPollingRetry  \* STSE_MAX_POLLING_RETRY

Statuses == {"OK", "ERROR"}

LRetryAssumption == MaxPollingRetry \in Nat \ {0}
LWordAssumption == Word \in Nat /\ MaxFrame \in Nat /\ MaxFrame + 4 < Word
LBusAssumption == BusTypes \subseteq {"I2C", "ST1WIRE"}
LNoiseAssumption == NoisyLengths \subseteq 0..(Word - 1)
LAnswerAssumption == Answers \subseteq [status : Statuses, payload : Nat]

\* An element of a frame; its name stands for the structure of the service.
ElementNames == UNION {{e.name : e \in ToSet(r.cmd) \cup ToSet(r.rsp)} : r \in Requests}
CallerElements == ElementsOf(ElementNames \ {"crc", "filler"})
AllNames == ElementNames \cup {"crc", "filler"}

\* The elements of a response are structures of their own, the first one is the
\* header (stsafel_i2c_frame_receive refuses a frame without it).
LRequestAssumption ==
    \A r \in Requests :
        /\ r.cmd \in Seq(CallerElements) /\ r.rsp \in Seq(CallerElements)
        /\ r.rsp # << >> /\ r.rsp[1].length = 1
        /\ \A i, j \in DOMAIN r.rsp : r.rsp[i].name = r.rsp[j].name => i = j

VARIABLES pc,
          bus_type,         \* of the handle
          request,          \* the caller's frames
          cmd, rsp,         \* the two frames as the transfer has them
          retry_count,
          received_length,
          filler_size,
          current,          \* index of pCurrent_element
          asked,            \* bytes the driver was told to receive
          header,           \* status in the header element
          answer,           \* the answer the secure element holds
          damaged,          \* what is received differs from the answer
          taken,            \* payload bytes received
          content,          \* history: the slice of the payload in an element
          length_damaged,   \* history: so was the length of the answer
          ret

frames == <<bus_type, request, cmd, rsp>>
receiver == <<retry_count, received_length, filler_size, current, asked, header>>
device == <<answer, damaged, taken, content, length_damaged>>
vars == <<pc, frames, receiver, device, ret>>

BusErrors == {"BUS_ACK_ERROR", "BUS_ERR"}
Return(code) == pc' = "idle" /\ ret' = code

\* A polling loop: on a missing acknowledge it goes on while retries are left.
RetryAfterOnceMore(bus) == bus = "BUS_ACK_ERROR" /\ retry_count > 0
RetryAfter(bus) == bus = "BUS_ACK_ERROR" /\ retry_count > 1
RetriesLeft == retry_count - 1

Names == UNION {{e.name : e \in ToSet(r.rsp)} : r \in Requests}
NoRequest == [cmd |-> << >>, rsp |-> << >>]
NoAnswer == [status |-> "ERROR", payload |-> 0]
NoContent == [x \in Names |-> Slice(0, 0)]

-----------------------------------------------------------------------------
(* stsafel_frame_transmit                                                  *)

Call(r) ==
    /\ pc = "idle"
    /\ request' = r
    /\ rsp' = Frame(r.rsp)
    /\ content' = NoContent /\ taken' = 0 /\ damaged' = FALSE /\ length_damaged' = FALSE
    /\ retry_count' = MaxPollingRetry
    /\ received_length' = 0 /\ filler_size' = 0 /\ current' = 0 /\ asked' = 0
    /\ IF Frame(r.cmd).length > MaxFrame
       THEN cmd' = Frame(r.cmd) /\ Return("FRAME_SIZE_ERROR")
       ELSE cmd' = Push(Frame(r.cmd), CRC) /\ pc' = "transmit" /\ UNCHANGED ret
    /\ UNCHANGED <<bus_type, header, answer>>

\* Where the receivers begin: over ST1-Wire the CRC is pushed first.
AfterSend(bus) ==
    \/ /\ bus = "OK"
       /\ cmd' = Pop(cmd) /\ retry_count' = MaxPollingRetry
       /\ \/ /\ bus_type = "I2C"
             /\ pc' = "poll_length"
             /\ UNCHANGED <<rsp, received_length, asked>>
          \/ /\ bus_type = "ST1WIRE"
             /\ pc' = "poll_frame"
             /\ rsp' = Push(rsp, CRC)
             /\ received_length' = rsp'.length
             /\ asked' = rsp'.length
       /\ UNCHANGED ret
    \/ /\ RetryAfter(bus)
       /\ retry_count' = RetriesLeft
       /\ UNCHANGED <<pc, cmd, rsp, received_length, asked, ret>>
    \/ /\ bus # "OK" /\ ~RetryAfter(bus)
       /\ cmd' = Pop(cmd)
       /\ Return(bus)
       /\ UNCHANGED <<rsp, retry_count, received_length, asked>>

Attempt(outcomes) ==
    /\ pc = "transmit"
    /\ \E bus \in outcomes : AfterSend(bus)
    /\ UNCHANGED <<bus_type, request, filler_size, current, header, damaged, taken,
                   content, length_damaged>>

\* One pass of the loop.  A frame that reached the secure element is answered,
\* whether or not the driver saw its acknowledge.
CommandArrives(a) == Attempt({"OK"} \cup BusErrors) /\ answer' = a
CommandLost == Attempt(BusErrors) /\ UNCHANGED answer

-----------------------------------------------------------------------------
(* stsafel_i2c_frame_receive: the length of the answer                     *)

PollLength ==
    /\ pc = "poll_length"
    /\ \/ pc' = "read_length" /\ UNCHANGED <<retry_count, ret>>
       \/ \E bus \in BusErrors :
             IF RetryAfter(bus)
             THEN retry_count' = RetriesLeft /\ UNCHANGED <<pc, ret>>
             ELSE Return(bus) /\ UNCHANGED retry_count
    /\ UNCHANGED <<frames, received_length, filler_size, current, asked, header,
                   device>>

\* Header and payload of an answer whose length field is given; with its CRC.
LengthOf(field) == (field + Word - 2) % Word
WithCRC(length) == (length + 2) % Word

\* The frame is given the length of the answer: a filler, or a shorter length.
FillerFor(f, length) == IF length > f.length THEN length - f.length ELSE 0
Adjusted(f, length) ==
    IF length > f.length THEN Push(f, Filler(length - f.length))
                         ELSE [f EXCEPT !.length = length]

\* The overflow check looks at the frame of the caller, not at the length.
ReadLength ==
    /\ pc = "read_length"
    /\ \E field \in {answer.payload + 3} \cup NoisyLengths :
         LET length == LengthOf(field)
         IN /\ length_damaged' = (field # answer.payload + 3)
            /\ \/ \E bus \in BusErrors : Return(bus) /\ UNCHANGED <<frames, receiver>>
               \/ /\ rsp.length > MaxFrame
                  /\ Return("FRAME_SIZE_ERROR")
                  /\ UNCHANGED <<frames, receiver>>
               \/ /\ rsp.length <= MaxFrame
                  /\ received_length' = length
                  /\ filler_size' = FillerFor(rsp, length)
                  /\ rsp' = Adjusted(rsp, length)
                  /\ retry_count' = MaxPollingRetry
                  /\ asked' = WithCRC(length)
                  /\ pc' = "poll_frame"
                  /\ UNCHANGED <<bus_type, request, cmd, current, header, ret>>
    /\ UNCHANGED <<answer, damaged, taken, content>>

-----------------------------------------------------------------------------
(* Both receivers: the answer                                              *)

WithoutFillerKept(f) == f
WithoutFiller(f) == IF filler_size > 0 THEN Pop(f) ELSE f

\* On the exits after the CRC was pushed: over ST1-Wire it stays.
Cleaned(f) == IF bus_type = "I2C" THEN WithoutFiller(Pop(f)) ELSE f

\* Over ST1-Wire the outcome of the poll is not looked at: what is received
\* next, the driver was not asked for.
PollFrame ==
    /\ pc = "poll_frame"
    /\ \/ pc' = "read_header" /\ UNCHANGED <<retry_count, rsp, ret, damaged>>
       \/ \E bus \in BusErrors :
             \/ /\ RetryAfter(bus)
                /\ retry_count' = RetriesLeft
                /\ UNCHANGED <<pc, rsp, ret, damaged>>
             \/ /\ ~RetryAfter(bus) /\ bus_type = "I2C"
                /\ Return(bus)
                /\ rsp' = WithoutFiller(rsp)
                /\ UNCHANGED <<retry_count, damaged>>
             \/ /\ ~RetryAfter(bus) /\ bus_type = "ST1WIRE"
                /\ pc' = "read_header" /\ damaged' = TRUE
                /\ UNCHANGED <<retry_count, rsp, ret>>
    /\ UNCHANGED <<bus_type, request, cmd, received_length, filler_size, current,
                   asked, header, answer, taken, content, length_damaged>>

\* The header as it was received, or as it was when nothing was received.
HeaderReceived == IF damaged' THEN header' \in Statuses ELSE header' = answer.status

\* An error answer has a header only.
FrameForHeader(status) == IF status = "OK" THEN rsp ELSE HeaderOnly(rsp)

ReadHeaderI2C ==
    /\ pc = "read_header" /\ bus_type = "I2C"
    /\ \/ /\ \E bus \in BusErrors \cup {"BUFFER_ERR"} : Return(bus)
          /\ rsp' = WithoutFiller(rsp)
          /\ UNCHANGED <<damaged, header, current>>
       \/ /\ asked >= 1
          /\ damaged' \in BOOLEAN /\ HeaderReceived
          /\ rsp' = Push(FrameForHeader(header'), CRC)
          /\ current' = 2
          /\ pc' = "read_elements"
          /\ UNCHANGED ret
    /\ UNCHANGED <<bus_type, request, cmd, retry_count, received_length, filler_size,
                   asked, answer, taken, content, length_damaged>>

\* An error status is returned as it stands, its CRC is not read.
ReadHeaderST1Wire ==
    /\ pc = "read_header" /\ bus_type = "ST1WIRE"
    /\ damaged' \in {damaged, TRUE} /\ HeaderReceived
    /\ \/ header' = "ERROR" /\ Return("ERROR") /\ UNCHANGED <<received_length, current>>
       \/ /\ header' = "OK"
          /\ \E bus \in BusErrors : Return(bus)
          /\ UNCHANGED <<received_length, current>>
       \/ /\ header' = "OK"
          /\ received_length' = (received_length + Word - 1) % Word
          /\ current' = 2
          /\ pc' = "read_elements"
          /\ UNCHANGED ret
    /\ UNCHANGED <<frames, retry_count, filler_size, asked, answer, taken, content,
                   length_damaged>>

\* received_length still counts the header over I2C.
ElementLength(e) == IF received_length < e.length THEN received_length ELSE e.length

\* The driver refuses to deliver more than it was told to receive.
Refused(n) == 1 + taken + n > asked

ReadElement ==
    /\ pc = "read_elements"
    /\ current < Len(rsp.elements)
    /\ LET e == rsp.elements[current]
           n == ElementLength(e)
           f == [rsp EXCEPT !.elements[current].length = n]
       IN \/ /\ ~Refused(n)
             /\ rsp' = f
             /\ content' = IF e.name = "filler" THEN content
                           ELSE [content EXCEPT ![e.name] = Slice(taken, n)]
             /\ taken' = taken + n
             /\ received_length' = received_length - n
             /\ current' = current + 1
             /\ UNCHANGED <<pc, ret>>
          \/ /\ \E bus \in BusErrors \cup {"BUFFER_ERR"} :
                   /\ bus = "BUFFER_ERR" <=> Refused(n)
                   /\ Return(bus)
             /\ rsp' = Cleaned(f)
             /\ UNCHANGED <<content, taken, received_length, current>>
    /\ UNCHANGED <<bus_type, request, cmd, retry_count, filler_size, asked, header,
                   answer, damaged, length_damaged>>

\* The CRC covers exactly the answer the secure element holds.
VerifiedAlways == TRUE
VerifiedDamaged == taken = answer.payload
Verified == ~damaged /\ taken = answer.payload

\* After an error answer with a filler the header itself was popped: the status
\* is then read through a null pointer.
ReadCRC ==
    /\ pc = "read_elements"
    /\ current = Len(rsp.elements)
    /\ LET popped == WithoutFiller(Pop(rsp))
       IN \/ /\ \E bus \in BusErrors \cup {"BUFFER_ERR"} :
                   /\ bus = "BUFFER_ERR" <=> Refused(2)
                   /\ Return(bus)
             /\ rsp' = Cleaned(rsp)
          \/ /\ ~Refused(2)
             /\ rsp' = popped
             /\ \/ ~Verified /\ Return("FRAME_CRC_ERROR")
                \/ Verified /\ popped.elements # << >> /\ Return(header)
                \/ Verified /\ popped.elements = << >> /\ pc' = "fault" /\ UNCHANGED ret
    /\ UNCHANGED <<bus_type, request, cmd, receiver, device>>

-----------------------------------------------------------------------------
Init ==
    /\ pc = "idle"
    /\ bus_type \in BusTypes
    /\ request = NoRequest
    /\ cmd = Frame(request.cmd) /\ rsp = Frame(request.rsp)
    /\ retry_count = MaxPollingRetry
    /\ received_length = 0 /\ filler_size = 0 /\ current = 0 /\ asked = 0
    /\ header = "OK"
    /\ answer = NoAnswer
    /\ damaged = FALSE /\ length_damaged = FALSE
    /\ taken = 0 /\ content = NoContent
    /\ ret = "BUS_ERR"

\* The service returns: frames and locals were on its stack.
Forget ==
    /\ pc = "idle"
    /\ request' = NoRequest
    /\ cmd' = Frame(<< >>) /\ rsp' = Frame(<< >>)
    /\ retry_count' = MaxPollingRetry
    /\ received_length' = 0 /\ filler_size' = 0 /\ current' = 0 /\ asked' = 0
    /\ header' = "OK"
    /\ answer' = NoAnswer /\ damaged' = FALSE /\ length_damaged' = FALSE
    /\ taken' = 0 /\ content' = NoContent
    /\ ret' = "BUS_ERR"
    /\ UNCHANGED <<pc, bus_type>>

Receive == \/ PollLength \/ ReadLength
           \/ PollFrame \/ ReadHeaderI2C \/ ReadHeaderST1Wire \/ ReadElement \/ ReadCRC

Next == \/ \E r \in Requests : Call(r)
        \/ \E a \in Answers : CommandArrives(a)
        \/ CommandLost
        \/ Receive
        \/ Forget

Spec == Init /\ [][Next]_vars

-----------------------------------------------------------------------------
\* Type invariant; lengths stay within a PLAT_UI16.
TypeOK ==
    /\ pc \in {"idle", "fault", "transmit", "poll_length", "read_length",
               "poll_frame", "read_header", "read_elements"}
    /\ bus_type \in BusTypes
    /\ request \in Requests \cup {NoRequest}
    /\ cmd \in FramesOf(AllNames) /\ rsp \in FramesOf(AllNames)
    /\ retry_count \in 1..MaxPollingRetry
    /\ received_length \in 0..(Word - 1)
    /\ filler_size \in 0..(Word - 1)
    /\ current \in Nat /\ taken \in Nat
    /\ asked \in 0..(Word - 1)
    /\ header \in Statuses
    /\ answer \in Answers \cup {NoAnswer}
    /\ damaged \in BOOLEAN /\ length_damaged \in BOOLEAN
    /\ content \in [Names -> [from : Nat, n : Nat]]

\* OK means that the secure element said so and that every element of the
\* caller is full, with its own part of the payload: an answer shorter than
\* expected never passes, on either bus and whatever length was announced.
Before(i) == TotalLength(SubSeq(request.rsp, 2, i - 1))
Full(i) == content[request.rsp[i].name] = Slice(Before(i), request.rsp[i].length)
OKIsAuthentic == pc = "idle" /\ ret = "OK" => answer.status = "OK"
OKMeansFull ==
    /\ OKIsAuthentic
    /\ pc = "idle" /\ ret = "OK" => \A i \in 2..Len(request.rsp) : Full(i)

\* What OKIsAuthentic rests on: the header is the answer's unless something that
\* was received is damaged, which the CRC will find.
HeaderInv == pc = "read_elements" /\ ~damaged => header = answer.status

\* Over I2C no CRC and no filler, which live on the stack of the transfer, stay
\* on the frames of the caller.  The header of the caller is lost with them only
\* when an error answer had a damaged length: then the receiver, which goes on
\* to read it, faults.
FramesComeBack ==
    /\ pc = "idle" /\ bus_type = "I2C" =>
           /\ cmd = Frame(request.cmd)
           /\ {rsp.elements[i].name : i \in DOMAIN rsp.elements}
                  \subseteq {e.name : e \in ToSet(request.rsp)}
    /\ pc = "fault" => length_damaged /\ answer.status = "ERROR" /\ bus_type = "I2C"

\* What FramesComeBack rests on: while an answer is received, the response is
\* the elements of the caller (after an error over I2C the header), then a
\* filler if one was needed, then the CRC; a filler answers an announced length.
SecondRead == {"poll_frame", "read_header", "read_elements"}
HeaderLeft == pc = "read_elements" /\ header = "ERROR"
CRCs == IF pc \in SecondRead /\ (bus_type = "I2C" => pc = "read_elements") THEN 1 ELSE 0
Fillers == IF pc \in SecondRead /\ filler_size > 0 /\ ~HeaderLeft THEN 1 ELSE 0
Kept == IF HeaderLeft THEN 1 ELSE Len(request.rsp)
FramesInv ==
    /\ cmd = IF pc = "transmit" THEN Push(Frame(request.cmd), CRC) ELSE Frame(request.cmd)
    /\ pc \in {"transmit", "poll_length", "read_length"} => rsp = Frame(request.rsp)
    /\ pc \notin {"idle", "fault"} => request \in Requests
    /\ bus_type = "ST1WIRE" \/ pc \in {"transmit", "poll_length", "read_length"} => filler_size = 0
    /\ pc \in {"poll_length", "read_length"} => bus_type = "I2C"
    /\ pc \in SecondRead =>
          /\ Len(rsp.elements) = Kept + Fillers + CRCs
          /\ \A i \in 1..Kept : rsp.elements[i].name = request.rsp[i].name
          /\ Fillers = 1 => rsp.elements[Kept + 1].name = "filler"
          /\ ~length_damaged /\ filler_size > 0 =>
                 LengthOf(answer.payload + 3) > Frame(request.rsp).length
    /\ pc = "idle" /\ bus_type = "I2C" =>
          \A i \in DOMAIN rsp.elements :
             i <= Len(request.rsp) /\ rsp.elements[i].name = request.rsp[i].name

\* What OKMeansFull rests on: as long as what was announced is not used up, the
\* elements so far are full, and what was announced is what is asked for.
FillInv ==
    /\ pc \notin {"idle", "fault", "read_elements"} => taken = 0
    /\ pc \in SecondRead =>
          /\ \A i \in 2..Kept : (pc = "read_elements" => current <= i) =>
                                   rsp.elements[i] = request.rsp[i]
          /\ taken + received_length < Word
          /\ IF bus_type = "I2C" THEN asked = WithCRC(taken + received_length)
             ELSE asked = (taken + received_length
                             + (IF pc = "read_elements" THEN 1 ELSE 0)) % Word
    /\ pc = "read_elements" =>
          /\ current \in 2..Len(rsp.elements)
          /\ received_length > 0 =>
                /\ \A i \in 2..Kept : i < current => Full(i)
                /\ current <= Kept + 1 => taken = Before(current)
===============================================================================
