---------------------------- MODULE FrameTransfer ----------------------------
(***************************************************************************)
(* One command and its answer on the bus of a STSAFE-A                     *)
(* (stsafea_frame_transfer.c): stsafea_frame_raw_transfer with its two     *)
(* halves, stsafea_frame_transmit and stsafea_frame_receive.               *)
(*                                                                         *)
(* A frame is a list of elements the caller owns.  The transfer borrows    *)
(* it: a CRC element, and a filler for what the caller has no room for,    *)
(* live on the stack of the transfer and hang on the list while it runs.   *)
(* An answer is read twice: a first read finds its length, a second one    *)
(* scatters it over the elements.  Only the second read of an answer with  *)
(* a payload is covered by the CRC, the first one is used all the same.    *)
(*                                                                         *)
(* Every call of the bus driver may fail, and what it delivers may be      *)
(* damaged.  A CRC finds every damage.  Payload bytes are abstracted to    *)
(* their position in the answer.                                           *)
(***************************************************************************)
EXTENDS Frames

CONSTANTS Requests,        \* [cmd, rsp]: the elements of the caller's frames
          Answers,         \* [status, payload]: what the secure element may say
          NoisyLengths,    \* length fields a damaged first read may deliver
          MaxFrame,        \* stsafea_maximum_frame_length of the product
          MaxPollingRetry  \* STSE_MAX_POLLING_RETRY

Statuses == {"OK", "ERROR"}

ASSUME RetryAssumption == MaxPollingRetry \in Nat \ {0}
ASSUME WordAssumption == Word \in Nat /\ MaxFrame \in Nat /\ MaxFrame + 4 < Word
ASSUME AnswerAssumption ==
    \A a \in Answers : /\ a.status \in Statuses
                       /\ a.payload \in 0..(MaxFrame - 1)
ASSUME NoiseAssumption == NoisyLengths \subseteq 0..(Word - 1)

\* An element of a frame; its name stands for the structure of the service.
ElementNames == UNION {{e.name : e \in ToSet(r.cmd) \cup ToSet(r.rsp)} : r \in Requests}
CallerElements == ElementsOf(ElementNames \ {"crc", "filler"})
AllNames == ElementNames \cup {"crc", "filler"}
Elements == ElementsOf(AllNames)
AnyFrame == FramesOf(AllNames)

\* The elements of a response are structures of their own, the first one has
\* the header (stsafea_frame_receive refuses a frame without it).
ASSUME RequestAssumption ==
    \A r \in Requests :
        /\ r.cmd \in Seq(CallerElements) /\ r.rsp \in Seq(CallerElements)
        /\ r.rsp # << >>
        /\ \A i, j \in DOMAIN r.rsp : r.rsp[i].name = r.rsp[j].name => i = j

VARIABLES pc,
          request,          \* the caller's frames
          cmd, rsp,         \* the two frames as the transfer has them
          retry_count,
          received_header,  \* status of the first read
          received_length,
          filler_size,
          current,          \* index of pCurrent_element
          answer,           \* the answer the secure element holds
          damaged,          \* the second read differs from the answer
          taken,            \* payload bytes taken from the second read
          content,          \* history: the slice of the payload in an element
          ret

host == <<request, cmd, rsp, retry_count, received_header, received_length,
          filler_size, current>>
device == <<answer, damaged, taken, content>>
vars == <<pc, host, device, ret>>

-----------------------------------------------------------------------------
(* Results                                                                 *)

BusErrors == {"BUS_ACK_ERROR", "BUS_ERR"}
ReturnCodes == Statuses \cup BusErrors
               \cup {"FRAME_SIZE_ERROR", "FRAME_CRC_ERROR", "BUFFER_ERR"}

Return(code) == pc' = "idle" /\ ret' = code

\* A polling loop: on a missing acknowledge it goes on while retries are left.
RetryAfterOnceMore(bus) == bus = "BUS_ACK_ERROR" /\ retry_count > 0
RetryAfter(bus) == bus = "BUS_ACK_ERROR" /\ retry_count > 1
RetriesLeftKept == retry_count
RetriesLeft == retry_count - 1

Names == UNION {{e.name : e \in ToSet(r.rsp)} : r \in Requests}
NoContent == [x \in Names |-> Slice(0, 0)]

-----------------------------------------------------------------------------
(* stsafea_frame_transmit                                                  *)

Call(r) ==
    /\ pc = "idle"
    /\ request' = r
    /\ rsp' = Frame(r.rsp)
    /\ content' = NoContent
    /\ retry_count' = MaxPollingRetry
    /\ received_header' = "OK" /\ received_length' = 0
    /\ filler_size' = 0 /\ current' = 0 /\ taken' = 0
    /\ IF Frame(r.cmd).length > MaxFrame
       THEN cmd' = Frame(r.cmd) /\ Return("FRAME_SIZE_ERROR")
       ELSE /\ cmd' = Push(Frame(r.cmd), CRC)
            /\ pc' = "transmit"
            /\ UNCHANGED ret
    /\ UNCHANGED <<answer, damaged>>

\* The C-frame without its CRC, on every exit of the loop.
CmdAfterTransmit == Pop(cmd)

AfterSend(bus) ==
    \/ /\ bus = "OK"
       /\ pc' = "poll_length" /\ retry_count' = MaxPollingRetry
       /\ cmd' = CmdAfterTransmit
       /\ UNCHANGED ret
    \/ /\ RetryAfter(bus)
       /\ retry_count' = RetriesLeft
       /\ UNCHANGED <<pc, cmd, ret>>
    \/ /\ bus # "OK" /\ ~RetryAfter(bus)
       /\ cmd' = CmdAfterTransmit
       /\ Return(bus)
       /\ UNCHANGED retry_count

\* One pass of the loop; a frame that reached the secure element is answered,
\* whether or not the driver saw its acknowledge.
TransmitAttempt ==
    /\ pc = "transmit"
    /\ \/ answer' \in Answers /\ \E bus \in {"OK"} \cup BusErrors : AfterSend(bus)
       \/ UNCHANGED answer /\ \E bus \in BusErrors : AfterSend(bus)
    /\ UNCHANGED <<request, rsp, received_header, received_length, filler_size,
                   current, damaged, taken, content>>

-----------------------------------------------------------------------------
(* stsafea_frame_receive: the first read                                   *)

PollLength ==
    /\ pc = "poll_length"
    /\ \/ pc' = "read_length" /\ UNCHANGED <<retry_count, ret>>
       \/ \E bus \in BusErrors :
             IF RetryAfter(bus)
             THEN retry_count' = RetriesLeft /\ UNCHANGED <<pc, ret>>
             ELSE Return(bus) /\ UNCHANGED retry_count
    /\ UNCHANGED <<request, cmd, rsp, received_header, received_length,
                   filler_size, current, device>>

ReadLengthFails ==
    /\ pc = "read_length"
    /\ \E bus \in BusErrors : Return(bus)
    /\ UNCHANGED <<host, device>>

\* Header and payload of an answer whose length field is given.
LengthOf(field) == (field + Word - 2 + 1) % Word
TrueLength == answer.payload + 1

FrameForStatus(header) == IF header = "OK" THEN rsp ELSE HeaderOnly(rsp)

\* The frame is given the length of the answer: a filler, or a shorter length.
FillerFor(f, length) == IF length > f.length THEN length - f.length ELSE 0
Adjusted(f, length) ==
    IF length > f.length THEN Push(f, Filler(length - f.length))
                         ELSE [f EXCEPT !.length = length]

\* A payload-less answer is complete with its first read and its CRC.
FirstReadVerifiedAlways(header, length) == TRUE
FirstReadVerified(header, length) ==
    header = answer.status /\ length = TrueLength

ReadLength ==
    /\ pc = "read_length"
    /\ \E header \in Statuses, field \in {answer.payload + 2} \cup NoisyLengths :
         LET length == LengthOf(field)
             frame == FrameForStatus(header)
         IN \/ /\ length > MaxFrame
               /\ Return("FRAME_SIZE_ERROR")
               /\ UNCHANGED host
            \/ /\ length <= MaxFrame
               /\ received_header' = header
               /\ received_length' = length
               /\ \/ /\ length = 1
                     /\ rsp' = frame
                     /\ \/ FirstReadVerified(header, length) /\ Return(header)
                        \/ Return("FRAME_CRC_ERROR")
                     /\ UNCHANGED <<filler_size, retry_count>>
                  \/ /\ length # 1
                     /\ filler_size' = FillerFor(frame, length)
                     /\ rsp' = Adjusted(frame, length)
                     /\ retry_count' = MaxPollingRetry
                     /\ pc' = "poll_frame"
                     /\ UNCHANGED ret
               /\ UNCHANGED <<request, cmd, current>>
    /\ UNCHANGED device

-----------------------------------------------------------------------------
(* stsafea_frame_receive: the second read                                  *)

WithoutFillerKept(f) == f
WithoutFiller(f) == IF filler_size > 0 THEN Pop(f) ELSE f

PollFrame ==
    /\ pc = "poll_frame"
    /\ \/ pc' = "read_header" /\ UNCHANGED <<retry_count, rsp, ret>>
       \/ \E bus \in BusErrors :
             IF RetryAfter(bus)
             THEN retry_count' = RetriesLeft /\ UNCHANGED <<pc, rsp, ret>>
             ELSE Return(bus) /\ rsp' = WithoutFiller(rsp) /\ UNCHANGED retry_count
    /\ UNCHANGED <<request, cmd, received_header, received_length, filler_size,
                   current, device>>

\* The header goes to its element, the length is dropped, the CRC is pushed.
ReadHeader ==
    /\ pc = "read_header"
    /\ \/ /\ \E bus \in BusErrors : Return(bus)
          /\ rsp' = WithoutFiller(rsp)
          /\ UNCHANGED <<damaged, received_length, current>>
       \/ /\ damaged' \in BOOLEAN
          /\ received_length' = (received_length + Word - 1) % Word
          /\ rsp' = Push(rsp, CRC)
          /\ current' = 2
          /\ pc' = "read_elements"
          /\ UNCHANGED ret
    /\ UNCHANGED <<request, cmd, retry_count, received_header, filler_size,
                   answer, taken, content>>

\* What BusRecvStart was asked for, after header and length: payload and CRC.
\* The driver refuses to deliver more than that.
BytesAnnounced == rsp.length - 1

ElementLength(e) == IF received_length < e.length THEN received_length ELSE e.length

\* The frame without CRC and filler, on every exit from here.
Cleaned(f) == WithoutFiller(Pop(f))

ReadElement ==
    /\ pc = "read_elements"
    /\ current < Len(rsp.elements)
    /\ LET e == rsp.elements[current]
           n == ElementLength(e)
           f == [rsp EXCEPT !.elements[current].length = n]
       IN \/ /\ taken + n <= BytesAnnounced
             /\ rsp' = f
             /\ content' = IF e.name = "filler" THEN content
                           ELSE [content EXCEPT ![e.name] = Slice(taken, n)]
             /\ taken' = taken + n
             /\ received_length' = received_length - n
             /\ current' = current + 1
             /\ UNCHANGED <<pc, ret>>
          \/ /\ \E bus \in BusErrors \cup {"BUFFER_ERR"} :
                   /\ bus = "BUFFER_ERR" <=> taken + n > BytesAnnounced
                   /\ Return(bus)
             /\ rsp' = Cleaned(f)
             /\ UNCHANGED <<content, taken, received_length, current>>
    /\ UNCHANGED <<request, cmd, retry_count, received_header, filler_size,
                   answer, damaged>>

\* The CRC covers exactly the answer the secure element holds.
SecondReadVerifiedAlways == TRUE
SecondReadVerified == ~damaged /\ taken = answer.payload

\* The last element is the CRC.
ReadCRC ==
    /\ pc = "read_elements"
    /\ current = Len(rsp.elements)
    /\ rsp' = Cleaned(rsp)
    /\ \/ \E bus \in BusErrors : Return(bus)
       \/ SecondReadVerified /\ Return(answer.status)
       \/ ~SecondReadVerified /\ Return("FRAME_CRC_ERROR")
    /\ UNCHANGED <<request, cmd, retry_count, received_header, received_length,
                   filler_size, current, device>>

-----------------------------------------------------------------------------
Init ==
    /\ pc = "idle"
    /\ request \in Requests
    /\ cmd = Frame(request.cmd) /\ rsp = Frame(request.rsp)
    /\ retry_count = MaxPollingRetry
    /\ received_header = "OK" /\ received_length = 0
    /\ filler_size = 0 /\ current = 0 /\ taken = 0
    /\ answer \in Answers /\ damaged = FALSE
    /\ content = NoContent
    /\ ret = "BUS_ERR"

Step == \/ TransmitAttempt
        \/ PollLength \/ ReadLengthFails \/ ReadLength
        \/ PollFrame \/ ReadHeader \/ ReadElement \/ ReadCRC

Next == Step \/ \E r \in Requests : Call(r)

Spec == Init /\ [][Next]_vars

\* A call runs on: the functions of the bus driver return.
FairSpec == Spec /\ WF_vars(Step)

-----------------------------------------------------------------------------
\* Type invariant; lengths stay within a PLAT_UI16.
TypeOK ==
    /\ pc \in {"idle", "transmit", "poll_length", "read_length", "poll_frame",
               "read_header", "read_elements"}
    /\ request \in Requests
    /\ cmd \in AnyFrame /\ rsp \in AnyFrame
    /\ retry_count \in 1..MaxPollingRetry
    /\ received_header \in Statuses
    /\ received_length \in 0..(Word - 1)
    /\ filler_size \in 0..MaxFrame
    /\ current \in Nat /\ taken \in Nat
    /\ answer \in Answers
    /\ damaged \in BOOLEAN
    /\ content \in [Names -> [from : Nat, n : Nat]]
    /\ ret \in ReturnCodes

\* On every return the caller has its frames back: the command unchanged, and
\* the response a prefix of the caller's elements, none of them longer.  A
\* CRC or filler left behind would be a pointer into a dead stack frame.
FramesRestored ==
    pc = "idle" =>
        /\ cmd = Frame(request.cmd)
        /\ Len(rsp.elements) \in 1..Len(request.rsp)
        /\ \A i \in DOMAIN rsp.elements :
              /\ rsp.elements[i].name = request.rsp[i].name
              /\ rsp.elements[i].length <= request.rsp[i].length

\* A status that is returned is the status of the answer, whatever the first
\* read delivered: every path to it passes a CRC that covers the header.
StatusIsAuthentic == pc = "idle" /\ ret \in Statuses => ret = answer.status

\* The payload an element of the caller must receive: elements in order, each
\* as long as it has room and payload is left.
AtMost(n, bound) == IF n < bound THEN n ELSE bound
Before(i) == TotalLength(SubSeq(request.rsp, 2, i - 1))
Part(i, total) ==
    LET from == AtMost(Before(i), total)
    IN Slice(from, AtMost(total - from, request.rsp[i].length))
Expected(i) == Part(i, answer.payload)
Delivered == \A i \in 2..Len(request.rsp) :
                 LET slice == content[request.rsp[i].name]
                 IN \/ slice = Expected(i)
                    \/ slice.n = 0 /\ Expected(i).n = 0

\* A successful call filled the caller's elements, in order and without gaps
\* (when the first read delivered the header of the answer).
DeliveredInOrder ==
    pc = "idle" /\ ret = "OK" /\ received_header = answer.status => Delivered

\* What the properties above rest on: while a transfer runs, the response is
\* elements of the caller, then a filler if one was needed, then the CRC ...
SecondRead == {"poll_frame", "read_header", "read_elements"}
CRCs == IF pc = "read_elements" THEN 1 ELSE 0
Fillers == IF filler_size > 0 /\ pc \in SecondRead THEN 1 ELSE 0
Kept == Len(rsp.elements) - (CRCs + Fillers)
FramesInv ==
    /\ cmd = IF pc = "transmit" THEN Push(Frame(request.cmd), CRC) ELSE Frame(request.cmd)
    /\ Kept \in 1..Len(request.rsp)
    /\ \A i \in 1..Kept : /\ rsp.elements[i].name = request.rsp[i].name
                          /\ rsp.elements[i].length <= request.rsp[i].length
    /\ pc \in {"transmit", "poll_length", "read_length"} => rsp = Frame(request.rsp)
    /\ Fillers = 1 => rsp.elements[Kept + 1].name = "filler"
    /\ pc \in SecondRead /\ received_header = "OK" => Kept = Len(request.rsp)

\* ... of which the elements up to the current one have their part of what was
\* announced, and the others their whole length.
Announced == taken + received_length
FillInv ==
    /\ pc \notin {"idle", "read_elements"} => taken = 0 /\ content = NoContent
    /\ pc = "read_elements" =>
          /\ current \in 2..Len(rsp.elements)
          /\ \A i \in 2..Kept : i < current =>
                /\ content[request.rsp[i].name] = Part(i, Announced)
                /\ received_length > 0 => Before(i + 1) <= taken
          /\ current <= Kept + 1 => taken = AtMost(Before(current), Announced)
    /\ \A i \in 2..Kept : pc \in SecondRead /\ (pc = "read_elements" => current <= i) =>
                             rsp.elements[i] = request.rsp[i]

\* The header of the first read is discarded (the comment above its read):
\* it has no influence on what a successful call delivers.
HeaderIsDiscarded == pc = "idle" /\ ret = "OK" => Delivered

\* A call comes back: no answer of the bus keeps it polling for ever.
CallsReturn == pc # "idle" ~> pc = "idle"
=============================================================================
