------------------------------- MODULE DataLink -------------------------------
(***************************************************************************)
(* DataStorage on the wire: a STSAFE-L call goes through the frames its    *)
(* service builds (stsafel_data_partition.c) and the transfer of           *)
(* LFrameTransfer, step by step; a STSAFE-A call keeps the transfer of     *)
(* which only the outcome is known.  The composition implements            *)
(* DataStorage (StorageSpec): whatever the bus does, a transfer is one of  *)
(* its outcomes.                                                           *)
(***************************************************************************)
EXTENDS DataStorage

INSTANCE Frames

CONSTANTS NoisyLengths, BusTypes, MaxFrame, MaxPollingRetry   \* see LFrameTransfer

VARIABLES pc, bus_type, request, cmd, rsp, retry_count, received_length,
          filler_size, current, asked, header, answer, damaged, taken, content,
          length_damaged, ret

-----------------------------------------------------------------------------
(* The frames of the STSAFE-L services                                     *)

Header == Element("header", 1)
Access == <<Header, Element("option", 1), Element("zone_index", 1), Element("offset", 2)>>
CounterElement == Element("counter", 3)

CmdFrame(c, n) ==
    CASE c.op \in {"read", "read_counter"} -> Append(Access, Element("data_length", 2))
      [] c.op = "decrement" -> Access \o <<Element("amount", 3), Element("input", n)>>
      [] OTHER -> Append(Access, Element("input", n))

RspFrame(c, n) ==
    CASE c.op = "read" -> <<Header, Element("data", n)>>
      [] c.op = "read_counter" -> <<Header, CounterElement, Element("data", n)>>
      [] c.op = "decrement" -> <<Header, CounterElement>>
      [] OTHER -> <<Header>>

RequestFor(c, n) == [cmd |-> CmdFrame(c, n), rsp |-> RspFrame(c, n)]
LCalls == {c \in Calls : c.family = "L"}
Requests == UNION {{RequestFor(c, n) : n \in 0..c.length} : c \in LCalls}

\* What the secure element may send for a reply: its length, or another one;
\* header, payload and CRC are announced in two bytes.
Answers == [status : {"OK", "ERROR"}, payload : 0..(Word - 4)]
Room(frame) == TotalLength(Tail(frame))
AnswersFor(r, frame) ==
    IF r.status = "ERROR" THEN {[status |-> "ERROR", payload |-> 0]}
    ELSE {a \in [status : {"OK"}, payload : (Room(frame) - 1)..(Room(frame) + 1)] :
             a \in Answers}

Link == INSTANCE LFrameTransfer

ASSUME LinkAssumption ==
    /\ Link!LRetryAssumption /\ Link!LWordAssumption
    /\ Link!LBusAssumption /\ Link!LNoiseAssumption

storage == <<phase, call, remaining_length, chunk_length, chunk_offset, buffer,
             counter_value, result, zone, counter, reply, held>>
link == <<pc, bus_type, request, cmd, rsp, retry_count, received_length,
          filler_size, current, asked, header, answer, damaged, taken, content,
          length_damaged, ret>>
linkVars == <<storage, link>>

-----------------------------------------------------------------------------
(* Both families                                                           *)

LinkCall(c) == Call(c) /\ UNCHANGED link
LinkRefuses == ServiceRefuses /\ UNCHANGED link
LinkOtherTask == OtherTask /\ UNCHANGED link

(* STSAFE-A: the outcome of the transfer                                   *)

ASends == call.family = "A" /\ ServiceSends /\ UNCHANGED link
AExecutes == call.family = "A" /\ Execute /\ UNCHANGED link
APowerLoss == call.family = "A" /\ PowerLoss /\ UNCHANGED link
AReturns == call.family = "A" /\ TransferReturns /\ UNCHANGED link

(* STSAFE-L: the transfer itself                                           *)

LSends ==
    /\ call.family = "L"
    /\ ServiceSends
    /\ Link!Call(RequestFor(call, chunk_length'))

LArrives ==
    /\ pc = "transmit"
    /\ Execute
    /\ \E a \in AnswersFor(reply', request.rsp) : Link!CommandArrives(a)

LPowerLoss == pc = "transmit" /\ PowerLoss /\ Link!CommandLost
LLost == Link!CommandLost /\ UNCHANGED storage
LReceives == Link!Receive /\ UNCHANGED storage

\* The part of the payload that came into an element of the service, as the
\* places of the caller's buffer see it.
Arrived(k) ==
    LET slice == content["data"]
        p == k - (chunk_offset - call.offset)
    IN p \in 0..(slice.n - 1)
Taken(k) ==
    LET before == IF call.op = "read_counter" THEN 3 ELSE 0
    IN reply.data[content["data"].from + (k - (chunk_offset - call.offset)) - before]

ServiceDelivers ==
    /\ ret = "OK"
    /\ buffer' = IF "data" \in {e.name : e \in ToSet(request.rsp)}
                 THEN [k \in DOMAIN buffer |-> IF Arrived(k) THEN Taken(k) ELSE buffer[k]]
                 ELSE buffer
    /\ counter_value' = IF CounterElement \in ToSet(request.rsp)
                        THEN IF content["counter"] = Slice(0, 3)
                             THEN Counted(reply.counter)
                             ELSE Own("unknown")
                        ELSE counter_value
    /\ AfterService("OK")

LReturns ==
    /\ phase = "exchange" /\ call.family = "L" /\ pc = "idle"
    /\ \/ ServiceDelivers
       \/ ret # "OK" /\ Fails
    /\ UNCHANGED <<zone, counter, reply, held>>
    /\ Link!Forget

-----------------------------------------------------------------------------
LinkInit == Init /\ Link!Init

LinkHost == \/ LinkRefuses \/ ASends \/ AReturns
            \/ LSends \/ LArrives \/ LLost \/ LReceives \/ LReturns

LinkNext == \/ \E c \in Calls : LinkCall(c)
            \/ LinkHost
            \/ AExecutes \/ APowerLoss \/ LPowerLoss
            \/ LinkOtherTask

LinkSpec == LinkInit /\ [][LinkNext]_linkVars

\* A call runs on: the functions of the bus driver return.
LinkFairSpec == LinkSpec /\ WF_linkVars(LinkHost)

-----------------------------------------------------------------------------
\* The type invariant of the transfer.
LinkTypeOK == Link!TypeOK

\* What OK means on the bus of a STSAFE-L, and what a transfer leaves on the
\* frames of the service (see LFrameTransfer).
OKMeansFull == Link!OKMeansFull
FramesComeBack == Link!FramesComeBack

\* What the implementation below rests on: the transfer works for the call that
\* is at the exchange, with the frames of its service; once an answer is
\* received, it is the reply of the secure element.
Coupled ==
    /\ pc = "idle" \/ (phase = "exchange" /\ call.family = "L")
    /\ phase = "exchange" /\ call.family = "L" =>
          /\ call.op \notin Changes
          /\ request = RequestFor(call, chunk_length)
          /\ pc \notin {"transmit", "fault"} /\ (pc = "idle" => ret = "OK")
             /\ answer.status = "OK" => reply.status = "OK"

\* The services over the STSAFE-L transfer implement the services over a
\* transfer of which only the outcome is known.
StorageSpec == Spec

\* A call comes back, in as many chunks as it takes (or runs into the fault).
CallsEnd == phase # "idle" ~> phase = "idle" \/ pc = "fault"
===============================================================================
