----------------------------- MODULE DataStorage ------------------------------
(***************************************************************************)
(* The data zones of a secure element: the API (stse_data_storage.c) and   *)
(* the zone services of both families (stsafea_data_partition.c,           *)
(* stsafel_data_partition.c), over a transfer of which only the outcome is *)
(* known: the command was executed or not, once or (after a lost           *)
(* acknowledge) again, and its answer arrives or not.                      *)
(*                                                                         *)
(* A byte of a zone is the version it was last written with; what a read   *)
(* delivers is that version with the place it was read from.  The secure   *)
(* element has one data zone with a counter; another task of the host      *)
(* updates it too.                                                         *)
(***************************************************************************)
EXTENDS Integers

CONSTANTS Calls,        \* the calls of the application
          ZoneSize,     \* bytes of the zone
          Versions,     \* what may be written
          OtherVersions,\* what the other task writes
          FirstCounter, \* the counter as personalised
          Word,         \* 2^(bits of a PLAT_UI16)
          Byte,         \* 2^(bits of a PLAT_UI8)
          LAmountRange, \* 2^24: a STSAFE-L amount has three bytes
          AMaxFrame     \* stsafea_maximum_frame_length of the product

Reads == {"read", "read_counter", "change_read"}
Writes == {"update", "change_update", "decrement", "change_decrement"}
Decrements == {"decrement", "change_decrement"}
Changes == {"change_read", "change_update", "change_decrement"}
Counting == Decrements \cup {"read_counter"}

Positions == 0..(ZoneSize - 1)
MaxLength == CHOOSE n \in {c.length : c \in Calls} : \A c \in Calls : c.length <= n

ASSUME ZoneAssumption ==
    /\ ZoneSize \in Nat \ {0} /\ Word \in Nat /\ ZoneSize < Word
    /\ Byte \in Nat \ {0} /\ LAmountRange \in Nat \ {0}
    /\ FirstCounter \in Nat
    /\ Versions # {} /\ OtherVersions \subseteq Versions
ASSUME CallAssumption ==
    /\ Calls # {}
    /\ \A c \in Calls : /\ c.op \in Reads \cup Writes
                        /\ c.family \in {"A", "L"}
                        /\ {c.offset, c.length, c.chunk} \subseteq 0..(Word - 1)
                        /\ c.amount \in Nat /\ c.version \in Versions

VARIABLES phase,
          call,                   \* the arguments of the call
          remaining_length, chunk_length, chunk_offset,
          buffer,                 \* what the call left at a place of pBuffer
          counter_value,          \* and at the place of the counter
          result,
          zone, counter,          \* the secure element
          reply,                  \* its answer to the command under way
          held                    \* history: <<zone, counter>> since the call

progress == <<call, remaining_length, chunk_length, chunk_offset>>
element == <<zone, counter>>
vars == <<phase, progress, buffer, counter_value, result, element, reply, held>>

Cell(kind) == [kind |-> kind]
ByteAt(i) == [kind |-> "byte", at |-> i, version |-> zone[i]]
Untouched == [k \in 0..MaxLength |-> Cell("untouched")]

\* What a variable of the host holds: its own value, or one of the counter.
Own(kind) == [kind |-> kind]
Counted(n) == [kind |-> "counter", value |-> n]
None == [status |-> "NONE"]
Moment == [zone |-> zone, counter |-> counter]

-----------------------------------------------------------------------------
(* The API                                                                 *)

Looping == {"read", "read_counter"}

Call(c) ==
    /\ phase = "idle"
    /\ call' = c
    /\ remaining_length' = c.length
    /\ chunk_length' = 0
    /\ chunk_offset' = c.offset
    /\ buffer' = Untouched
    /\ counter_value' = Own("kept")
    /\ held' = {Moment}
    /\ phase' = "service"
    /\ reply' = None
    /\ UNCHANGED <<result, element>>

\* A chunk of zero bytes asks for everything at once.
ChunkOfZero(c, left) == IF left > c.chunk THEN c.chunk ELSE left
ChunkAlways(c, left) == IF c.chunk # 0 THEN c.chunk ELSE left
Chunk(c, left) == IF c.chunk # 0 /\ left > c.chunk THEN c.chunk ELSE left

Place(offset) == offset - call.offset
AfterChunkSame(offset, n) == offset
AfterChunk(offset, n) == (offset + n) % Word

Return(code) == phase' = "idle" /\ result' = code

\* The loop ends with the first error, or when nothing is left.
AfterService(code) ==
    /\ remaining_length' = remaining_length - chunk_length
    /\ chunk_offset' = AfterChunk(chunk_offset, chunk_length)
    /\ IF code = "OK" /\ call.op \in Looping /\ remaining_length' > 0
       THEN phase' = "service" /\ UNCHANGED result
       ELSE Return(code)
    /\ UNCHANGED <<call, chunk_length>>

-----------------------------------------------------------------------------
(* The services: the arguments they refuse                                 *)

ARefuses(c, n) ==
    \/ c.op = "read" /\ n = 0
    \/ c.op \in {"update", "change_update"} /\ n = 0
    \/ c.op \in Decrements /\ c.amount = 0
    \/ c.protection \notin {"NO_PROT", "C_MAC_R_MAC"}
    \/ (IF c.op \in Decrements THEN n % Byte ELSE n) >= AMaxFrame

\* The calls that change an access condition take the STSAFE-A services for any
\* handle; with a STSAFE-L one the transfer refuses the device type.
Refused(c, n) == \/ c.family = "A" /\ ARefuses(c, n)
                 \/ c.family = "L" /\ c.op \in Changes

ServiceLength(c) == IF c.op \in Looping THEN Chunk(c, remaining_length) ELSE c.length

ServiceRefuses ==
    /\ phase = "service"
    /\ Refused(call, ServiceLength(call))
    /\ Return("INVALID_PARAMETER")
    /\ UNCHANGED <<progress, buffer, counter_value, element, reply, held>>

ServiceSends ==
    /\ phase = "service"
    /\ ~Refused(call, ServiceLength(call))
    /\ chunk_length' = ServiceLength(call)
    /\ phase' = "exchange"
    /\ reply' = None
    /\ UNCHANGED <<call, remaining_length, chunk_offset, buffer, counter_value,
                   result, element, held>>

-----------------------------------------------------------------------------
(* The command on the wire and the secure element                          *)

\* Zone indices and the data length of a STSAFE-A decrement are cut to a byte,
\* STSAFE-L amounts to three.
SentZone == call.zone % Byte
SentLengthByte == chunk_length % Byte
SentLength == IF call.op \in Decrements /\ call.family = "A"
              THEN chunk_length % Byte ELSE chunk_length
SentAmountCut == call.amount % LAmountRange
SentAmount == IF call.family = "L" THEN call.amount % LAmountRange ELSE call.amount

\* update_data_zone drops the atomicity its caller asks for.
SentAtomic == call.op = "change_update" /\ call.atomic

Granted == /\ SentZone = 0
           /\ chunk_offset + SentLength <= ZoneSize
           /\ call.op \in Decrements => SentAmount <= counter

Written(n) == [i \in Positions |-> IF chunk_offset <= i /\ i < chunk_offset + n
                                   THEN call.version ELSE zone[i]]
Answer(status) ==
    [status |-> status, counter |-> counter',
     data |-> [k \in 0..((IF call.op \in Reads THEN chunk_length ELSE 0) - 1) |->
                 ByteAt(chunk_offset + k)]]

\* The secure element executes the command, or refuses it (for its access
\* condition, say); a retransmission makes it do so again.
Execute ==
    /\ phase = "exchange"
    /\ \/ /\ Granted
          /\ zone' = IF call.op \in Writes THEN Written(SentLength) ELSE zone
          /\ counter' = IF call.op \in Decrements THEN counter - SentAmount ELSE counter
          /\ reply' = Answer("OK")
       \/ /\ reply' = [status |-> "ERROR"]
          /\ counter' = counter
          /\ zone' = zone
    /\ held' = held \cup {Moment'}
    /\ UNCHANGED <<phase, progress, buffer, counter_value, result>>

\* The secure element loses its power in the middle of an update: only one that
\* is sent as atomic is all or nothing.
PowerLoss ==
    /\ phase = "exchange"
    /\ Granted /\ call.op \in {"update", "change_update"} /\ ~SentAtomic
    /\ \E n \in 1..(SentLength - 1) : zone' = Written(n)
    /\ reply' = None
    /\ UNCHANGED <<phase, progress, buffer, counter_value, result, counter>>
    /\ held' = held \cup {Moment'}

InChunk(k) == Place(chunk_offset) <= k /\ k < Place(chunk_offset) + chunk_length

\* The answer arrives: data go to their place in the buffer, the counter to its
\* variable, in the byte order of the host.
Delivers ==
    /\ reply.status = "OK"
    /\ buffer' = IF call.op \in Reads
                 THEN [k \in DOMAIN buffer |->
                         IF InChunk(k) THEN reply.data[k - Place(chunk_offset)]
                                       ELSE buffer[k]]
                 ELSE buffer
    /\ counter_value' = IF call.op \in Counting THEN Counted(reply.counter) ELSE counter_value
    /\ AfterService("OK")

\* The STSAFE-A transfer takes the elements of the service off the response when
\* the first of its two reads brings a damaged status; the second read is that
\* of an intact answer, and OK is returned with nothing delivered.  A service
\* swaps the bytes of its counter all the same.  (With a session the R-MAC is
\* taken off as well, and the call fails.)
Swapped(value) == Own(CASE value.kind = "kept" -> "swapped"
                        [] value.kind = "swapped" -> "kept"
                        [] OTHER -> "unknown")
DeliversNothing ==
    /\ call.family = "A" /\ call.protection = "NO_PROT"
    /\ reply.status = "OK"
    /\ counter_value' = IF call.op \in Counting THEN Swapped(counter_value) ELSE counter_value
    /\ AfterService("OK")
    /\ UNCHANGED buffer

\* After a failure the chunk may hold anything.  A STSAFE-A service receives into
\* the variable of the counter and swaps its bytes whatever the transfer
\* returned; a STSAFE-L one writes it after a success only.
CounterAfterFailure ==
    IF call.family = "A" /\ call.op \in Counting
    THEN {Swapped(counter_value), Own("unknown")}
    ELSE {counter_value}
Fails ==
    /\ buffer' = IF call.op \in Reads
                 THEN [k \in DOMAIN buffer |-> IF InChunk(k) THEN Cell("unknown") ELSE buffer[k]]
                 ELSE buffer
    /\ counter_value' \in CounterAfterFailure
    /\ \E code \in {"ERROR", "FAILED"} : AfterService(code)

TransferReturns ==
    /\ phase = "exchange"
    /\ Delivers \/ DeliversNothing \/ Fails
    /\ UNCHANGED <<element, reply, held>>

-----------------------------------------------------------------------------
\* Another task, with a handle of its own, between two transfers of a call.
OtherTask ==
    /\ phase # "exchange"
    /\ \E v \in OtherVersions : zone' = [i \in Positions |-> v]
    /\ UNCHANGED <<phase, progress, buffer, counter_value, result, counter,
                   reply>>
    /\ held' = held \cup {Moment'}

Init ==
    /\ phase = "idle"
    /\ call = CHOOSE c \in Calls : TRUE         \* no call yet
    /\ remaining_length = 0 /\ chunk_length = 0 /\ chunk_offset = 0
    /\ buffer = Untouched
    /\ counter_value = Own("kept")
    /\ result = "INVALID_PARAMETER"
    /\ zone = [i \in Positions |-> CHOOSE v \in Versions : TRUE]
    /\ counter = FirstCounter
    /\ reply = None
    /\ held = {Moment}

Host == ServiceRefuses \/ ServiceSends \/ TransferReturns
Next == \/ \E c \in Calls : Call(c)
        \/ Host
        \/ Execute \/ PowerLoss
        \/ OtherTask

Spec == Init /\ [][Next]_vars

-----------------------------------------------------------------------------
\* Type invariant of the call and of the secure element.
TypeOK ==
    /\ phase \in {"idle", "service", "exchange"}
    /\ call \in Calls
    /\ {remaining_length, chunk_length, chunk_offset} \subseteq 0..(Word - 1)
    /\ zone \in [Positions -> Versions]
    /\ counter \in 0..FirstCounter
    /\ counter_value.kind \in {"kept", "swapped", "unknown", "counter"}
    /\ reply.status \in {"OK", "ERROR", "NONE"}
    /\ result \in {"OK", "ERROR", "FAILED", "INVALID_PARAMETER"}

Genuine(k) == buffer[k].kind = "byte"
SameChunk(j, k) == call.chunk = 0 \/ j \div call.chunk = k \div call.chunk

FromZone(k, m) == /\ Genuine(k)
                  /\ buffer[k].at = call.offset + k
                  /\ buffer[k].version = m.zone[call.offset + k]

\* A byte of a STSAFE-A chunk whose OK delivered nothing: as the caller left it.
Missed(k) == call.family = "A" /\ buffer[k] = Cell("untouched")

\* Whenever a read stands, a chunk is in its buffer as a whole or not at all:
\* the bytes of the zone from the place the caller asked for, as they were at
\* one moment of the call (chunks may be of different moments); no chunk comes
\* before an earlier one, nothing is written beyond the request, and after a
\* success all of it is there.  Named exception, STSAFE-A only: a chunk whose
\* first read was damaged is missing behind an OK, its bytes as they were.
ReadDelivers ==
    call.op \in Reads =>
        /\ \A k \in DOMAIN buffer : Genuine(k) =>
              /\ k < call.length
              /\ \A j \in 0..k : Genuine(j) \/ Missed(j)
              /\ \E m \in held : \A j \in DOMAIN buffer :
                    j < call.length /\ SameChunk(j, k) => FromZone(j, m)
        /\ phase = "idle" /\ result = "OK" =>
              \A k \in DOMAIN buffer : k < call.length => Genuine(k) \/ Missed(k)

\* A chunk is received inside the buffer of the caller, although the offset of
\* a chunk is computed in 16 bits: the secure element refuses the chunk before
\* the one that would wrap.
ChunkInBuffer ==
    phase = "exchange" /\ call.op \in Reads =>
        /\ Place(chunk_offset) >= 0
        /\ Place(chunk_offset) + chunk_length <= call.length

\* An update that succeeded was in the zone at some moment of the call: no
\* retransmission, no power loss in between leaves a part of it behind an OK.
\* The data of a STSAFE-A decrement must have a length that fits a byte.
StoredWhenOK ==
    phase = "idle" /\ result = "OK" /\ call.op \in Writes
    /\ (call.op \in Decrements /\ call.family = "A" => call.length < Byte) =>
        \E m \in held : \A k \in 0..(call.length - 1) :
            m.zone[call.offset + k] = call.version

\* The counter a successful call reports is the counter of the secure element,
\* also when a lost acknowledge made it decrement twice; and the secure element's
\* is lower by at least the amount, if the amount fits the command.  Named
\* exception, STSAFE-A only: an OK that delivered nothing reports no counter
\* (the caller's variable has its own bytes, swapped), though it decremented.
CounterIsCurrent ==
    phase = "idle" /\ result = "OK" /\ call.op \in Counting =>
        /\ call.family = "L" \/ counter_value.kind = "counter" =>
              counter_value = Counted(counter)
        /\ call.op \in Decrements /\ (call.family = "L" => call.amount < LAmountRange) =>
              \E m \in held : counter + call.amount <= m.counter

\* What the properties above rest on while a call runs: the offset of a chunk
\* is that of the bytes already read, as long as the secure element grants what
\* it is asked; an answer tells what the secure element holds.
Progress ==
    phase # "idle" =>
        /\ remaining_length <= call.length
        /\ call.op \notin Looping =>
              remaining_length = call.length /\ chunk_offset = call.offset
        /\ call.op \in Reads => chunk_offset + remaining_length = call.offset + call.length
AtExchange ==
    phase = "exchange" =>
        /\ chunk_length = ServiceLength(call)
        /\ reply.status = "OK" =>
              /\ call.op \in Reads => chunk_offset + chunk_length < Word
              /\ call.op \in Writes /\ (call.op \in Decrements /\ call.family = "A" => call.length < Byte) =>
                    \E m \in held : \A k \in 0..(call.length - 1) :
                        m.zone[call.offset + k] = call.version
              /\ reply.counter = counter
              /\ call.op \in Decrements /\ (call.family = "L" => call.amount < LAmountRange) =>
                    \E m \in held : counter + call.amount <= m.counter
\* What a read received ends where the next chunk begins, at a multiple of the
\* size of a chunk; an answer has the bytes of one moment.
Received ==
    /\ DOMAIN buffer = 0..MaxLength
    /\ phase # "idle" /\ call.op \in Reads =>
          /\ Place(chunk_offset) \in Nat
          /\ \E q \in 0..Place(chunk_offset) : Place(chunk_offset) = q * call.chunk
          /\ \A k \in DOMAIN buffer : IF k < Place(chunk_offset)
                                      THEN Genuine(k) \/ Missed(k)
                                      ELSE buffer[k] = Cell("untouched")
    /\ phase = "exchange" /\ call.op \in Reads /\ reply.status = "OK" =>
          \E m \in held : \A k \in 0..(chunk_length - 1) :
             /\ reply.data[k].kind = "byte"
             /\ reply.data[k].at = chunk_offset + k
             /\ reply.data[k].version = m.zone[chunk_offset + k]
CallInv == Progress /\ AtExchange /\ Moment \in held
===============================================================================
