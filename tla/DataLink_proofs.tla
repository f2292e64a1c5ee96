--------------------------- MODULE DataLink_proofs ----------------------------
(***************************************************************************)
(* Proofs about DataStorage and DataLink, for every zone, every set of     *)
(* calls whose arguments fit their types, every width of the fields on the *)
(* wire, every bus and whatever is received: what the API promises of a    *)
(* transfer of which only the outcome is known, and that the transfer of   *)
(* the STSAFE-L (LFrameTransfer_proofs) is one.                            *)
(***************************************************************************)
EXTENDS DataLink, TLAPS

L == INSTANCE LFrameTransfer_proofs

-----------------------------------------------------------------------------
(* Arguments and lengths                                                   *)

LEMMA CallFacts ==
  ASSUME NEW c \in Calls
  PROVE  /\ c.op \in Reads \cup Writes /\ c.family \in {"A", "L"}
         /\ c.offset \in 0..(Word - 1) /\ c.length \in 0..(Word - 1) /\ c.chunk \in 0..(Word - 1)
         /\ c.amount \in Nat /\ c.version \in Versions
  BY CallAssumption

LEMMA Widths ==
  /\ ZoneSize \in Nat \ {0} /\ Word \in Nat /\ ZoneSize < Word
  /\ Byte \in Nat \ {0} /\ LAmountRange \in Nat \ {0} /\ FirstCounter \in Nat
  /\ Versions # {} /\ OtherVersions \subseteq Versions
  /\ Calls # {}
  BY ZoneAssumption, CallAssumption

\* A chunk is a part of what is left.
LEMMA ChunkBounds ==
  ASSUME NEW c \in Calls, NEW left \in 0..(Word - 1)
  PROVE  Chunk(c, left) \in 0..left
  BY CallFacts, Widths DEF Chunk

LEMMA ServiceLengthBounds ==
  ASSUME TypeOK, Progress, phase # "idle"
  PROVE  /\ ServiceLength(call) \in 0..remaining_length
         /\ call.op \notin Looping => ServiceLength(call) = call.length
         /\ ServiceLength(call) \in 0..call.length
  BY ChunkBounds, CallFacts, Widths DEF TypeOK, Progress, ServiceLength

\* What goes on the wire is no more than the argument, and is the argument when
\* it fits the field.
LEMMA SentBounds ==
  ASSUME TypeOK
  PROVE  /\ SentLength \in 0..chunk_length
         /\ ~(call.op \in Decrements /\ call.family = "A") => SentLength = chunk_length
         /\ chunk_length < Byte => SentLength = chunk_length
         /\ SentAmount \in 0..call.amount
         /\ (call.family = "L" => call.amount < LAmountRange) => SentAmount = call.amount
  BY CallFacts, Widths DEF TypeOK, SentLength, SentAmount

\* The bytes an update writes.
LEMMA WrittenBytes ==
  ASSUME TypeOK, NEW n \in 0..(Word - 1), NEW i \in Positions,
         chunk_offset <= i, i < chunk_offset + n
  PROVE  Written(n)[i] = call.version
  BY DEF Written

-----------------------------------------------------------------------------
(* The type invariant                                                      *)

LEMMA ServiceType ==
  ASSUME TypeOK, Progress, AtExchange, phase = "exchange",
         NEW code \in {"OK", "ERROR", "FAILED"}, AfterService(code)
  PROVE  /\ phase' \in {"idle", "service", "exchange"}
         /\ call' \in Calls
         /\ {remaining_length', chunk_length', chunk_offset'} \subseteq 0..(Word - 1)
         /\ result' \in {"OK", "ERROR", "FAILED", "INVALID_PARAMETER"}
  <1>1. chunk_length \in 0..remaining_length
    BY ServiceLengthBounds DEF AtExchange
  <1>2. remaining_length' \in 0..(Word - 1)
    BY <1>1, Widths DEF AfterService, TypeOK
  <1>3. chunk_offset' \in 0..(Word - 1)
    BY Widths DEF AfterService, AfterChunk, TypeOK
  <1> QED
    BY <1>2, <1>3 DEF AfterService, TypeOK, Return

LEMMA SwappedKind ==
  ASSUME NEW value
  PROVE  Swapped(value).kind \in {"kept", "swapped", "unknown"}
  BY DEF Swapped, Own

LEMMA TypeStep ==
  ASSUME TypeOK, Progress, AtExchange, [Next]_vars
  PROVE  TypeOK'
  <1> USE Widths DEF TypeOK
  <1>1. ASSUME NEW c \in Calls, Call(c) PROVE TypeOK'
    BY <1>1, CallFacts DEF Call, Own, None, element
  <1>2. CASE ServiceRefuses
    BY <1>2 DEF ServiceRefuses, Return, progress, element
  <1>3. CASE ServiceSends
    <2>1. chunk_length' \in 0..(Word - 1)
      BY <1>3, ServiceLengthBounds, CallFacts DEF ServiceSends
    <2> QED
      BY <1>3, <2>1 DEF ServiceSends, None, element
  <1>4. CASE TransferReturns
    <2>1. phase = "exchange" /\ UNCHANGED <<zone, counter, reply>>
      BY <1>4 DEF TransferReturns, element
    <2>2. CASE Delivers
      BY <2>1, <2>2, ServiceType DEF Delivers, Counted
    <2>3. CASE DeliversNothing
      BY <2>1, <2>3, SwappedKind, ServiceType DEF DeliversNothing
    <2>4. CASE Fails
      BY <2>1, <2>4, SwappedKind, ServiceType DEF Fails, CounterAfterFailure, Own
    <2> QED
      BY <1>4, <2>2, <2>3, <2>4 DEF TransferReturns
  <1>5. CASE Execute
    <2>1. CASE reply' = Answer("OK") /\ Granted
      <3>1. zone' \in [Positions -> Versions]
        BY <1>5, <2>1, CallFacts DEF Execute, Written, Answer
      <3>2. counter' \in 0..FirstCounter
        BY <1>5, <2>1, SentBounds, CallFacts DEF Execute, Granted, Answer
      <3> QED
        BY <1>5, <2>1, <3>1, <3>2 DEF Execute, Answer, progress
    <2>2. CASE reply' = [status |-> "ERROR"] /\ counter' = counter /\ zone' = zone
      BY <1>5, <2>2 DEF Execute, progress
    <2> QED
      BY <1>5, <2>1, <2>2 DEF Execute
  <1>6. CASE PowerLoss
    BY <1>6, CallFacts DEF PowerLoss, Written, None, progress
  <1>7. CASE OtherTask
    BY <1>7 DEF OtherTask, progress
  <1>8. CASE UNCHANGED vars
    BY <1>8 DEF vars, progress, element
  <1> QED
    BY <1>1, <1>2, <1>3, <1>4, <1>5, <1>6, <1>7, <1>8 DEF Next, Host

-----------------------------------------------------------------------------
(* What a call rests on                                                    *)

\* Offset and rest of a loop move together: a chunk that was granted does not
\* wrap the offset.
LEMMA ProgressStep ==
  ASSUME TypeOK, CallInv, [Next]_vars
  PROVE  Progress'
  <1> USE DEF CallInv
  <1>1. ASSUME NEW c \in Calls, Call(c) PROVE Progress'
    BY <1>1, CallFacts, Widths DEF Call, Progress
  <1>2. CASE ServiceRefuses
    BY <1>2 DEF ServiceRefuses, Return, Progress
  <1>3. CASE ServiceSends
    BY <1>3 DEF ServiceSends, Progress
  <1>4. CASE TransferReturns
    <2>1. ASSUME NEW code \in {"OK", "ERROR", "FAILED"}, AfterService(code), phase = "exchange",
                 code = "OK" => reply.status = "OK"
          PROVE  Progress'
      <3>1. CASE code = "OK" /\ call.op \in Looping /\ remaining_length' > 0
        <4>1. call.op \in Reads
          BY <3>1 DEF Looping, Reads
        <4>2. chunk_offset' = chunk_offset + chunk_length
          BY <2>1, <3>1, <4>1, ServiceLengthBounds, Widths
          DEF AfterService, AfterChunk, AtExchange, TypeOK
        <4>3. chunk_length \in 0..remaining_length
          BY <2>1, ServiceLengthBounds DEF AtExchange
        <4> QED
          BY <2>1, <3>1, <4>1, <4>2, <4>3, CallFacts, Widths DEF AfterService, Progress, TypeOK
      <3>2. CASE ~(code = "OK" /\ call.op \in Looping /\ remaining_length' > 0)
        BY <2>1, <3>2 DEF AfterService, Return, Progress
      <3> QED
        BY <3>1, <3>2
    <2>2. CASE Delivers
      BY <1>4, <2>1, <2>2 DEF TransferReturns, Delivers
    <2>3. CASE DeliversNothing
      BY <1>4, <2>1, <2>3 DEF TransferReturns, DeliversNothing
    <2>4. CASE Fails
      BY <1>4, <2>1, <2>4 DEF TransferReturns, Fails
    <2> QED
      BY <1>4, <2>2, <2>3, <2>4 DEF TransferReturns
  <1>5. CASE Execute
    BY <1>5 DEF Execute, Progress, progress
  <1>6. CASE PowerLoss
    BY <1>6 DEF PowerLoss, Progress, progress
  <1>7. CASE OtherTask
    BY <1>7 DEF OtherTask, Progress, progress
  <1>8. CASE UNCHANGED vars
    BY <1>8 DEF vars, Progress, progress
  <1> QED
    BY <1>1, <1>2, <1>3, <1>4, <1>5, <1>6, <1>7, <1>8 DEF Next, Host

\* What the secure element answered is what it holds: an update as a whole, and
\* a counter that went down by the amount.
LEMMA Answered ==
  ASSUME TypeOK, CallInv, Execute, Granted, reply' = Answer("OK"),
         zone' = IF call.op \in Writes THEN Written(SentLength) ELSE zone,
         counter' = IF call.op \in Decrements THEN counter - SentAmount ELSE counter
  PROVE  AtExchange'
  <1>1. phase = "exchange" /\ phase' = "exchange" /\ UNCHANGED progress /\ held' = held \cup {Moment'}
    BY DEF Execute
  <1>2. chunk_length' = ServiceLength(call)'
    BY <1>1 DEF CallInv, AtExchange, ServiceLength, progress
  <1>3. call.op \in Reads => chunk_offset + chunk_length < Word
    <2>1. call.op \in Reads => SentLength = chunk_length
      BY SentBounds DEF Reads, Decrements
    <2> QED
      BY <2>1, SentBounds, Widths DEF Granted, TypeOK
  <1>4. ASSUME call.op \in Writes,
               call.op \in Decrements /\ call.family = "A" => call.length < Byte
        PROVE  \A k \in 0..(call.length - 1) : zone'[call.offset + k] = call.version
    <2>1. call.op \notin Looping
      BY <1>4 DEF Writes, Looping
    <2>2. chunk_length = call.length /\ chunk_offset = call.offset
      BY <1>1, <2>1, ServiceLengthBounds DEF CallInv, AtExchange, Progress
    <2>3. SentLength = call.length
      BY <1>4, <2>2, SentBounds
    <2>4. call.offset \in 0..(Word - 1) /\ call.length \in 0..(Word - 1)
      BY CallFacts DEF TypeOK
    <2>5. call.offset + call.length <= ZoneSize
      BY <2>2, <2>3 DEF Granted
    <2>6. ASSUME NEW k \in 0..(call.length - 1) PROVE zone'[call.offset + k] = call.version
      <3>1. call.offset + k \in Positions /\ k >= 0 /\ k < call.length
        BY <2>4, <2>5, Widths DEF Positions
      <3>2. chunk_offset <= call.offset + k /\ call.offset + k < chunk_offset + call.length
        BY <2>2, <2>4, <3>1
      <3>3. Written(call.length)[call.offset + k] = call.version
        BY <2>4, <3>1, <3>2, WrittenBytes
      <3> QED
        BY <1>4, <2>3, <3>3
    <2> QED
      BY <2>6
  <1>5. ASSUME call.op \in Decrements, call.family = "L" => call.amount < LAmountRange
        PROVE  counter' + call.amount <= counter
    BY <1>5, SentBounds, CallFacts, Widths DEF TypeOK
  <1>6. Moment \in held' /\ Moment' \in held' /\ Moment.counter = counter /\ Moment'.zone = zone'
    BY <1>1 DEF Moment, CallInv
  <1>7. reply'.status = "OK" /\ reply'.counter = counter'
    BY DEF Answer
  <1>8. call' = call /\ chunk_length' = chunk_length /\ chunk_offset' = chunk_offset
    BY <1>1 DEF progress
  <1> QED
    BY <1>1, <1>2, <1>3, <1>4, <1>5, <1>6, <1>7, <1>8 DEF AtExchange

LEMMA ExchangeStep ==
  ASSUME TypeOK, CallInv, [Next]_vars
  PROVE  AtExchange'
  <1>1. ASSUME NEW c \in Calls, Call(c) PROVE AtExchange'
    BY <1>1 DEF Call, AtExchange
  <1>2. CASE ServiceRefuses
    BY <1>2 DEF ServiceRefuses, Return, AtExchange
  <1>3. CASE ServiceSends
    BY <1>3 DEF ServiceSends, AtExchange, ServiceLength, None
  <1>4. CASE TransferReturns
    BY <1>4 DEF TransferReturns, Delivers, DeliversNothing, Fails, AfterService, Return, AtExchange
  <1>5. CASE Execute
    <2>1. CASE reply' = [status |-> "ERROR"]
      BY <1>5, <2>1 DEF Execute, CallInv, AtExchange, ServiceLength, progress
    <2> QED
      BY <1>5, <2>1, Answered DEF Execute
  <1>6. CASE PowerLoss
    BY <1>6 DEF PowerLoss, None, CallInv, AtExchange, ServiceLength, progress
  <1>7. CASE OtherTask
    BY <1>7 DEF OtherTask, AtExchange
  <1>8. CASE UNCHANGED vars
    BY <1>8 DEF vars, progress, element, CallInv, AtExchange, ServiceLength
  <1> QED
    BY <1>1, <1>2, <1>3, <1>4, <1>5, <1>6, <1>7, <1>8 DEF Next, Host

LEMMA MomentStep ==
  ASSUME Moment \in held, [Next]_vars
  PROVE  (Moment \in held)'
  BY DEF Next, Host, Call, ServiceRefuses, ServiceSends, TransferReturns, Execute, PowerLoss,
         OtherTask, Moment, element, vars

\* The type invariant and what ties the variables of a running loop to the
\* arguments, the answer and the history (TypeOK, CallInv) are inductive.
THEOREM Inductive == Spec => [](TypeOK /\ CallInv)
  <1>1. Init => TypeOK /\ CallInv
    BY Widths DEF Init, TypeOK, CallInv, Progress, AtExchange, Own, None
  <1>2. TypeOK /\ CallInv /\ [Next]_vars => (TypeOK /\ CallInv)'
    BY TypeStep, ProgressStep, ExchangeStep, MomentStep DEF CallInv
  <1> QED
    BY <1>1, <1>2, PTL DEF Spec

\* The variables of a call and the secure element keep their types, lengths and
\* offsets their 16 bits (TypeOK).
THEOREM TypeCorrect == Spec => []TypeOK
  BY Inductive, PTL

\* A chunk is received inside the buffer of the caller (ChunkInBuffer), for
\* every size of the zone, buffer and chunk.
THEOREM ChunkInside == Spec => []ChunkInBuffer
  <1>1. TypeOK /\ CallInv => ChunkInBuffer
    BY ServiceLengthBounds, CallFacts, Widths
    DEF CallInv, Progress, AtExchange, ChunkInBuffer, Place, TypeOK
  <1> QED
    BY <1>1, Inductive, PTL

\* An update that succeeded was in the zone as a whole, whatever was repeated or
\* lost power before (StoredWhenOK).
THEOREM StoredOK == Spec => []StoredWhenOK
  <1>1. Init => StoredWhenOK
    BY DEF Init, StoredWhenOK
  <1>2. TypeOK /\ CallInv /\ StoredWhenOK /\ [Next]_vars => StoredWhenOK'
    <2> SUFFICES ASSUME TypeOK, CallInv, StoredWhenOK, [Next]_vars PROVE StoredWhenOK'
      OBVIOUS
    <2>1. ASSUME NEW c \in Calls, Call(c) PROVE StoredWhenOK'
      BY <2>1 DEF Call, StoredWhenOK
    <2>2. CASE ServiceRefuses
      BY <2>2 DEF ServiceRefuses, Return, StoredWhenOK
    <2>3. CASE ServiceSends
      BY <2>3 DEF ServiceSends, StoredWhenOK
    <2>4. CASE TransferReturns
      BY <2>4 DEF TransferReturns, Delivers, DeliversNothing, Fails, AfterService, Return,
                  CallInv, AtExchange, StoredWhenOK
    <2>5. CASE Execute
      BY <2>5 DEF Execute, StoredWhenOK
    <2>6. CASE PowerLoss
      BY <2>6 DEF PowerLoss, StoredWhenOK
    <2>7. CASE OtherTask
      BY <2>7 DEF OtherTask, StoredWhenOK, progress
    <2>8. CASE UNCHANGED vars
      BY <2>8 DEF vars, StoredWhenOK, progress
    <2> QED
      BY <2>1, <2>2, <2>3, <2>4, <2>5, <2>6, <2>7, <2>8 DEF Next, Host
  <1> QED
    BY <1>1, <1>2, Inductive, PTL DEF Spec

\* The counter a successful call reports is that of the secure element, which is
\* below a former one by the amount; a STSAFE-A call may be OK and report none
\* (CounterIsCurrent).
THEOREM CounterCurrent == Spec => []CounterIsCurrent
  <1>1. Init => CounterIsCurrent
    BY DEF Init, CounterIsCurrent
  <1>2. TypeOK /\ CallInv /\ CounterIsCurrent /\ [Next]_vars => CounterIsCurrent'
    <2> SUFFICES ASSUME TypeOK, CallInv, CounterIsCurrent, [Next]_vars PROVE CounterIsCurrent'
      OBVIOUS
    <2>1. ASSUME NEW c \in Calls, Call(c) PROVE CounterIsCurrent'
      BY <2>1 DEF Call, CounterIsCurrent
    <2>2. CASE ServiceRefuses
      BY <2>2 DEF ServiceRefuses, Return, CounterIsCurrent
    <2>3. CASE ServiceSends
      BY <2>3 DEF ServiceSends, CounterIsCurrent
    <2>4. CASE TransferReturns
      <3>1. CASE Delivers
        <4>1. reply.status = "OK" /\ phase = "exchange" /\ counter' = counter /\ held' = held /\ call' = call
          BY <2>4, <3>1 DEF TransferReturns, Delivers, AfterService, element
        <4>2. call.op \in Counting => counter_value' = Counted(counter)
          BY <3>1, <4>1 DEF Delivers, CallInv, AtExchange
        <4> QED
          BY <4>1, <4>2 DEF CallInv, AtExchange, CounterIsCurrent, Counted
      <3>2. CASE DeliversNothing
        <4>1. /\ reply.status = "OK" /\ phase = "exchange" /\ call.family = "A"
              /\ counter' = counter /\ held' = held /\ call' = call
          BY <2>4, <3>2 DEF TransferReturns, DeliversNothing, AfterService, element
        <4>2. call.op \in Counting => counter_value'.kind # "counter"
          BY <3>2, SwappedKind DEF DeliversNothing
        <4> QED
          BY <4>1, <4>2 DEF CallInv, AtExchange, CounterIsCurrent
      <3>3. CASE Fails
        BY <3>3 DEF Fails, AfterService, Return, CounterIsCurrent
      <3> QED
        BY <2>4, <3>1, <3>2, <3>3 DEF TransferReturns
    <2>5. CASE Execute
      BY <2>5 DEF Execute, CounterIsCurrent
    <2>6. CASE PowerLoss
      BY <2>6 DEF PowerLoss, CounterIsCurrent
    <2>7. CASE OtherTask
      BY <2>7 DEF OtherTask, CounterIsCurrent, Counted, progress
    <2>8. CASE UNCHANGED vars
      BY <2>8 DEF vars, CounterIsCurrent, Counted, progress, element
    <2> QED
      BY <2>1, <2>2, <2>3, <2>4, <2>5, <2>6, <2>7, <2>8 DEF Next, Host
  <1> QED
    BY <1>1, <1>2, Inductive, PTL DEF Spec

-----------------------------------------------------------------------------
(* What a read delivers                                                    *)

\* The longest of the calls: their lengths are bounded.
LEMMA MaxLengthNat == MaxLength \in Nat
  <1> DEFINE Lengths == {c.length : c \in Calls}
             Rests == {Word - n : n \in Lengths}
  <1>1. Lengths \subseteq 0..(Word - 1) /\ Lengths # {}
    BY CallFacts, Widths
  <1>2. Rests \subseteq Nat /\ Rests # {}
    <2> HIDE DEF Lengths
    <2>1. \A n \in Lengths : Word - n \in Nat
      <3>1. \A n \in 0..(Word - 1) : Word - n \in Nat
        BY Widths
      <3> QED
        BY <1>1, <3>1
    <2>2. PICK n \in Lengths : TRUE
      BY <1>1
    <2> QED
      BY <2>1, <2>2
  <1>3. PICK rest \in Rests : \A r \in Rests : rest <= r
    <2> HIDE DEF Rests
    <2> QED
      BY <1>2, L!Least
  <1>4. PICK n \in Lengths : rest = Word - n
    OBVIOUS
  <1>5. \A m \in Lengths : Word - m \in Rests
    OBVIOUS
  <1> HIDE DEF Rests, Lengths
  <1>6. \A m \in Lengths : m <= n
    <2> TAKE m \in Lengths
    <2>1. Word - n <= Word - m
      BY <1>3, <1>4, <1>5
    <2>2. m \in 0..(Word - 1) /\ n \in 0..(Word - 1)
      BY <1>1
    <2> QED
      BY <2>1, <2>2, Widths
  <1>7. \E k \in Lengths : \A m \in Lengths : m <= k
    BY <1>6
  <1>8. (CHOOSE k \in Lengths : \A m \in Lengths : m <= k) \in Lengths
    BY <1>7
  <1>9. MaxLength \in Lengths
    <2>1. \A k : (\A c \in Calls : c.length <= k) <=> (\A m \in Lengths : m <= k)
      <3> TAKE k
      <3>1. ASSUME \A c \in Calls : c.length <= k, NEW m \in Lengths PROVE m <= k
        BY <3>1 DEF Lengths
      <3>2. ASSUME \A m \in Lengths : m <= k, NEW c \in Calls PROVE c.length <= k
        BY <3>2 DEF Lengths
      <3> QED
        BY <3>1, <3>2
    <2>2. MaxLength = CHOOSE k \in Lengths : \A m \in Lengths : m <= k
      BY <2>1 DEF MaxLength, Lengths
    <2> QED
      BY <1>8, <2>2
  <1> QED
    BY <1>1, <1>9

\* A chunk begins at a multiple of its size: the bytes before it have another
\* number.
LEMMA ChunkStarts ==
  ASSUME NEW size \in Nat \ {0}, NEW q \in Nat, NEW j \in Nat, NEW k \in Nat,
         q * size <= k, j \div size = k \div size
  PROVE  q * size <= j
  <1>1. j \div size \in Nat /\ k \div size \in Nat
    OBVIOUS
  <1>2. size * (j \div size) <= j /\ k < size * (k \div size) + size
    OBVIOUS
  <1>3. q <= k \div size
    <2> DEFINE b == k \div size
    <2>1. q * size < (b + 1) * size
      BY <1>1, <1>2
    <2>2. q < b + 1
      <3> HIDE DEF b
      <3>1. SUFFICES ASSUME b + 1 <= q PROVE FALSE
        BY <1>1 DEF b
      <3> QED
        BY <1>1, <2>1, <3>1 DEF b
    <2> QED
      BY <1>1, <2>2
  <1>4. q * size <= (j \div size) * size
    BY <1>1, <1>3
  <1> QED
    BY <1>1, <1>2, <1>4

LEMMA NextChunkStarts ==
  ASSUME NEW size \in Nat, NEW p \in Nat, NEW q \in 0..p, p = q * size, size # 0
  PROVE  \E r \in 0..(p + size) : p + size = r * size
  <1>1. q + 1 \in 0..(p + size) /\ (q + 1) * size = q * size + size
    OBVIOUS
  <1> QED
    BY <1>1

\* ... and so do the bytes behind it.
LEMMA ChunkStops ==
  ASSUME NEW size \in Nat \ {0}, NEW q \in Nat, NEW j \in Nat, NEW k \in Nat,
         k < q * size + size, j \div size = k \div size
  PROVE  j < q * size + size
  <1>1. j \div size \in Nat /\ k \div size \in Nat
    OBVIOUS
  <1>2. size * (k \div size) <= k /\ j < size * (j \div size) + size
    OBVIOUS
  <1>3. k \div size <= q
    <2> DEFINE b == k \div size
    <2>1. b * size < (q + 1) * size
      BY <1>1, <1>2
    <2>2. b < q + 1
      <3> HIDE DEF b
      <3>1. SUFFICES ASSUME q + 1 <= b PROVE FALSE
        BY <1>1 DEF b
      <3> QED
        BY <1>1, <2>1, <3>1 DEF b
    <2> QED
      BY <1>1, <2>2
  <1>4. (k \div size) * size <= q * size
    BY <1>1, <1>3
  <1> QED
    BY <1>1, <1>2, <1>4

\* Where the chunk under way belongs: behind what was asked before, at a multiple
\* of its size, up to the next one or to the end of the request.
LEMMA ChunkPlace ==
  ASSUME TypeOK, CallInv, Received, phase = "exchange", call.op \in Reads
  PROVE  /\ Place(chunk_offset) \in Nat /\ chunk_length \in Nat /\ remaining_length \in Nat
         /\ Place(chunk_offset) = chunk_offset - call.offset
         /\ call.offset \in Nat /\ call.chunk \in Nat /\ call.length \in Nat /\ chunk_offset \in Nat
         /\ chunk_length \in 0..remaining_length
         /\ Place(chunk_offset) + remaining_length = call.length
         /\ chunk_length = remaining_length \/ (chunk_length = call.chunk /\ call.chunk # 0)
  <1> DEFINE p == Place(chunk_offset)
  <1>1. p \in Nat
    BY DEF Received
  <1>2. p = chunk_offset - call.offset
    BY DEF Place
  <1> HIDE DEF p
  <1>3. /\ call \in Calls /\ call.offset \in Nat /\ call.length \in Nat /\ call.chunk \in Nat
        /\ chunk_offset \in Nat /\ remaining_length \in Nat /\ chunk_length \in Nat
    BY CallFacts, Widths DEF TypeOK
  <1>4. chunk_length = ServiceLength(call) /\ chunk_length \in 0..remaining_length
    BY ServiceLengthBounds DEF CallInv, AtExchange
  <1>5. chunk_offset + remaining_length = call.offset + call.length
    BY DEF CallInv, Progress
  <1>6. p + remaining_length = call.length
    BY <1>1, <1>2, <1>3, <1>5
  <1>7. chunk_length = remaining_length \/ (chunk_length = call.chunk /\ call.chunk # 0)
    <2>1. CASE call.op \in Looping
      BY <1>4, <2>1 DEF ServiceLength, Chunk
    <2>2. CASE call.op \notin Looping
      BY <1>4, <2>2 DEF ServiceLength, CallInv, Progress
    <2> QED
      BY <2>1, <2>2
  <1> QED
    BY <1>1, <1>2, <1>3, <1>4, <1>6, <1>7 DEF p

\* A byte of the request has the number of the chunk under way when it is in it.
LEMMA InThisChunk ==
  ASSUME TypeOK, CallInv, Received, phase = "exchange", call.op \in Reads,
         NEW k \in Nat, Place(chunk_offset) <= k, k < Place(chunk_offset) + chunk_length,
         NEW j \in Nat, j < call.length, SameChunk(j, k)
  PROVE  Place(chunk_offset) <= j /\ j < Place(chunk_offset) + chunk_length
  <1> DEFINE p == Place(chunk_offset)
  <1>1. /\ p \in Nat /\ chunk_length \in Nat /\ remaining_length \in Nat /\ call.chunk \in Nat
        /\ call.length \in Nat /\ chunk_length \in 0..remaining_length
        /\ p + remaining_length = call.length
        /\ chunk_length = remaining_length \/ (chunk_length = call.chunk /\ call.chunk # 0)
    BY ChunkPlace
  <1>2. PICK q \in 0..p : p = q * call.chunk
    BY DEF Received
  <1>3. p <= k /\ k < p + chunk_length
    OBVIOUS
  <1> HIDE DEF p
  <1>4. q \in Nat
    BY <1>1, <1>2
  <1>5. p <= j
    <2>1. CASE call.chunk = 0
      BY <1>1, <1>2, <1>4, <2>1
    <2>2. CASE call.chunk # 0
      <3>1. call.chunk \in Nat \ {0} /\ j \div call.chunk = k \div call.chunk /\ q * call.chunk <= k
        BY <1>1, <1>2, <1>3, <2>2 DEF SameChunk
      <3>2. q * call.chunk <= j
        BY <1>4, <3>1, ChunkStarts
      <3> QED
        BY <1>2, <3>2
    <2> QED
      BY <2>1, <2>2
  <1>6. j < p + chunk_length
    <2>1. CASE chunk_length = remaining_length
      BY <1>1, <2>1
    <2>2. CASE chunk_length = call.chunk /\ call.chunk # 0
      <3>1. /\ call.chunk \in Nat \ {0} /\ j \div call.chunk = k \div call.chunk
            /\ k < q * call.chunk + call.chunk
        BY <1>1, <1>2, <1>3, <2>2 DEF SameChunk
      <3>2. j < q * call.chunk + call.chunk
        BY <1>4, <3>1, ChunkStops
      <3> QED
        BY <1>2, <2>2, <3>2
    <2> QED
      BY <1>1, <2>1, <2>2
  <1> QED
    BY <1>5, <1>6 DEF p

\* What is in the buffer after a chunk was received into it.
LEMMA ChunkDelivered ==
  ASSUME TypeOK, CallInv, Received, ReadDelivers, TransferReturns, Delivers, call.op \in Reads
  PROVE  /\ DOMAIN buffer' = 0..MaxLength
         /\ \A k \in 0..MaxLength : IF k < Place(chunk_offset) + chunk_length
                                    THEN Genuine(k)' \/ Missed(k)'
                                    ELSE buffer'[k] = Cell("untouched")
         /\ \A k \in 0..MaxLength : Genuine(k)' =>
               \E m \in held : \A j \in 0..MaxLength :
                  j < call.length /\ SameChunk(j, k) => FromZone(j, m)'
  <1> DEFINE p == Place(chunk_offset)
  <1>1. /\ phase = "exchange" /\ reply.status = "OK" /\ DOMAIN buffer = 0..MaxLength
        /\ MaxLength \in Nat /\ call' = call
    BY MaxLengthNat DEF TransferReturns, Delivers, AfterService, Received
  <1>2. /\ p \in Nat /\ chunk_length \in Nat /\ call.length \in Nat
        /\ call.offset \in Nat /\ chunk_offset \in Nat /\ p = chunk_offset - call.offset
    BY <1>1, ChunkPlace
  <1>3. \A k \in 0..MaxLength : IF k < p THEN Genuine(k) \/ Missed(k)
                                         ELSE buffer[k] = Cell("untouched")
    BY <1>1 DEF Received
  <1>4. \A k \in Nat : \A j \in Nat :
           p <= k /\ k < p + chunk_length /\ j < call.length /\ SameChunk(j, k) =>
              p <= j /\ j < p + chunk_length
    BY <1>1, InThisChunk
  <1>5. buffer' = [k \in 0..MaxLength |->
                     IF p <= k /\ k < p + chunk_length THEN reply.data[k - p] ELSE buffer[k]]
    BY <1>1 DEF Delivers, InChunk
  <1>6. PICK m \in held : \A k \in 0..(chunk_length - 1) :
             /\ reply.data[k].kind = "byte"
             /\ reply.data[k].at = chunk_offset + k
             /\ reply.data[k].version = m.zone[chunk_offset + k]
    BY <1>1 DEF Received
  <1> HIDE DEF p
  <1>7. ASSUME NEW k \in 0..MaxLength, p <= k, k < p + chunk_length
        PROVE  Genuine(k)' /\ FromZone(k, m)'
    <2>0. k \in Nat /\ p \in Nat /\ chunk_length \in Nat
      BY <1>1, <1>2
    <2>1. k - p \in 0..(chunk_length - 1) /\ chunk_offset + (k - p) = call.offset + k
      <3>1. k - p \in 0..(chunk_length - 1)
        BY <2>0, <1>7
      <3>2. chunk_offset + (k - p) = call.offset + k
        BY <2>0, <1>2
      <3> QED
        BY <3>1, <3>2
    <2>2. buffer'[k] = reply.data[k - p]
      BY <1>5, <1>7
    <2>3. /\ buffer'[k].kind = "byte" /\ buffer'[k].at = call'.offset + k
          /\ buffer'[k].version = m.zone[call'.offset + k]
      BY <1>1, <1>6, <2>1, <2>2
    <2> QED
      BY <2>3 DEF Genuine, FromZone
  <1>8. ASSUME NEW k \in 0..MaxLength, ~(p <= k /\ k < p + chunk_length)
        PROVE  buffer'[k] = buffer[k]
    BY <1>5, <1>8
  <1>9. ASSUME NEW k \in 0..MaxLength
        PROVE  IF k < p + chunk_length THEN Genuine(k)' \/ Missed(k)'
                                       ELSE buffer'[k] = Cell("untouched")
    <2>1. CASE k < p
      <3>1. buffer'[k] = buffer[k] /\ k < p + chunk_length /\ (Genuine(k) \/ Missed(k))
        BY <1>1, <1>2, <1>3, <1>8, <2>1
      <3> QED
        BY <1>1, <3>1 DEF Genuine, Missed
    <2>2. CASE p <= k /\ k < p + chunk_length
      BY <1>7, <2>2
    <2>3. CASE k >= p + chunk_length
      <3>1. ~(k < p) /\ ~(k < p + chunk_length)
        BY <1>1, <1>2, <2>3
      <3> QED
        BY <1>3, <1>8, <3>1
    <2> QED
      BY <1>1, <1>2, <2>1, <2>2, <2>3
  <1>10. ASSUME NEW k \in 0..MaxLength, Genuine(k)'
         PROVE  \E mo \in held : \A j \in 0..MaxLength :
                  j < call.length /\ SameChunk(j, k) => FromZone(j, mo)'
    <2>1. CASE p <= k /\ k < p + chunk_length
      <3>1. ASSUME NEW j \in 0..MaxLength, j < call.length, SameChunk(j, k)
            PROVE  FromZone(j, m)'
        <4>1. k \in Nat /\ j \in Nat
          BY <1>1
        <4>2. p <= j /\ j < p + chunk_length
          BY <1>4, <2>1, <3>1, <4>1
        <4> QED
          BY <1>7, <4>2
      <3> QED
        BY <3>1
    <2>2. CASE ~(p <= k /\ k < p + chunk_length)
      <3>1. Genuine(k)
        BY <1>8, <1>10, <2>2 DEF Genuine
      <3>2. PICK mo \in held : \A j \in 0..MaxLength :
                  j < call.length /\ SameChunk(j, k) => FromZone(j, mo)
        BY <1>1, <3>1 DEF ReadDelivers
      <3>3. ASSUME NEW j \in 0..MaxLength, j < call.length, SameChunk(j, k)
            PROVE  FromZone(j, mo)'
        <4>1. FromZone(j, mo)
          BY <3>2, <3>3
        <4>2. ~(p <= j /\ j < p + chunk_length)
          <5>1. buffer[j] # Cell("untouched")
            BY <4>1 DEF FromZone, Genuine, Cell
          <5>2. j < p
            BY <1>3, <5>1
          <5> QED
            BY <1>1, <1>2, <5>2
        <4>3. buffer'[j] = buffer[j]
          BY <1>8, <4>2
        <4> QED
          BY <1>1, <4>1, <4>3 DEF FromZone, Genuine
      <3> QED
        BY <3>3
    <2> QED
      BY <2>1, <2>2
  <1>11. DOMAIN buffer' = 0..MaxLength
    BY <1>5
  <1> QED
    BY <1>9, <1>10, <1>11 DEF p

\* ... and after one whose OK delivered nothing.
LEMMA ChunkMissed ==
  ASSUME TypeOK, CallInv, Received, TransferReturns, DeliversNothing, call.op \in Reads
  PROVE  /\ DOMAIN buffer' = 0..MaxLength
         /\ \A k \in 0..MaxLength : IF k < Place(chunk_offset) + chunk_length
                                    THEN Genuine(k)' \/ Missed(k)'
                                    ELSE buffer'[k] = Cell("untouched")
  <1> DEFINE p == Place(chunk_offset)
  <1>1. /\ phase = "exchange" /\ DOMAIN buffer = 0..MaxLength /\ MaxLength \in Nat
        /\ call' = call /\ buffer' = buffer /\ call.family = "A"
    BY MaxLengthNat DEF TransferReturns, DeliversNothing, AfterService, Received
  <1>2. p \in Nat /\ chunk_length \in Nat
    BY <1>1, ChunkPlace
  <1>3. \A k \in 0..MaxLength : IF k < p THEN Genuine(k) \/ Missed(k)
                                         ELSE buffer[k] = Cell("untouched")
    BY <1>1 DEF Received
  <1> HIDE DEF p
  <1>4. \A k \in 0..MaxLength : IF k < p + chunk_length
                                    THEN Genuine(k) \/ Missed(k)
                                    ELSE buffer[k] = Cell("untouched")
    <2> TAKE k \in 0..MaxLength
    <2>1. k \in Nat /\ (k < p => k < p + chunk_length)
      BY <1>1, <1>2
    <2> QED
      BY <1>1, <1>3, <2>1 DEF Missed
  <1>5. \A k : (Genuine(k)' <=> Genuine(k)) /\ (Missed(k)' <=> Missed(k))
    BY <1>1 DEF Genuine, Missed
  <1> QED
    BY <1>1, <1>4, <1>5 DEF p

LEMMA ReceivedStep ==
  ASSUME TypeOK, CallInv, Received, ReadDelivers, [Next]_vars
  PROVE  Received'
  <1>0. MaxLength \in Nat
    BY MaxLengthNat
  <1>1. ASSUME NEW c \in Calls, Call(c) PROVE Received'
    <2>1. /\ phase' = "service" /\ call' = c /\ chunk_offset' = c.offset
          /\ buffer' = [k \in 0..MaxLength |-> Cell("untouched")]
      BY <1>1 DEF Call, Untouched
    <2>2. Place(chunk_offset)' = 0 /\ c.chunk \in Nat
      BY <2>1, CallFacts, Widths DEF Place
    <2>3. 0 \in 0..0 /\ 0 = 0 * c.chunk
      BY <2>2
    <2>4. \A k \in 0..MaxLength : buffer'[k] = Cell("untouched") /\ ~(k < 0)
      BY <1>0, <2>1
    <2> QED
      BY <2>1, <2>2, <2>3, <2>4 DEF Received
  <1>2. CASE ServiceRefuses
    BY <1>2 DEF ServiceRefuses, Return, Received
  <1>3. CASE ServiceSends
    <2>1. UNCHANGED <<call, chunk_offset, buffer>> /\ phase = "service" /\ reply'.status # "OK"
      BY <1>3 DEF ServiceSends, None
    <2> QED
      BY <2>1 DEF Received, Place, Genuine, Missed
  <1>4. CASE TransferReturns
    <2>1. call' = call /\ phase = "exchange"
      BY <1>4 DEF TransferReturns, Delivers, DeliversNothing, Fails, AfterService
    <2>2. DOMAIN buffer' = 0..MaxLength
      BY <1>4 DEF TransferReturns, Delivers, DeliversNothing, Fails, Received
    <2>3. CASE Fails
      BY <2>2, <2>3 DEF Fails, AfterService, Return, Received
    <2>4. CASE (Delivers \/ DeliversNothing) /\ phase' # "idle" /\ call.op \in Reads
      <3>1. phase' = "service" /\ remaining_length' > 0 /\ remaining_length' = remaining_length - chunk_length
            /\ chunk_offset' = AfterChunk(chunk_offset, chunk_length) /\ call.op \in Looping
        BY <2>4 DEF Delivers, DeliversNothing, AfterService, Return
      <3>2. /\ chunk_length \in 0..remaining_length
            /\ \A k \in 0..MaxLength : IF k < Place(chunk_offset) + chunk_length
                                       THEN Genuine(k)' \/ Missed(k)'
                                       ELSE buffer'[k] = Cell("untouched")
        BY <1>4, <2>1, <2>4, ChunkPlace, ChunkDelivered, ChunkMissed
      <3>3. /\ chunk_offset \in 0..(Word - 1) /\ remaining_length \in 0..(Word - 1)
            /\ call \in Calls /\ call.chunk \in Nat /\ call.offset \in Nat
        BY CallFacts, Widths DEF TypeOK
      <3>4. chunk_offset' = chunk_offset + chunk_length
        <4>1. chunk_offset + chunk_length \in Nat /\ chunk_offset + chunk_length < Word
          BY <2>1, <2>4, <3>2, <3>3, Widths DEF Delivers, DeliversNothing, CallInv, AtExchange
        <4> QED
          BY <3>1, <4>1, Widths DEF AfterChunk
      <3>5. chunk_length = call.chunk /\ call.chunk # 0
        <4>1. chunk_length = Chunk(call, remaining_length)
          BY <2>1, <3>1 DEF CallInv, AtExchange, ServiceLength
        <4>2. chunk_length # remaining_length
          BY <3>1, <3>2, <3>3, Widths
        <4> QED
          BY <4>1, <4>2 DEF Chunk
      <3> DEFINE p == Place(chunk_offset)
      <3>6. p \in Nat /\ \E q \in 0..p : p = q * call.chunk
        BY <2>1, <2>4 DEF Received
      <3>7. p = chunk_offset - call.offset
        BY DEF Place
      <3>8. Place(chunk_offset)' = chunk_offset' - call.offset
        BY <2>1 DEF Place
      <3> HIDE DEF p
      <3>9. Place(chunk_offset)' = p + chunk_length
        BY <3>2, <3>3, <3>4, <3>6, <3>7, <3>8, Widths
      <3>10. /\ p + chunk_length \in Nat
             /\ \E q \in 0..(p + chunk_length) : p + chunk_length = q * call.chunk
        <4>1. PICK q \in 0..p : p = q * call.chunk
          BY <3>6
        <4>2. \E r \in 0..(p + call.chunk) : p + call.chunk = r * call.chunk
          BY <3>3, <3>5, <3>6, <4>1, NextChunkStarts
        <4>3. p + chunk_length \in Nat
          BY <3>3, <3>5, <3>6
        <4> QED
          BY <3>5, <4>2, <4>3
      <3> QED
        BY <2>1, <2>2, <3>1, <3>2, <3>9, <3>10 DEF Received, p
    <2>5. CASE (Delivers \/ DeliversNothing) /\ ~(phase' # "idle" /\ call.op \in Reads)
      <3>1. phase' \in {"idle", "service"}
        BY <2>5 DEF Delivers, DeliversNothing, AfterService, Return
      <3> QED
        BY <2>1, <2>2, <2>5, <3>1 DEF Received
    <2> QED
      BY <1>4, <2>3, <2>4, <2>5 DEF TransferReturns
  <1>5. CASE Execute
    <2>1. /\ UNCHANGED <<phase, call, chunk_length, chunk_offset, buffer>>
          /\ phase = "exchange" /\ held' = held \cup {Moment'}
      BY <1>5 DEF Execute, progress
    <2>2. ASSUME call.op \in Reads, reply'.status = "OK"
          PROVE  \E m \in held' : \A k \in 0..(chunk_length - 1) :
                    /\ reply'.data[k].kind = "byte"
                    /\ reply'.data[k].at = chunk_offset + k
                    /\ reply'.data[k].version = m.zone[chunk_offset + k]
      <3>1. reply' = Answer("OK") /\ zone' = zone
        BY <1>5, <2>2 DEF Execute, Reads, Writes
      <3>2. reply'.data = [k \in 0..(chunk_length - 1) |-> ByteAt(chunk_offset + k)]
        BY <2>2, <3>1 DEF Answer
      <3>3. Moment' \in held' /\ Moment'.zone = zone
        BY <2>1, <3>1 DEF Moment
      <3> QED
        BY <3>2, <3>3 DEF ByteAt
    <2> QED
      BY <2>1, <2>2 DEF Received, Place, Genuine, Missed
  <1>6. CASE PowerLoss
    <2>1. UNCHANGED <<phase, call, chunk_offset, buffer>> /\ reply'.status # "OK"
      BY <1>6 DEF PowerLoss, None, progress
    <2> QED
      BY <2>1 DEF Received, Place, Genuine, Missed
  <1>7. CASE OtherTask
    BY <1>7 DEF OtherTask, Received, Place, Genuine, Missed, progress
  <1>8. CASE UNCHANGED vars
    BY <1>8 DEF vars, Received, Place, Genuine, Missed, progress
  <1> QED
    BY <1>1, <1>2, <1>3, <1>4, <1>5, <1>6, <1>7, <1>8 DEF Next, Host

\* What was read stays while the buffer does: moments of the call are kept.
LEMMA ReadKept ==
  ASSUME TypeOK, ReadDelivers, UNCHANGED <<call, buffer>>, held \subseteq held',
         phase' = "idle" /\ result' = "OK" => phase = "idle" /\ result = "OK"
  PROVE  ReadDelivers'
  <1>1. \A k : (Genuine(k)' <=> Genuine(k)) /\ (Missed(k)' <=> Missed(k))
    BY DEF Genuine, Missed
  <1>2. \A j, k : SameChunk(j, k)' <=> SameChunk(j, k)
    BY DEF SameChunk
  <1>3. \A j, m : FromZone(j, m)' <=> FromZone(j, m)
    BY DEF FromZone, Genuine
  <1>4. ASSUME NEW k \in DOMAIN buffer, call.op \in Reads, Genuine(k)
        PROVE  \E m \in held' : \A j \in DOMAIN buffer :
                  j < call.length /\ SameChunk(j, k) => FromZone(j, m)
    BY <1>4 DEF ReadDelivers
  <1> QED
    BY <1>1, <1>2, <1>3, <1>4 DEF ReadDelivers

LEMMA ReadStep ==
  ASSUME TypeOK, CallInv, Received, ReadDelivers, [Next]_vars
  PROVE  ReadDelivers'
  <1>0. MaxLength \in Nat /\ DOMAIN buffer = 0..MaxLength
    BY MaxLengthNat DEF Received
  <1>1. ASSUME NEW c \in Calls, Call(c) PROVE ReadDelivers'
    <2>1. phase' = "service" /\ buffer' = [k \in 0..MaxLength |-> Cell("untouched")]
      BY <1>1 DEF Call, Untouched
    <2>2. \A k \in DOMAIN buffer' : ~Genuine(k)'
      BY <2>1 DEF Genuine, Cell
    <2> QED
      BY <2>1, <2>2 DEF ReadDelivers
  <1>2. CASE ServiceRefuses
    BY <1>2, ReadKept DEF ServiceRefuses, Return, progress
  <1>3. CASE ServiceSends
    BY <1>3, ReadKept DEF ServiceSends
  <1>4. CASE TransferReturns
    <2>1. call' = call /\ phase = "exchange" /\ held' = held
      BY <1>4 DEF TransferReturns, Delivers, DeliversNothing, Fails, AfterService
    <2>2. CASE call.op \notin Reads
      BY <2>1, <2>2 DEF ReadDelivers
    <2>3. CASE (Delivers \/ DeliversNothing) /\ call.op \in Reads
      <3>1. /\ DOMAIN buffer' = 0..MaxLength
            /\ \A k \in 0..MaxLength : IF k < Place(chunk_offset) + chunk_length
                                       THEN Genuine(k)' \/ Missed(k)'
                                       ELSE buffer'[k] = Cell("untouched")
        BY <1>4, <2>3, ChunkDelivered, ChunkMissed
      <3>2. /\ Place(chunk_offset) \in Nat /\ remaining_length \in Nat /\ chunk_length \in Nat
            /\ chunk_length \in 0..remaining_length
            /\ Place(chunk_offset) + remaining_length = call.length /\ call.length \in Nat
        BY <2>1, <2>3, ChunkPlace
      <3>3. \A j, k : SameChunk(j, k)' <=> SameChunk(j, k)
        BY <2>1 DEF SameChunk
      <3>4. ASSUME NEW k \in 0..MaxLength, Genuine(k)'
            PROVE  k < Place(chunk_offset) + chunk_length
        <4>1. buffer'[k] # Cell("untouched")
          BY <3>4 DEF Genuine, Cell
        <4> QED
          BY <3>1, <4>1
      <3>5. ASSUME NEW k \in 0..MaxLength, Genuine(k)'
            PROVE  /\ k < call.length
                   /\ \A j \in 0..k : Genuine(j)' \/ Missed(j)'
        <4>1. k < Place(chunk_offset) + chunk_length
          BY <3>4, <3>5
        <4>2. k < call.length
          BY <1>0, <3>2, <4>1
        <4>3. \A j \in 0..k : j \in 0..MaxLength /\ j < Place(chunk_offset) + chunk_length
          BY <1>0, <3>2, <4>1
        <4> QED
          BY <3>1, <4>2, <4>3
      <3>6. ASSUME NEW k \in 0..MaxLength, Genuine(k)'
            PROVE  \E m \in held : \A j \in 0..MaxLength :
                      j < call.length /\ SameChunk(j, k) => FromZone(j, m)'
        <4>1. CASE Delivers
          BY <1>4, <2>3, <3>6, <4>1, ChunkDelivered
        <4>2. CASE DeliversNothing
          <5>1. buffer' = buffer
            BY <4>2 DEF DeliversNothing
          <5>2. Genuine(k)
            BY <3>6, <5>1 DEF Genuine
          <5>3. PICK m \in held : \A j \in 0..MaxLength :
                      j < call.length /\ SameChunk(j, k) => FromZone(j, m)
            BY <1>0, <2>3, <5>2 DEF ReadDelivers
          <5>4. \A j : FromZone(j, m)' <=> FromZone(j, m)
            BY <2>1, <5>1 DEF FromZone, Genuine
          <5> QED
            BY <5>3, <5>4
        <4> QED
          BY <2>3, <4>1, <4>2
      <3>7. ASSUME phase' = "idle", result' = "OK" PROVE chunk_length = remaining_length
        <4>1. remaining_length' = remaining_length - chunk_length /\ AfterService("OK")
          BY <2>3 DEF Delivers, DeliversNothing, AfterService
        <4>2. CASE call.op \in Looping
          <5>1. ~(remaining_length' > 0)
            BY <3>7, <4>1, <4>2 DEF AfterService
          <5> QED
            BY <3>2, <4>1, <5>1
        <4>3. CASE call.op \notin Looping
          BY <2>1, <4>3 DEF CallInv, AtExchange, Progress, ServiceLength
        <4> QED
          BY <4>2, <4>3
      <3>8. ASSUME phase' = "idle", result' = "OK"
            PROVE  \A k \in 0..MaxLength : k < call.length => Genuine(k)' \/ Missed(k)'
        BY <3>1, <3>2, <3>7, <3>8
      <3> QED
        BY <2>1, <3>1, <3>3, <3>5, <3>6, <3>8 DEF ReadDelivers
    <2>4. CASE Fails /\ call.op \in Reads
      <3>1. /\ buffer' = [k \in 0..MaxLength |->
                            IF InChunk(k) THEN Cell("unknown") ELSE buffer[k]]
            /\ result' # "OK"
        BY <1>0, <2>4 DEF Fails, AfterService, Return
      <3>2. /\ Place(chunk_offset) \in Nat
            /\ \A k \in 0..MaxLength : Genuine(k) => k < Place(chunk_offset)
        <4>1. \A k \in 0..MaxLength : Genuine(k) => buffer[k] # Cell("untouched")
          BY DEF Genuine, Cell
        <4> QED
          BY <1>0, <2>1, <2>4, <4>1 DEF Received
      <3>3. ASSUME NEW k \in 0..MaxLength, k < Place(chunk_offset)
            PROVE  buffer'[k] = buffer[k]
        BY <1>0, <3>1, <3>2, <3>3 DEF InChunk
      <3>4. ASSUME NEW k \in 0..MaxLength, Genuine(k)'
            PROVE  Genuine(k)
        BY <3>1, <3>4 DEF Genuine, Cell
      <3>5. ASSUME NEW k \in 0..MaxLength, Genuine(k)'
            PROVE  /\ k < call.length
                   /\ \A j \in 0..k : Genuine(j)' \/ Missed(j)'
                   /\ \E m \in held : \A j \in 0..MaxLength :
                        j < call.length /\ SameChunk(j, k) => FromZone(j, m)'
        <4>1. Genuine(k) /\ k < Place(chunk_offset)
          BY <3>2, <3>4, <3>5
        <4>2. /\ k < call.length
              /\ \A j \in 0..k : Genuine(j) \/ Missed(j)
          BY <1>0, <2>4, <4>1 DEF ReadDelivers
        <4>3. PICK m \in held : \A j \in 0..MaxLength :
                        j < call.length /\ SameChunk(j, k) => FromZone(j, m)
          BY <1>0, <2>4, <4>1 DEF ReadDelivers
        <4>4. \A j \in 0..k : buffer'[j] = buffer[j]
          <5>1. \A j \in 0..k : j \in 0..MaxLength /\ j < Place(chunk_offset)
            BY <1>0, <3>2, <4>1
          <5> QED
            BY <3>3, <5>1
        <4>5. \A j \in 0..k : Genuine(j)' \/ Missed(j)'
          BY <2>1, <4>2, <4>4 DEF Genuine, Missed
        <4>6. ASSUME NEW j \in 0..MaxLength, FromZone(j, m)
              PROVE  FromZone(j, m)'
          <5>1. buffer'[j] = buffer[j]
            BY <3>2, <3>3, <4>6 DEF FromZone
          <5> QED
            BY <2>1, <4>6, <5>1 DEF FromZone, Genuine
        <4> QED
          BY <4>2, <4>3, <4>5, <4>6
      <3>6. \A j, k : SameChunk(j, k)' <=> SameChunk(j, k)
        BY <2>1 DEF SameChunk
      <3>7. DOMAIN buffer' = 0..MaxLength
        BY <3>1
      <3> QED
        BY <2>1, <3>1, <3>5, <3>6, <3>7 DEF ReadDelivers
    <2> QED
      BY <1>4, <2>2, <2>3, <2>4 DEF TransferReturns
  <1>5. CASE Execute
    BY <1>5, ReadKept DEF Execute, progress
  <1>6. CASE PowerLoss
    BY <1>6, ReadKept DEF PowerLoss, progress
  <1>7. CASE OtherTask
    BY <1>7, ReadKept DEF OtherTask, progress
  <1>8. CASE UNCHANGED vars
    BY <1>8, ReadKept DEF vars, progress
  <1> QED
    BY <1>1, <1>2, <1>3, <1>4, <1>5, <1>6, <1>7, <1>8 DEF Next, Host

\* A read delivers bytes of the zone from the place the caller asked for, a chunk
\* as a whole and as it was at one moment, and after a success all of it; a chunk
\* of a STSAFE-A may be missing behind an OK, its bytes as they were
\* (ReadDelivers), for every length and size of chunk.
THEOREM ReadsDeliver == Spec => []ReadDelivers
  <1>1. Init => Received /\ ReadDelivers
    <2> SUFFICES ASSUME Init PROVE Received /\ ReadDelivers
      OBVIOUS
    <2>1. phase = "idle" /\ result # "OK" /\ buffer = [k \in 0..MaxLength |-> Cell("untouched")]
      BY DEF Init, Untouched
    <2>2. \A k \in DOMAIN buffer : ~Genuine(k)
      BY <2>1 DEF Genuine, Cell
    <2> QED
      BY <2>1, <2>2 DEF Received, ReadDelivers
  <1>2. TypeOK /\ CallInv /\ Received /\ ReadDelivers /\ [Next]_vars => (Received /\ ReadDelivers)'
    BY ReceivedStep, ReadStep
  <1> QED
    BY <1>1, <1>2, Inductive, PTL DEF Spec

-----------------------------------------------------------------------------
(* The frames of the STSAFE-L services                                     *)

LEMMA RspIs ==
  ASSUME NEW c, NEW n
  PROVE  /\ c.op = "read" => RspFrame(c, n) = <<Header, Element("data", n)>>
         /\ c.op = "read_counter" => RspFrame(c, n) = <<Header, CounterElement, Element("data", n)>>
         /\ c.op = "decrement" => RspFrame(c, n) = <<Header, CounterElement>>
         /\ c.op \notin {"read", "read_counter", "decrement"} => RspFrame(c, n) = <<Header>>
  <1>1. CASE c.op = "read"
    BY <1>1, Zenon DEF RspFrame
  <1>2. CASE c.op = "read_counter"
    BY <1>2, Zenon DEF RspFrame
  <1>3. CASE c.op = "decrement"
    BY <1>3, Zenon DEF RspFrame
  <1>4. CASE c.op \notin {"read", "read_counter", "decrement"}
    <2>1. c.op # "read" /\ c.op # "read_counter" /\ c.op # "decrement"
      BY <1>4
    <2>2. RspFrame(c, n) = <<Header>>
      BY <2>1, Zenon DEF RspFrame
    <2> QED
      BY <1>4, <2>1, <2>2
  <1> QED
    BY <1>1, <1>2, <1>3, <1>4

LEMMA CmdIs ==
  ASSUME NEW c, NEW n
  PROVE  \/ CmdFrame(c, n) = Append(Access, Element("data_length", 2))
         \/ CmdFrame(c, n) = Access \o <<Element("amount", 3), Element("input", n)>>
         \/ CmdFrame(c, n) = Append(Access, Element("input", n))
  <1>1. CASE c.op \in {"read", "read_counter"}
    BY <1>1, Zenon DEF CmdFrame
  <1>2. CASE c.op = "decrement"
    <2>1. c.op \notin {"read", "read_counter"}
      BY <1>2
    <2> QED
      BY <1>2, <2>1, Zenon DEF CmdFrame
  <1>3. CASE c.op \notin {"read", "read_counter"} /\ c.op # "decrement"
    BY <1>3, Zenon DEF CmdFrame
  <1> QED
    BY <1>1, <1>2, <1>3

\* The constants of the transfer are what its proofs assume of them.
LEMMA LinkWidths ==
  /\ Word \in Nat /\ Word >= 5 /\ Word - 1 \in Nat /\ Word - 4 \in Nat
  /\ L!LRetryAssumption /\ L!LWordAssumption /\ L!LBusAssumption /\ L!LNoiseAssumption
  <1>1. /\ L!LRetryAssumption /\ L!LWordAssumption /\ L!LBusAssumption /\ L!LNoiseAssumption
    BY LinkAssumption DEF L!LRetryAssumption, L!LWordAssumption, L!LBusAssumption,
       L!LNoiseAssumption, Link!LRetryAssumption, Link!LWordAssumption, Link!LBusAssumption,
       Link!LNoiseAssumption
  <1>2. Word \in Nat /\ MaxFrame \in Nat /\ MaxFrame + 4 < Word
    BY <1>1 DEF L!LWordAssumption
  <1> QED
    BY <1>1, <1>2

LEMMA AnswersTyped == L!LAnswerAssumption
  <1>1. 0..(Word - 4) \subseteq Nat
    BY LinkWidths
  <1> QED
    BY <1>1 DEF L!LAnswerAssumption, L!Statuses, Answers

\* The elements of the services, of any length.
Fields == {"header", "option", "zone_index", "offset", "data_length", "amount", "input",
           "counter", "data"}
FieldElements == [name : Fields, length : 0..(Word - 1)]

LEMMA ServiceFrames ==
  ASSUME NEW c, NEW n \in 0..(Word - 1)
  PROVE  CmdFrame(c, n) \in Seq(FieldElements) /\ RspFrame(c, n) \in Seq(FieldElements)
  <1>1. \A k \in {1, 2, 3, n} : k \in 0..(Word - 1)
    BY LinkWidths
  <1>2. \A name \in Fields : \A k \in {1, 2, 3, n} : Element(name, k) \in FieldElements
    BY <1>1 DEF Element, FieldElements
  <1>3. /\ Header \in FieldElements /\ CounterElement \in FieldElements
        /\ Element("option", 1) \in FieldElements /\ Element("zone_index", 1) \in FieldElements
        /\ Element("offset", 2) \in FieldElements /\ Element("data_length", 2) \in FieldElements
        /\ Element("amount", 3) \in FieldElements /\ Element("input", n) \in FieldElements
        /\ Element("data", n) \in FieldElements
    BY <1>2 DEF Header, CounterElement, Fields
  <1> HIDE DEF FieldElements, Element
  <1>4. Access \in Seq(FieldElements)
    BY <1>3 DEF Access
  <1>5. CmdFrame(c, n) \in Seq(FieldElements)
    <2>1. Append(Access, Element("data_length", 2)) \in Seq(FieldElements)
          /\ Append(Access, Element("input", n)) \in Seq(FieldElements)
      BY <1>3, <1>4
    <2>2. <<Element("amount", 3), Element("input", n)>> \in Seq(FieldElements)
      BY <1>3
    <2>3. Access \o <<Element("amount", 3), Element("input", n)>> \in Seq(FieldElements)
      BY <1>4, <2>2
    <2> QED
      BY <2>1, <2>3, CmdIs
  <1>6. RspFrame(c, n) \in Seq(FieldElements)
    <2>1. /\ <<Header, Element("data", n)>> \in Seq(FieldElements)
          /\ <<Header, CounterElement, Element("data", n)>> \in Seq(FieldElements)
          /\ <<Header, CounterElement>> \in Seq(FieldElements)
          /\ <<Header>> \in Seq(FieldElements)
      BY <1>3
    <2> QED
      BY <2>1, RspIs
  <1> QED
    BY <1>5, <1>6

LEMMA ResponseFacts ==
  ASSUME NEW c, NEW n
  PROVE  /\ RspFrame(c, n) # << >> /\ RspFrame(c, n)[1].length = 1
         /\ \A i, j \in DOMAIN RspFrame(c, n) :
               RspFrame(c, n)[i].name = RspFrame(c, n)[j].name => i = j
  <1>1. \/ RspFrame(c, n) = <<Header, Element("data", n)>>
        \/ RspFrame(c, n) = <<Header, CounterElement, Element("data", n)>>
        \/ RspFrame(c, n) = <<Header, CounterElement>>
        \/ RspFrame(c, n) = <<Header>>
    BY RspIs
  <1>2. Header.name = "header" /\ Header.length = 1 /\ CounterElement.name = "counter"
        /\ Element("data", n).name = "data"
    BY DEF Header, CounterElement, Element
  <1> HIDE DEF Header, CounterElement, Element
  <1> QED
    BY <1>1, <1>2

LEMMA RequestsTyped == L!LRequestAssumption
  <1> SUFFICES ASSUME NEW r \in Requests
               PROVE  /\ r.cmd \in Seq(L!CallerElements) /\ r.rsp \in Seq(L!CallerElements)
                      /\ r.rsp # << >> /\ r.rsp[1].length = 1
                      /\ \A i, j \in DOMAIN r.rsp : r.rsp[i].name = r.rsp[j].name => i = j
    BY DEF L!LRequestAssumption
  <1>0. PICK c \in LCalls : r \in {RequestFor(c, n) : n \in 0..c.length}
    BY DEF Requests
  <1>1. PICK n \in 0..c.length : r = RequestFor(c, n)
    BY <1>0
  <1>2. n \in 0..(Word - 1)
    <2>1. c.length \in 0..(Word - 1)
      BY CallFacts DEF LCalls
    <2> QED
      BY <2>1, LinkWidths
  <1>3. r.cmd = CmdFrame(c, n) /\ r.rsp = RspFrame(c, n)
    BY <1>1 DEF RequestFor
  <1>4. r.cmd \in Seq(FieldElements) /\ r.rsp \in Seq(FieldElements)
    BY <1>2, <1>3, ServiceFrames
  <1>5. ASSUME NEW s, s = r.cmd \/ s = r.rsp, NEW i \in 1..Len(s)
        PROVE  s[i] \in L!CallerElements
    <2>1. s[i] \in FieldElements
      BY <1>4, <1>5
    <2>2. s[i] \in L!ToSet(s)
      BY <1>4, <1>5 DEF L!ToSet
    <2>3. s[i].name \in L!ElementNames
      BY <1>5, <2>2 DEF L!ElementNames
    <2>4. s[i].name \notin {"crc", "filler"}
      BY <2>1 DEF FieldElements, Fields
    <2> QED
      BY <2>1, <2>3, <2>4 DEF L!CallerElements, L!ElementsOf, FieldElements
  <1>6. r.cmd \in Seq(L!CallerElements) /\ r.rsp \in Seq(L!CallerElements)
    BY <1>4, <1>5
  <1> QED
    BY <1>3, <1>6, ResponseFacts

LEMMA TransferAssumptions == L!Assumptions
  BY LinkWidths, AnswersTyped, RequestsTyped DEF L!Assumptions

-----------------------------------------------------------------------------
(* The transfer of DataLink is the one of the proofs                       *)

LEMMA SameSteps ==
  /\ Link!Init => L!Init
  /\ \A r : Link!Call(r) => L!Call(r)
  /\ \A a : Link!CommandArrives(a) => L!CommandArrives(a)
  /\ Link!CommandLost => L!CommandLost
  /\ Link!Receive => L!Receive
  /\ Link!Forget => L!Forget
  <1> USE DEF Link!Element, L!Element, Link!CRC, L!CRC, Link!Filler, L!Filler,
          Link!TotalLength, L!TotalLength, Link!Frame, L!Frame, Link!Push, L!Push,
          Link!Pop, L!Pop, Link!Front, L!Front, Link!Last, L!Last, Link!ToSet, L!ToSet,
          Link!HeaderOnly, L!HeaderOnly, Link!Slice, L!Slice, Link!Names, L!Names,
          Link!NoRequest, L!NoRequest, Link!NoAnswer, L!NoAnswer,
          Link!NoContent, L!NoContent, Link!Return, L!Return,
          Link!frames, L!frames, Link!receiver, L!receiver, Link!device, L!device,
          Link!BusErrors, L!BusErrors, Link!RetryAfter, L!RetryAfter,
          Link!RetriesLeft, L!RetriesLeft, Link!Statuses, L!Statuses
  <1>1. Link!Init => L!Init
    BY DEF Link!Init, L!Init
  <1>2. ASSUME NEW r, Link!Call(r) PROVE L!Call(r)
    BY <1>2 DEF Link!Call, L!Call
  <1>3. ASSUME NEW a, Link!CommandArrives(a) PROVE L!CommandArrives(a)
    BY <1>3 DEF Link!CommandArrives, L!CommandArrives, Link!Attempt, L!Attempt,
       Link!AfterSend, L!AfterSend
  <1>4. Link!CommandLost => L!CommandLost
    BY DEF Link!CommandLost, L!CommandLost, Link!Attempt, L!Attempt,
       Link!AfterSend, L!AfterSend
  <1>5. Link!Receive => L!Receive
    <2>1. Link!PollLength => L!PollLength
      BY DEF Link!PollLength, L!PollLength
    <2>2. Link!ReadLength => L!ReadLength
      BY DEF Link!ReadLength, L!ReadLength, Link!LengthOf, L!LengthOf, Link!WithCRC, L!WithCRC,
         Link!FillerFor, L!FillerFor, Link!Adjusted, L!Adjusted
    <2>3. Link!PollFrame => L!PollFrame
      BY DEF Link!PollFrame, L!PollFrame, Link!WithoutFiller, L!WithoutFiller
    <2>4. Link!ReadHeaderI2C => L!ReadHeaderI2C
      BY DEF Link!ReadHeaderI2C, L!ReadHeaderI2C, Link!HeaderReceived, L!HeaderReceived,
         Link!FrameForHeader, L!FrameForHeader, Link!WithoutFiller, L!WithoutFiller
    <2>5. Link!ReadHeaderST1Wire => L!ReadHeaderST1Wire
      BY DEF Link!ReadHeaderST1Wire, L!ReadHeaderST1Wire, Link!HeaderReceived, L!HeaderReceived
    <2>6. Link!ReadElement => L!ReadElement
      BY DEF Link!ReadElement, L!ReadElement, Link!ElementLength, L!ElementLength,
         Link!Refused, L!Refused, Link!Cleaned, L!Cleaned, Link!WithoutFiller, L!WithoutFiller
    <2>7. Link!ReadCRC => L!ReadCRC
      BY DEF Link!ReadCRC, L!ReadCRC, Link!Refused, L!Refused, Link!Cleaned, L!Cleaned,
         Link!WithoutFiller, L!WithoutFiller, Link!Verified, L!Verified
    <2> QED
      BY <2>1, <2>2, <2>3, <2>4, <2>5, <2>6, <2>7 DEF Link!Receive, L!Receive
  <1>6. Link!Forget => L!Forget
    BY DEF Link!Forget, L!Forget
  <1> QED
    BY <1>1, <1>2, <1>3, <1>4, <1>5, <1>6

LEMMA SameProperties ==
  /\ L!TypeOK => LinkTypeOK
  /\ L!OKMeansFull => OKMeansFull
  /\ L!FramesComeBack => FramesComeBack
  <1> USE DEF Link!Element, L!Element, Link!TotalLength, L!TotalLength, Link!Frame, L!Frame,
          Link!ToSet, L!ToSet, Link!Slice, L!Slice, Link!Names, L!Names
  <1>1. L!TypeOK => LinkTypeOK
    BY DEF LinkTypeOK, Link!TypeOK, L!TypeOK, Link!NoRequest, L!NoRequest, Link!NoAnswer, L!NoAnswer,
       Link!FramesOf, L!FramesOf, Link!ElementsOf, L!ElementsOf, Link!AllNames, L!AllNames,
       Link!ElementNames, L!ElementNames, Link!Statuses, L!Statuses
  <1>2. L!OKMeansFull => OKMeansFull
    BY DEF OKMeansFull, Link!OKMeansFull, L!OKMeansFull, Link!OKIsAuthentic, L!OKIsAuthentic,
       Link!Full, L!Full, Link!Before, L!Before
  <1>3. L!FramesComeBack => FramesComeBack
    BY DEF FramesComeBack, Link!FramesComeBack, L!FramesComeBack
  <1> QED
    BY <1>1, <1>2, <1>3

-----------------------------------------------------------------------------
(* The invariant of the composition                                        *)

BufferPlaces == DOMAIN buffer = 0..MaxLength

LinkInv == TypeOK /\ CallInv /\ BufferPlaces /\ L!IInv /\ Coupled

LEMMA TransferFacts ==
  ASSUME L!IInv
  PROVE  /\ pc = "idle" /\ ret = "OK" => answer.status = "OK"
         /\ pc = "idle" /\ ret = "OK" =>
              \A i \in 2..Len(request.rsp) :
                 content[request.rsp[i].name]
                   = L!Slice(L!TotalLength(SubSeq(request.rsp, 2, i - 1)), request.rsp[i].length)
  BY DEF L!IInv, L!OKMeansFull, L!OKIsAuthentic, L!Full, L!Before

\* What the steps of the transfer do to what the composition looks at.
LEMMA TransferCalls ==
  ASSUME NEW r, Link!Call(r)
  PROVE  /\ pc = "idle" /\ pc' \in {"idle", "transmit"} /\ request' = r
         /\ pc' = "idle" => ret' # "OK"
  BY DEF Link!Call, Link!Return

LEMMA TransferArrives ==
  ASSUME NEW a, Link!CommandArrives(a)
  PROVE  answer' = a /\ UNCHANGED request
  BY DEF Link!CommandArrives, Link!Attempt

LEMMA TransferLost ==
  ASSUME Link!CommandLost
  PROVE  /\ pc = "transmit" /\ UNCHANGED <<request, answer>>
         /\ pc' = "transmit" \/ (pc' = "idle" /\ ret' # "OK")
  <1>1. L!Attempt(L!BusErrors) /\ UNCHANGED answer
    BY SameSteps DEF L!CommandLost
  <1>2. "OK" \notin L!BusErrors
    BY DEF L!BusErrors
  <1>3. \E bus \in L!BusErrors : L!AfterSend(bus)
    BY <1>1 DEF L!Attempt
  <1>4. pc' = "transmit" \/ (pc' = "idle" /\ ret' # "OK")
    BY <1>2, <1>3, <1>1 DEF L!AfterSend, L!Attempt, L!Return
  <1> QED
    BY <1>1, <1>4 DEF L!Attempt

LEMMA TransferReceives ==
  ASSUME Link!Receive
  PROVE  /\ pc \notin {"idle", "transmit", "fault"} /\ UNCHANGED <<request, answer>>
         /\ pc' # "transmit"
  <1>1. CASE Link!PollLength
    BY <1>1 DEF Link!PollLength, Link!Return, Link!frames, Link!device
  <1>2. CASE Link!ReadLength
    BY <1>2 DEF Link!ReadLength, Link!Return, Link!frames
  <1>3. CASE Link!PollFrame
    BY <1>3 DEF Link!PollFrame, Link!Return
  <1>4. CASE Link!ReadHeaderI2C
    BY <1>4 DEF Link!ReadHeaderI2C, Link!Return
  <1>5. CASE Link!ReadHeaderST1Wire
    BY <1>5 DEF Link!ReadHeaderST1Wire, Link!Return, Link!frames
  <1>6. CASE Link!ReadElement
    BY <1>6 DEF Link!ReadElement, Link!Return
  <1>7. CASE Link!ReadCRC
    BY <1>7 DEF Link!ReadCRC, Link!Return, Link!device
  <1> QED
    BY <1>1, <1>2, <1>3, <1>4, <1>5, <1>6, <1>7 DEF Link!Receive

LEMMA TransferForgets ==
  ASSUME Link!Forget
  PROVE  pc = "idle" /\ pc' = "idle"
  BY DEF Link!Forget

-----------------------------------------------------------------------------
(* What a transfer that returned OK left in the elements of the service    *)

LEMMA RequestKnown ==
  ASSUME TypeOK, CallInv, phase # "idle", call.family = "L"
  PROVE  RequestFor(call, ServiceLength(call)) \in Requests
  <1>1. call \in LCalls
    BY DEF TypeOK, LCalls
  <1>2. ServiceLength(call) \in 0..call.length
    BY ServiceLengthBounds DEF CallInv
  <1> QED
    BY <1>1, <1>2 DEF Requests

LEMMA NamesIn ==
  ASSUME NEW c, NEW n
  PROVE  /\ "data" \in {e.name : e \in ToSet(RspFrame(c, n))} <=> c.op \in {"read", "read_counter"}
         /\ CounterElement \in ToSet(RspFrame(c, n)) <=> c.op \in {"read_counter", "decrement"}
  <1>1. Header.name = "header" /\ CounterElement.name = "counter"
        /\ Element("data", n).name = "data"
    BY DEF Header, CounterElement, Element
  <1>2. /\ ToSet(<<Header, Element("data", n)>>) = {Header, Element("data", n)}
        /\ ToSet(<<Header, CounterElement, Element("data", n)>>)
             = {Header, CounterElement, Element("data", n)}
        /\ ToSet(<<Header, CounterElement>>) = {Header, CounterElement}
        /\ ToSet(<<Header>>) = {Header}
    <2> HIDE DEF Header, CounterElement, Element
    <2> QED
      BY DEF ToSet
  <1> HIDE DEF Header, CounterElement, Element
  <1>3. CASE c.op = "read"
    BY <1>1, <1>2, <1>3, RspIs
  <1>4. CASE c.op = "read_counter"
    BY <1>1, <1>2, <1>4, RspIs
  <1>5. CASE c.op = "decrement"
    BY <1>1, <1>2, <1>5, RspIs
  <1>6. CASE c.op \notin {"read", "read_counter", "decrement"}
    BY <1>1, <1>2, <1>6, RspIs
  <1> QED
    BY <1>3, <1>4, <1>5, <1>6

LEMMA ElementsFull ==
  ASSUME LinkInv, phase = "exchange", call.family = "L", pc = "idle", ret = "OK"
  PROVE  /\ reply.status = "OK" /\ call.op \in {"read", "read_counter", "update", "decrement"}
         /\ request.rsp = RspFrame(call, chunk_length)
         /\ call.op \in {"read", "read_counter"} =>
              content["data"] = Slice(IF call.op = "read_counter" THEN 3 ELSE 0, chunk_length)
         /\ call.op \in {"read_counter", "decrement"} => content["counter"] = Slice(0, 3)
  <1>1. /\ call.op \notin Changes /\ request = RequestFor(call, chunk_length)
        /\ answer.status = "OK" => reply.status = "OK"
    BY DEF LinkInv, Coupled
  <1>2. call.op \in {"read", "read_counter", "update", "decrement"}
    BY <1>1, CallFacts DEF LinkInv, TypeOK, Reads, Writes, Changes
  <1>3. /\ answer.status = "OK"
        /\ \A i \in 2..Len(request.rsp) :
              content[request.rsp[i].name]
                = L!Slice(L!TotalLength(SubSeq(request.rsp, 2, i - 1)), request.rsp[i].length)
    BY TransferFacts DEF LinkInv
  <1>4. chunk_length = ServiceLength(call)
    BY DEF LinkInv, CallInv, AtExchange
  <1>5. request \in Requests
    BY <1>1, <1>4, RequestKnown DEF LinkInv
  <1>6. request.rsp = RspFrame(call, chunk_length)
    BY <1>1 DEF RequestFor
  <1>7. L!TotalLength(SubSeq(request.rsp, 2, 2 - 1)) = 0
    BY <1>5, L!FirstElement, TransferAssumptions
  <1>8. \A from, n : L!Slice(from, n) = Slice(from, n)
    BY DEF Slice, L!Slice
  <1>9. /\ Element("data", chunk_length).name = "data"
        /\ Element("data", chunk_length).length = chunk_length
        /\ CounterElement.name = "counter" /\ CounterElement.length = 3
    BY DEF CounterElement, Element
  <1> HIDE DEF Header, CounterElement, Element
  <1>10. ASSUME call.op = "read"
         PROVE  content["data"] = Slice(0, chunk_length)
    <2>1. Len(request.rsp) = 2 /\ request.rsp[2] = Element("data", chunk_length)
      BY <1>6, <1>10, RspIs
    <2> QED
      BY <1>3, <1>7, <1>8, <1>9, <2>1
  <1>11. ASSUME call.op \in {"read_counter", "decrement"}
         PROVE  content["counter"] = Slice(0, 3)
    <2>1. Len(request.rsp) \in 2..3 /\ request.rsp[2] = CounterElement
      BY <1>6, <1>11, RspIs
    <2> QED
      BY <1>3, <1>7, <1>8, <1>9, <2>1
  <1>12. ASSUME call.op = "read_counter"
         PROVE  content["data"] = Slice(3, chunk_length)
    <2>1. /\ Len(request.rsp) = 3 /\ request.rsp[2] = CounterElement
          /\ request.rsp[3] = Element("data", chunk_length)
      BY <1>6, <1>12, RspIs
    <2>2. 2 \in 2..Len(request.rsp)
      BY <2>1
    <2>3. L!TotalLength(SubSeq(request.rsp, 2, (2 + 1) - 1))
            = L!TotalLength(SubSeq(request.rsp, 2, 2 - 1)) + request.rsp[2].length
      BY <1>5, <2>2, L!BeforeNext, TransferAssumptions
    <2>4. L!TotalLength(SubSeq(request.rsp, 2, 3 - 1)) = 3
      BY <1>7, <1>9, <2>1, <2>3
    <2>5. content["data"] = L!Slice(L!TotalLength(SubSeq(request.rsp, 2, 3 - 1)), chunk_length)
      BY <1>3, <1>9, <2>1
    <2> QED
      BY <1>8, <2>4, <2>5
  <1> QED
    BY <1>1, <1>2, <1>3, <1>6, <1>10, <1>11, <1>12

\* The service moves the data of the answer to their place in the buffer.
LEMMA ServiceDeliversIs ==
  ASSUME LinkInv, phase = "exchange", call.family = "L", pc = "idle", ServiceDelivers
  PROVE  Delivers
  <1>1. /\ reply.status = "OK" /\ call.op \in {"read", "read_counter", "update", "decrement"}
        /\ request.rsp = RspFrame(call, chunk_length)
        /\ call.op \in {"read", "read_counter"} =>
              content["data"] = Slice(IF call.op = "read_counter" THEN 3 ELSE 0, chunk_length)
        /\ call.op \in {"read_counter", "decrement"} => content["counter"] = Slice(0, 3)
    BY ElementsFull DEF ServiceDelivers
  <1>2. /\ "data" \in {e.name : e \in ToSet(request.rsp)} <=> call.op \in Reads
        /\ call.op \in Reads <=> call.op \in {"read", "read_counter"}
        /\ CounterElement \in ToSet(request.rsp) <=> call.op \in Counting
        /\ call.op \in Counting <=> call.op \in {"read_counter", "decrement"}
    BY <1>1, NamesIn DEF Reads, Counting, Decrements
  <1>3. AfterService("OK")
    BY DEF ServiceDelivers
  <1>4. counter_value' = IF call.op \in Counting THEN Counted(reply.counter) ELSE counter_value
    BY <1>1, <1>2 DEF ServiceDelivers
  <1>5. ASSUME call.op \in Reads, NEW k \in DOMAIN buffer
        PROVE  /\ Arrived(k) <=> InChunk(k)
               /\ Taken(k) = reply.data[k - Place(chunk_offset)]
    <2> DEFINE before == IF call.op = "read_counter" THEN 3 ELSE 0
               p == k - (chunk_offset - call.offset)
    <2>1. content["data"].from = before /\ content["data"].n = chunk_length
      BY <1>1, <1>2, <1>5 DEF Slice
    <2>2. k \in Int /\ chunk_offset \in Int /\ call.offset \in Int /\ chunk_length \in Int
      <3>1. k \in 0..MaxLength /\ MaxLength \in Nat
        BY <1>5, MaxLengthNat DEF LinkInv, BufferPlaces
      <3>2. chunk_offset \in 0..(Word - 1) /\ chunk_length \in 0..(Word - 1)
        BY DEF LinkInv, TypeOK
      <3>3. call.offset \in 0..(Word - 1)
        BY CallFacts DEF LinkInv, TypeOK
      <3> QED
        BY <3>1, <3>2, <3>3, Widths
    <2>3. p \in Int /\ before \in Int
      BY <2>2
    <2>4. p \in 0..(chunk_length - 1) <=> InChunk(k)
      BY <2>2 DEF InChunk, Place
    <2>5. Arrived(k) <=> p \in 0..(chunk_length - 1)
      BY <2>1 DEF Arrived
    <2>6. before + p - before = k - Place(chunk_offset)
      BY <2>2, <2>3 DEF Place
    <2>7. Taken(k) = reply.data[before + p - before]
      BY <2>1 DEF Taken
    <2> QED
      BY <2>4, <2>5, <2>6, <2>7
  <1>6. buffer' = IF call.op \in Reads
                  THEN [k \in DOMAIN buffer |->
                          IF InChunk(k) THEN reply.data[k - Place(chunk_offset)] ELSE buffer[k]]
                  ELSE buffer
    <2>1. buffer' = IF call.op \in Reads
                    THEN [k \in DOMAIN buffer |-> IF Arrived(k) THEN Taken(k) ELSE buffer[k]]
                    ELSE buffer
      BY <1>2 DEF ServiceDelivers
    <2> QED
      BY <1>5, <2>1
  <1> QED
    BY <1>1, <1>3, <1>4, <1>6 DEF Delivers

LEMMA ReturnsIs ==
  ASSUME LinkInv, LReturns
  PROVE  TransferReturns
  BY ServiceDeliversIs DEF LReturns, TransferReturns, element

-----------------------------------------------------------------------------
(* The composition implements DataStorage, and its transfer LFrameTransfer *)

LEMMA ImplementsStorage ==
  ASSUME LinkInv, [LinkNext]_linkVars
  PROVE  [Next]_vars
  <1>1. CASE UNCHANGED linkVars
    BY <1>1 DEF linkVars, storage, vars, progress, element
  <1>2. CASE LLost \/ LReceives
    BY <1>2 DEF LLost, LReceives, storage, vars, progress, element
  <1>3. CASE LReturns
    BY <1>3, ReturnsIs DEF Next, Host
  <1>4. ASSUME NEW c \in Calls, LinkCall(c) PROVE Next
    BY <1>4 DEF LinkCall, Next
  <1> QED
    BY <1>1, <1>2, <1>3, <1>4
    DEF LinkNext, LinkHost, LinkRefuses, ASends, AReturns, LSends, LArrives, AExecutes,
        APowerLoss, LPowerLoss, LinkOtherTask, Next, Host

LEMMA ImplementsTransfer ==
  ASSUME LinkInv, [LinkNext]_linkVars
  PROVE  [L!Next]_L!vars
  <1> USE DEF L!vars, L!frames, L!receiver, L!device
  <1>1. CASE UNCHANGED linkVars
    BY <1>1 DEF linkVars, link
  <1>2. CASE LSends
    <2>1. phase = "service" /\ call.family = "L" /\ chunk_length' = ServiceLength(call)
      BY <1>2 DEF LSends, ServiceSends
    <2>2. RequestFor(call, ServiceLength(call)) \in Requests
      BY <2>1, RequestKnown DEF LinkInv
    <2>3. Link!Call(RequestFor(call, ServiceLength(call)))
      BY <1>2, <2>1 DEF LSends
    <2> QED
      BY <2>2, <2>3, SameSteps DEF L!Next
  <1>3. CASE LArrives
    <2>1. PICK a \in AnswersFor(reply', request.rsp) : Link!CommandArrives(a)
      BY <1>3 DEF LArrives
    <2>2. a \in Answers
      <3>1. [status |-> "ERROR", payload |-> 0] \in Answers
        BY LinkWidths DEF Answers
      <3> QED
        BY <3>1 DEF AnswersFor
    <2> QED
      BY <2>1, <2>2, SameSteps DEF L!Next
  <1>4. CASE LPowerLoss \/ LLost
    BY <1>4, SameSteps DEF LPowerLoss, LLost, L!Next
  <1>5. CASE LReceives
    BY <1>5, SameSteps DEF LReceives, L!Next
  <1>6. CASE LReturns
    BY <1>6, SameSteps DEF LReturns, L!Next
  <1>7. CASE UNCHANGED link
    BY <1>7 DEF link
  <1> QED
    BY <1>1, <1>2, <1>3, <1>4, <1>5, <1>6, <1>7
    DEF LinkNext, LinkHost, LinkCall, LinkRefuses, ASends, AReturns, AExecutes, APowerLoss,
        LinkOtherTask

LEMMA BufferStep ==
  ASSUME BufferPlaces, [Next]_vars
  PROVE  BufferPlaces'
  <1>1. ASSUME NEW c \in Calls, Call(c) PROVE BufferPlaces'
    BY <1>1 DEF Call, Untouched, BufferPlaces
  <1>2. CASE TransferReturns
    BY <1>2 DEF TransferReturns, Delivers, DeliversNothing, Fails, BufferPlaces
  <1>3. ASSUME ServiceRefuses \/ ServiceSends \/ Execute \/ PowerLoss \/ OtherTask \/ UNCHANGED vars
        PROVE  BufferPlaces'
    BY <1>3 DEF ServiceRefuses, ServiceSends, Execute, PowerLoss, OtherTask, vars, BufferPlaces
  <1> QED
    BY <1>1, <1>2, <1>3 DEF Next, Host

LEMMA CoupledStep ==
  ASSUME LinkInv, [LinkNext]_linkVars
  PROVE  Coupled'
  <1> USE DEF Coupled
  <1>0. Coupled
    BY DEF LinkInv
  <1>1. CASE UNCHANGED linkVars
    <2>1. UNCHANGED <<pc, phase, call, chunk_length, request, ret, answer, reply>>
      BY <1>1 DEF linkVars, storage, link
    <2> QED
      BY <1>0, <2>1 DEF RequestFor, CmdFrame, RspFrame
  <1>2. ASSUME phase' # "exchange", pc' = "idle" PROVE Coupled'
    BY <1>2
  <1>3. ASSUME NEW c \in Calls, LinkCall(c) PROVE Coupled'
    BY <1>0, <1>2, <1>3 DEF LinkCall, Call, link
  <1>4. CASE LinkRefuses \/ LinkOtherTask
    BY <1>0, <1>2, <1>4 DEF LinkRefuses, ServiceRefuses, Return, LinkOtherTask, OtherTask, link
  <1>5. CASE AReturns \/ LReturns
    <2>1. TransferReturns
      BY <1>5, ReturnsIs DEF AReturns
    <2>2. phase' \in {"idle", "service"}
      BY <2>1 DEF TransferReturns, Delivers, DeliversNothing, Fails, AfterService, Return
    <2>3. pc' = "idle"
      BY <1>0, <1>5, TransferForgets DEF AReturns, LReturns, link
    <2> QED
      BY <1>2, <2>2, <2>3
  <1>6. CASE ASends \/ AExecutes \/ APowerLoss
    <2>1. call.family = "A" /\ UNCHANGED <<call, pc>>
      BY <1>6 DEF ASends, AExecutes, APowerLoss, ServiceSends, Execute, PowerLoss, progress, link
    <2> QED
      BY <1>0, <2>1
  <1>7. CASE LSends
    <2>1. /\ call.family = "L" /\ phase' = "exchange" /\ call' = call
          /\ Link!Call(RequestFor(call, chunk_length'))
          /\ ~Refused(call, ServiceLength(call))
      BY <1>7 DEF LSends, ServiceSends
    <2>2. call.op \notin Changes
      BY <2>1 DEF Refused
    <2>3. /\ request' = RequestFor(call', chunk_length') /\ pc' \in {"idle", "transmit"}
          /\ pc' = "idle" => ret' # "OK"
      BY <2>1, TransferCalls
    <2>4. RequestFor(call, chunk_length)' = RequestFor(call', chunk_length')
      BY DEF RequestFor, CmdFrame, RspFrame
    <2>5. call'.family = "L" /\ call'.op \notin Changes
      BY <2>1, <2>2
    <2>6. ~(pc' \notin {"transmit", "fault"} /\ (pc' = "idle" => ret' = "OK"))
      BY <2>3
    <2> HIDE DEF RequestFor, Changes
    <2> QED
      BY <2>1, <2>3, <2>4, <2>5, <2>6
  <1>8. CASE LArrives \/ LPowerLoss \/ LLost \/ LReceives
    <2>1. pc # "idle" /\ UNCHANGED <<phase, call, chunk_length, request>>
      BY <1>8, TransferArrives, TransferLost, TransferReceives
      DEF LArrives, LPowerLoss, LLost, LReceives, Execute, PowerLoss, progress, storage
    <2>2. RequestFor(call, chunk_length)' = RequestFor(call, chunk_length)
      BY <2>1 DEF RequestFor, CmdFrame, RspFrame
    <2>3. phase = "exchange" /\ call.family = "L" /\ call.op \notin Changes
          /\ request = RequestFor(call, chunk_length)
      BY <1>0, <2>1
    <2>4. CASE LArrives
      <3>1. PICK a \in AnswersFor(reply', request.rsp) : Link!CommandArrives(a)
        BY <2>4 DEF LArrives
      <3>2. a.status = "OK" => reply'.status # "ERROR"
        BY DEF AnswersFor
      <3>3. reply'.status \in {"OK", "ERROR"}
        BY <2>4 DEF LArrives, Execute, Answer
      <3> QED
        BY <2>1, <2>2, <2>3, <3>1, <3>2, <3>3, TransferArrives
    <2>5. CASE LPowerLoss \/ LLost
      BY <2>1, <2>2, <2>3, <2>5, TransferLost DEF LPowerLoss, LLost
    <2>6. CASE LReceives
      <3>1. UNCHANGED <<answer, reply>> /\ pc \notin {"idle", "transmit", "fault"}
        BY <2>6, TransferReceives DEF LReceives, storage
      <3> QED
        BY <1>0, <2>1, <2>2, <2>3, <3>1
    <2> QED
      BY <1>8, <2>4, <2>5, <2>6
  <1> QED
    BY <1>1, <1>3, <1>4, <1>5, <1>6, <1>7, <1>8 DEF LinkNext, LinkHost

LEMMA LinkInvInit ==
  ASSUME LinkInit
  PROVE  LinkInv
  <1>1. TypeOK /\ CallInv
    BY Widths DEF LinkInit, Init, TypeOK, CallInv, Progress, AtExchange, Own, None
  <1>2. BufferPlaces
    BY DEF LinkInit, Init, Untouched, BufferPlaces
  <1>3. L!IInv
    BY SameSteps, TransferAssumptions, L!InvInit DEF LinkInit
  <1>4. Coupled
    BY DEF LinkInit, Init, Link!Init, Coupled
  <1> QED
    BY <1>1, <1>2, <1>3, <1>4 DEF LinkInv

LEMMA LinkInvStep ==
  ASSUME LinkInv, [LinkNext]_linkVars
  PROVE  LinkInv'
  <1>1. [Next]_vars /\ [L!Next]_L!vars
    BY ImplementsStorage, ImplementsTransfer
  <1>2. TypeOK' /\ CallInv'
    BY <1>1, TypeStep, ProgressStep, ExchangeStep, MomentStep DEF LinkInv, CallInv
  <1>3. BufferPlaces'
    BY <1>1, BufferStep DEF LinkInv
  <1>4. L!IInv'
    BY <1>1, TransferAssumptions, L!InvStep DEF LinkInv
  <1>5. Coupled'
    BY CoupledStep
  <1> QED
    BY <1>2, <1>3, <1>4, <1>5 DEF LinkInv

-----------------------------------------------------------------------------
(* The theorems about the composition                                      *)

\* The invariants of the services, of the transfer and of what couples them hold
\* together: each needs the others.
THEOREM LinkInductive == LinkSpec => []LinkInv
  <1>1. LinkInit => LinkInv
    BY LinkInvInit
  <1>2. LinkInv /\ [LinkNext]_linkVars => LinkInv'
    BY LinkInvStep
  <1> QED
    BY <1>1, <1>2, PTL DEF LinkSpec

\* The services over the STSAFE-L transfer implement the services over a transfer
\* of which only the outcome is known (StorageSpec): an STSE_OK of the transfer
\* delivers the reply of the secure element to its place, whatever the bus did.
THEOREM LinkImplementsStorage == LinkSpec => StorageSpec
  <1>1. LinkInit => Init
    BY DEF LinkInit
  <1>2. LinkInv /\ [LinkNext]_linkVars => [Next]_vars
    BY ImplementsStorage
  <1> QED
    BY <1>1, <1>2, LinkInductive, PTL DEF LinkSpec, StorageSpec, Spec

\* On a STSAFE-L no exception of the STSAFE-A applies.
LDelivered ==
    call.family = "L" /\ phase = "idle" /\ result = "OK" =>
        /\ call.op \in Reads => \A k \in DOMAIN buffer : Genuine(k) <=> k < call.length
        /\ call.op \in Counting => counter_value = Counted(counter)

\* And with it every promise of the API, on the wire of a STSAFE-L: whatever the
\* bus damages, an STSE_OK delivered the whole request and the counter.
THEOREM PromisesOnTheWire ==
  LinkSpec => [](/\ ReadDelivers /\ StoredWhenOK /\ CounterIsCurrent /\ ChunkInBuffer
                 /\ LDelivered)
  <1>1. ReadDelivers /\ CounterIsCurrent => LDelivered
    BY DEF ReadDelivers, CounterIsCurrent, LDelivered, Missed
  <1>2. LinkSpec => [](ReadDelivers /\ StoredWhenOK /\ CounterIsCurrent /\ ChunkInBuffer)
    BY LinkImplementsStorage, ReadsDeliver, StoredOK, CounterCurrent, ChunkInside, PTL
    DEF StorageSpec
  <1> QED
    BY <1>1, <1>2, PTL

\* The lengths and retries of the transfer keep their types for the requests of
\* the services (LinkTypeOK).
THEOREM LinkTypeCorrect == LinkSpec => []LinkTypeOK
  <1>1. LinkInv => LinkTypeOK
    BY SameProperties DEF LinkInv, L!IInv
  <1> QED
    BY <1>1, LinkInductive, PTL

\* An STSE_OK on the bus of a STSAFE-L comes from an answer that says so and that
\* fills every element of the service with its own part (OKMeansFull).
THEOREM LinkOKFull == LinkSpec => []OKMeansFull
  <1>1. LinkInv => OKMeansFull
    BY SameProperties DEF LinkInv, L!IInv
  <1> QED
    BY <1>1, LinkInductive, PTL

\* A call whose answer, with header and counter, fits a PLAT_UI16.
RoomAssumption == \A c \in LCalls : c.length + 4 < Word

LEMMA RoomInResponses ==
  ASSUME RoomAssumption
  PROVE  L!LRoomAssumption
  <1> SUFFICES ASSUME NEW r \in Requests PROVE L!TotalLength(r.rsp) < Word
    BY DEF L!LRoomAssumption
  <1>1. PICK c \in LCalls : r \in {RequestFor(c, n) : n \in 0..c.length}
    BY DEF Requests
  <1>2. PICK n \in 0..c.length : r = RequestFor(c, n)
    BY <1>1
  <1>3. n \in Nat /\ n + 4 < Word
    <2>1. c.length \in Nat /\ c.length + 4 < Word
      BY CallFacts, LinkWidths DEF LCalls, RoomAssumption
    <2> QED
      BY <2>1, LinkWidths
  <1>4. r.rsp = RspFrame(c, n)
    BY <1>2 DEF RequestFor
  <1> DEFINE T == [name : Fields, length : Nat]
  <1>5. /\ Header \in T /\ CounterElement \in T /\ Element("data", n) \in T
        /\ Header.length = 1 /\ CounterElement.length = 3 /\ Element("data", n).length = n
    BY <1>3 DEF Header, CounterElement, Element, Fields
  <1>6. \A e \in T : e.length \in Nat
    OBVIOUS
  <1> HIDE DEF T, Header, CounterElement, Element
  <1>7. L!TotalLength(<< >>) = 0 /\ << >> \in Seq(T)
    BY L!TotalLengthEmpty
  <1>8. L!TotalLength(<<Header>>) = 1 /\ <<Header>> \in Seq(T)
    <2>1. <<Header>> = Append(<< >>, Header)
      OBVIOUS
    <2>2. L!TotalLength(Append(<< >>, Header)) = L!TotalLength(<< >>) + Header.length
      BY <1>5, <1>6, <1>7, L!TotalLengthAppend
    <2> QED
      BY <1>5, <1>7, <2>1, <2>2
  <1>9. L!TotalLength(<<Header, CounterElement>>) = 4 /\ <<Header, CounterElement>> \in Seq(T)
    <2>1. <<Header, CounterElement>> = Append(<<Header>>, CounterElement)
      OBVIOUS
    <2>2. L!TotalLength(Append(<<Header>>, CounterElement))
            = L!TotalLength(<<Header>>) + CounterElement.length
      BY <1>5, <1>6, <1>8, L!TotalLengthAppend
    <2>3. Append(<<Header>>, CounterElement) \in Seq(T)
      BY <1>5, <1>8
    <2>4. L!TotalLength(Append(<<Header>>, CounterElement)) = 4
      BY <1>5, <1>8, <2>2
    <2> QED
      BY <2>1, <2>3, <2>4
  <1> DEFINE data == Element("data", n)
  <1>10. data \in T /\ data.length = n
    BY <1>5
  <1> HIDE DEF data
  <1>11. L!TotalLength(<<Header, data>>) = 1 + n
    <2>1. <<Header, data>> = Append(<<Header>>, data)
      OBVIOUS
    <2>2. L!TotalLength(Append(<<Header>>, data)) = L!TotalLength(<<Header>>) + data.length
      BY <1>6, <1>8, <1>10, L!TotalLengthAppend
    <2> QED
      BY <1>8, <1>10, <2>1, <2>2
  <1>12. L!TotalLength(<<Header, CounterElement, data>>) = 4 + n
    <2>1. <<Header, CounterElement, data>> = Append(<<Header, CounterElement>>, data)
      OBVIOUS
    <2>2. L!TotalLength(Append(<<Header, CounterElement>>, data))
            = L!TotalLength(<<Header, CounterElement>>) + data.length
      BY <1>6, <1>9, <1>10, L!TotalLengthAppend
    <2> QED
      BY <1>9, <1>10, <2>1, <2>2
  <1>13. \/ r.rsp = <<Header, data>> \/ r.rsp = <<Header, CounterElement, data>>
         \/ r.rsp = <<Header, CounterElement>> \/ r.rsp = <<Header>>
    BY <1>4, RspIs DEF data
  <1>14. 1 + n < Word /\ 4 + n < Word /\ 4 < Word /\ 1 < Word
    BY <1>3, LinkWidths
  <1> QED
    BY <1>8, <1>9, <1>11, <1>12, <1>13, <1>14

\* Over I2C a service has its frames back on every return, and the receiver only
\* faults on an error answer whose length was damaged, as long as no response is
\* so long that its own length wraps (FramesComeBack).
THEOREM LinkFramesReturned ==
  ASSUME RoomAssumption
  PROVE  LinkSpec => []FramesComeBack
  <1> DEFINE Inv == LinkInv /\ L!FaultIsExplained
  <1>1. LinkInit => Inv
    BY LinkInvInit DEF LinkInit, Link!Init, L!FaultIsExplained
  <1>2. Inv /\ [LinkNext]_linkVars => Inv'
    <2> SUFFICES ASSUME Inv, [LinkNext]_linkVars PROVE Inv'
      OBVIOUS
    <2>1. [L!Next]_L!vars
      BY ImplementsTransfer
    <2>2. L!FaultIsExplained'
      BY <2>1, TransferAssumptions, RoomInResponses, L!FaultStep DEF LinkInv, L!IInv
    <2> QED
      BY <2>2, LinkInvStep
  <1>3. Inv => FramesComeBack
    BY TransferAssumptions, L!IdleIs, SameProperties DEF LinkInv, L!IInv
  <1> QED
    BY <1>1, <1>2, <1>3, PTL DEF LinkSpec
===============================================================================
