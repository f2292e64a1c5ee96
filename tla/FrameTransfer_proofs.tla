------------------------ MODULE FrameTransfer_proofs ------------------------
(***************************************************************************)
(* Proofs about FrameTransfer, for any frames, answers, lengths and        *)
(* retries.                                                                *)
(***************************************************************************)
EXTENDS FrameTransfer, Frames_proofs

-----------------------------------------------------------------------------
(* Frames and their types                                                  *)

LEMMA Sizes ==
  /\ Word \in Nat \ {0} /\ MaxFrame \in Nat /\ MaxFrame + 4 < Word
  /\ MaxPollingRetry \in Nat \ {0}
  BY WordAssumption, RetryAssumption

LEMMA RequestFacts ==
  ASSUME NEW r \in Requests
  PROVE  /\ r.cmd \in Seq(Elements) /\ r.rsp \in Seq(Elements)
         /\ Len(r.rsp) \in Nat \ {0}
         /\ \A i \in 1..Len(r.rsp) : /\ r.rsp[i].name \in Names \ {"crc", "filler"}
                                     /\ r.rsp[i].length \in 0..(Word - 1)
         /\ \A i, j \in 1..Len(r.rsp) : r.rsp[i].name = r.rsp[j].name => i = j
  <1>1. CallerElements \subseteq Elements
    BY DEF CallerElements, Elements, ElementsOf, AllNames
  <1>2. /\ r.cmd \in Seq(CallerElements) /\ r.rsp \in Seq(CallerElements) /\ r.rsp # << >>
        /\ \A i, j \in DOMAIN r.rsp : r.rsp[i].name = r.rsp[j].name => i = j
    BY RequestAssumption
  <1>3. r.cmd \in Seq(Elements) /\ r.rsp \in Seq(Elements) /\ Len(r.rsp) \in Nat \ {0}
    BY <1>1, <1>2
  <1>4. ASSUME NEW i \in 1..Len(r.rsp)
        PROVE  r.rsp[i].name \in Names \ {"crc", "filler"} /\ r.rsp[i].length \in 0..(Word - 1)
    <2>1. r.rsp[i] \in CallerElements
      BY <1>2
    <2>2. r.rsp[i] \in ToSet(r.rsp)
      BY <1>2 DEF ToSet
    <2>3. r.rsp[i].name \in Names
      BY <2>2 DEF Names
    <2> QED
      BY <2>1, <2>3 DEF CallerElements, ElementsOf, AllNames
  <1> QED
    BY <1>2, <1>3, <1>4

LEMMA ElementLengths == \A e \in Elements : e.length \in Nat /\ e.length \in 0..(Word - 1)
  BY LengthsNat, Sizes DEF Elements

LEMMA FrameType ==
  ASSUME NEW s \in Seq(Elements)
  PROVE  Frame(s) \in AnyFrame
  BY FrameTyped, Sizes DEF Elements, AnyFrame

LEMMA PushType ==
  ASSUME NEW f \in AnyFrame, NEW e \in Elements
  PROVE  Push(f, e) \in AnyFrame
  BY PushTyped, Sizes DEF Elements, AnyFrame

LEMMA PopType ==
  ASSUME NEW f \in AnyFrame
  PROVE  Pop(f) \in AnyFrame
  BY PopTyped, Sizes DEF AnyFrame

LEMMA HeaderOnlyType ==
  ASSUME NEW f \in AnyFrame, f.elements # << >>
  PROVE  HeaderOnly(f) \in AnyFrame
  BY HeaderOnlyTyped, Sizes DEF AnyFrame

LEMMA FillerType ==
  ASSUME NEW n \in 0..(Word - 1)
  PROVE  Filler(n) \in Elements
  BY DEF Filler, Element, Elements, ElementsOf, AllNames

LEMMA CRCType == CRC \in Elements
  BY Sizes DEF CRC, Element, Elements, ElementsOf, AllNames

LEMMA AdjustedType ==
  ASSUME NEW f \in AnyFrame, NEW length \in 0..MaxFrame
  PROVE  Adjusted(f, length) \in AnyFrame /\ FillerFor(f, length) \in 0..MaxFrame
  <1>1. f.length \in 0..(Word - 1) /\ f.elements \in Seq(Elements)
    BY DEF AnyFrame, FramesOf, Elements
  <1>2. CASE length > f.length
    <2>1. length - f.length \in 0..(Word - 1) /\ length - f.length \in 0..MaxFrame
      BY <1>1, <1>2, Sizes
    <2> QED
      BY <1>2, <2>1, FillerType, PushType DEF Adjusted, FillerFor
  <1>3. CASE ~(length > f.length)
    <2>1. [f EXCEPT !.length = length] \in AnyFrame
      BY <1>1, Sizes DEF AnyFrame, FramesOf, Elements
    <2> QED
      BY <1>3, <2>1, Sizes DEF Adjusted, FillerFor
  <1> QED
    BY <1>2, <1>3

LEMMA CleanedType ==
  ASSUME NEW f \in AnyFrame
  PROVE  WithoutFiller(f) \in AnyFrame /\ Cleaned(f) \in AnyFrame
  BY PopType DEF WithoutFiller, Cleaned

-----------------------------------------------------------------------------
(* The type invariant                                                      *)

LEMMA TypeInit == Init => TypeOK
  <1> SUFFICES ASSUME Init PROVE TypeOK
    OBVIOUS
  <1>1. cmd \in AnyFrame /\ rsp \in AnyFrame
    BY RequestFacts, FrameType DEF Init
  <1>2. content \in [Names -> [from : Nat, n : Nat]]
    BY DEF Init, NoContent, Slice
  <1>3. ret \in ReturnCodes /\ received_header \in Statuses /\ damaged \in BOOLEAN
    BY DEF Init, ReturnCodes, BusErrors, Statuses
  <1>4. /\ retry_count \in 1..MaxPollingRetry
        /\ received_length \in 0..(Word - 1) /\ filler_size \in 0..MaxFrame
        /\ current \in Nat /\ taken \in Nat
    BY Sizes DEF Init
  <1> QED
    BY <1>1, <1>2, <1>3, <1>4 DEF Init, TypeOK

LEMMA RetryFacts ==
  ASSUME TypeOK, NEW bus
  PROVE  RetryAfter(bus) => RetriesLeft \in 1..MaxPollingRetry
  BY Sizes DEF TypeOK, RetryAfter, RetriesLeft

LEMMA CallType ==
  ASSUME TypeOK, NEW r \in Requests, Call(r)
  PROVE  TypeOK'
  <1>1. cmd' \in AnyFrame /\ rsp' \in AnyFrame
    BY RequestFacts, FrameType, PushType, CRCType DEF Call
  <1>2. content' \in [Names -> [from : Nat, n : Nat]]
    BY DEF Call, NoContent, Slice
  <1> QED
    BY <1>1, <1>2, Sizes DEF Call, Return, TypeOK, Statuses, ReturnCodes

LEMMA TransmitType ==
  ASSUME TypeOK, TransmitAttempt
  PROVE  TypeOK'
  <1>1. PICK bus \in {"OK"} \cup BusErrors : AfterSend(bus)
    BY DEF TransmitAttempt
  <1>2. cmd' \in AnyFrame /\ retry_count' \in 1..MaxPollingRetry
    BY <1>1, PopType, RetryFacts, Sizes DEF AfterSend, CmdAfterTransmit, TypeOK
  <1>3. /\ pc' \in {"idle", "transmit", "poll_length"}
        /\ ret' \in ReturnCodes
    BY <1>1 DEF AfterSend, Return, ReturnCodes, TransmitAttempt, TypeOK
  <1>4. answer' \in Answers
    BY DEF TransmitAttempt, TypeOK
  <1>5. UNCHANGED <<request, rsp, received_header, received_length, filler_size,
                    current, damaged, taken, content>>
    BY DEF TransmitAttempt
  <1> QED
    BY <1>2, <1>3, <1>4, <1>5 DEF TypeOK

LEMMA PollLengthType ==
  ASSUME TypeOK, PollLength
  PROVE  TypeOK'
  BY RetryFacts DEF PollLength, Return, TypeOK, ReturnCodes, device

LEMMA ReadLengthFailsType ==
  ASSUME TypeOK, ReadLengthFails
  PROVE  TypeOK'
  BY DEF ReadLengthFails, Return, TypeOK, ReturnCodes, device, host

LEMMA FieldFacts ==
  ASSUME TypeOK, NEW field \in {answer.payload + 2} \cup NoisyLengths
  PROVE  LengthOf(field) \in 0..(Word - 1)
  <1>1. answer.payload + 2 \in Nat
    BY AnswerAssumption, Sizes DEF TypeOK
  <1>2. field \in Nat
    BY <1>1, NoiseAssumption
  <1>3. field + Word - 2 + 1 \in Nat
    BY <1>2, Sizes
  <1> QED
    BY <1>3, ModRange, Sizes DEF LengthOf

\* The response before it is adjusted: the frame of the caller, or its header.
LEMMA StatusFrameType ==
  ASSUME TypeOK, FramesInv, pc = "read_length", NEW header \in Statuses
  PROVE  FrameForStatus(header) \in AnyFrame
  <1>1. rsp \in AnyFrame /\ rsp.elements # << >>
    <2>1. rsp = Frame(request.rsp) /\ request \in Requests
      BY DEF FramesInv, TypeOK
    <2>2. rsp.elements = request.rsp
      BY <2>1 DEF Frame
    <2> QED
      BY <2>1, <2>2, RequestFacts, FrameType
  <1> QED
    BY <1>1, HeaderOnlyType DEF FrameForStatus

LEMMA ReadLengthType ==
  ASSUME TypeOK, FramesInv, ReadLength
  PROVE  TypeOK'
  <1>1. pc = "read_length" /\ UNCHANGED device
    BY DEF ReadLength
  <1>2. PICK header \in Statuses, field \in {answer.payload + 2} \cup NoisyLengths :
           LET length == LengthOf(field)
               frame == FrameForStatus(header)
           IN \/ length > MaxFrame /\ Return("FRAME_SIZE_ERROR") /\ UNCHANGED host
              \/ /\ length <= MaxFrame
                 /\ received_header' = header
                 /\ received_length' = length
                 /\ \/ /\ length = 1
                       /\ rsp' = frame
                       /\ \/ FirstReadVerified(header, length) /\ Return(header)
                          \/ Return("FRAME_CRC_ERROR")
                       /\ UNCHANGED <<filler_size, retry_count>>
                    \/ /\ length # 1
                       /\ filler_size' = FillerFor(frame, length)
                       /\ rsp' = Adjusted(frame, length)
                       /\ retry_count' = MaxPollingRetry
                       /\ pc' = "poll_frame"
                       /\ UNCHANGED ret
                 /\ UNCHANGED <<request, cmd, current>>
    BY DEF ReadLength
  <1> DEFINE length == LengthOf(field)
  <1> DEFINE frame == FrameForStatus(header)
  <1>3. length \in 0..(Word - 1) /\ frame \in AnyFrame
    BY <1>1, FieldFacts, StatusFrameType
  <1> HIDE DEF length, frame
  <1>4. CASE length > MaxFrame
    BY <1>1, <1>2, <1>3, <1>4, Sizes DEF Return, TypeOK, ReturnCodes, host, device, length, frame
  <1>5. CASE length <= MaxFrame
    <2>1. Adjusted(frame, length) \in AnyFrame /\ FillerFor(frame, length) \in 0..MaxFrame
      BY <1>3, <1>5, AdjustedType
    <2>2. /\ received_header' \in Statuses /\ received_length' \in 0..(Word - 1)
          /\ rsp' \in AnyFrame /\ filler_size' \in 0..MaxFrame
          /\ retry_count' \in 1..MaxPollingRetry
          /\ pc' \in {"idle", "poll_frame"}
          /\ ret' \in ReturnCodes
          /\ UNCHANGED <<request, cmd, current>>
      BY <1>2, <1>3, <1>5, <2>1, Sizes
      DEF Return, ReturnCodes, TypeOK, length, frame, Statuses
    <2> QED
      BY <1>1, <2>2 DEF TypeOK, AnyFrame, FramesOf, Elements, device
  <1> QED
    BY <1>3, <1>4, <1>5, Sizes

LEMMA PollFrameType ==
  ASSUME TypeOK, PollFrame
  PROVE  TypeOK'
  <1>1. rsp' \in AnyFrame
    BY CleanedType DEF PollFrame, TypeOK
  <1> QED
    BY <1>1, RetryFacts DEF PollFrame, Return, TypeOK, ReturnCodes, device

LEMMA ReadHeaderType ==
  ASSUME TypeOK, ReadHeader
  PROVE  TypeOK'
  <1>1. rsp' \in AnyFrame
    BY CleanedType, PushType, CRCType DEF ReadHeader, TypeOK
  <1>2. received_length + Word - 1 \in Nat
    BY Sizes DEF TypeOK
  <1>3. received_length' \in 0..(Word - 1)
    BY <1>2, ModRange, Sizes DEF ReadHeader, TypeOK
  <1> QED
    BY <1>1, <1>3 DEF ReadHeader, Return, TypeOK, ReturnCodes

\* The length of one element of the response is set.
LEMMA ElementSet ==
  ASSUME TypeOK, NEW i \in 1..Len(rsp.elements), NEW n \in 0..(Word - 1)
  PROVE  LET f == [rsp EXCEPT !.elements[i].length = n]
         IN /\ f \in AnyFrame
            /\ Len(f.elements) = Len(rsp.elements)
            /\ \A j \in 1..Len(rsp.elements) : /\ f.elements[j].name = rsp.elements[j].name
                                               /\ j # i => f.elements[j] = rsp.elements[j]
            /\ f.elements[i].length = n
  <1>1. rsp \in FramesOf(AllNames)
    BY DEF TypeOK, AnyFrame
  <1> DEFINE f == [rsp EXCEPT !.elements[i].length = n]
  <1>2. f = [rsp EXCEPT !.elements[i].length = n]
    OBVIOUS
  <1> HIDE DEF f
  <1>3. /\ f \in FramesOf(AllNames)
        /\ f.length = rsp.length /\ Len(f.elements) = Len(rsp.elements)
        /\ \A j \in 1..Len(rsp.elements) : /\ f.elements[j].name = rsp.elements[j].name
                                           /\ j # i => f.elements[j] = rsp.elements[j]
        /\ f.elements[i].length = n
    BY <1>1, <1>2, LengthSet
  <1> QED
    BY <1>3 DEF f, AnyFrame

LEMMA ElementFacts ==
  ASSUME TypeOK, NEW i \in 1..Len(rsp.elements)
  PROVE  LET e == rsp.elements[i]
             n == ElementLength(e)
         IN /\ n \in 0..received_length /\ n <= e.length
            /\ [rsp EXCEPT !.elements[i].length = n] \in AnyFrame
  <1> DEFINE e == rsp.elements[i]
  <1> DEFINE n == ElementLength(e)
  <1>1. rsp.elements \in Seq(Elements) /\ rsp.length \in 0..(Word - 1)
    BY DEF TypeOK, AnyFrame, FramesOf, Elements
  <1>2. e \in Elements /\ e.length \in 0..(Word - 1)
    BY <1>1, ElementLengths
  <1>3. n \in 0..received_length /\ n <= e.length /\ n \in 0..(Word - 1)
    BY <1>2, Sizes DEF ElementLength, TypeOK
  <1> HIDE DEF n
  <1>4. [rsp EXCEPT !.elements[i].length = n] \in AnyFrame
    BY <1>3, ElementSet
  <1> QED
    BY <1>3, <1>4 DEF n

LEMMA ReadElementType ==
  ASSUME TypeOK, ReadElement, current \in 1..Len(rsp.elements)
  PROVE  TypeOK'
  <1> DEFINE e == rsp.elements[current]
  <1> DEFINE n == ElementLength(e)
  <1> DEFINE f == [rsp EXCEPT !.elements[current].length = n]
  <1>1. n \in 0..received_length /\ f \in AnyFrame
    BY ElementFacts
  <1>2. pc = "read_elements" /\
        \/ /\ rsp' = f
           /\ content' = IF e.name = "filler" THEN content
                         ELSE [content EXCEPT ![e.name] = Slice(taken, n)]
           /\ taken' = taken + n
           /\ received_length' = received_length - n
           /\ current' = current + 1
           /\ UNCHANGED <<pc, ret>>
        \/ /\ \E bus \in BusErrors \cup {"BUFFER_ERR"} : Return(bus)
           /\ rsp' = Cleaned(f)
           /\ UNCHANGED <<content, taken, received_length, current>>
    BY DEF ReadElement
  <1>3. UNCHANGED <<request, cmd, retry_count, received_header, filler_size, answer, damaged>>
    BY DEF ReadElement
  <1> HIDE DEF f, n, e
  <1>4. rsp' \in AnyFrame
    BY <1>1, <1>2, CleanedType
  <1>5. content' \in [Names -> [from : Nat, n : Nat]]
    <2>1. Slice(taken, n) \in [from : Nat, n : Nat]
      BY <1>1 DEF Slice, TypeOK
    <2>2. content \in [Names -> [from : Nat, n : Nat]]
      BY DEF TypeOK
    <2>3. [content EXCEPT ![e.name] = Slice(taken, n)] \in [Names -> [from : Nat, n : Nat]]
      BY <2>1, <2>2
    <2> QED
      BY <1>2, <2>2, <2>3
  <1>6. taken' \in Nat /\ received_length' \in 0..(Word - 1) /\ current' \in Nat
    BY <1>1, <1>2, Sizes DEF TypeOK
  <1>7. pc' \in {"idle", "read_elements"} /\ ret' \in ReturnCodes
    BY <1>2 DEF Return, ReturnCodes, TypeOK
  <1> QED
    BY <1>3, <1>4, <1>5, <1>6, <1>7 DEF TypeOK

LEMMA ReadCRCType ==
  ASSUME TypeOK, ReadCRC
  PROVE  TypeOK'
  <1>1. rsp' \in AnyFrame
    BY CleanedType DEF ReadCRC, TypeOK
  <1>2. pc' = "idle" /\ ret' \in ReturnCodes
    BY AnswerAssumption DEF ReadCRC, Return, ReturnCodes, TypeOK
  <1>3. UNCHANGED <<request, cmd, retry_count, received_header, received_length,
                    filler_size, current, device>>
    BY DEF ReadCRC
  <1> QED
    BY <1>1, <1>2, <1>3 DEF TypeOK, device

LEMMA TypeStep ==
  ASSUME TypeOK, FramesInv, FillInv, [Next]_vars
  PROVE  TypeOK'
  <1>1. CASE UNCHANGED vars
    BY <1>1 DEF vars, host, device, TypeOK
  <1>2. CASE ReadElement
    <2>1. current \in 1..Len(rsp.elements)
      BY <1>2 DEF ReadElement, FillInv, TypeOK, AnyFrame, FramesOf, Elements
    <2> QED
      BY <1>2, <2>1, ReadElementType
  <1> QED
    BY <1>1, <1>2, CallType, TransmitType, PollLengthType, ReadLengthFailsType, ReadLengthType,
       PollFrameType, ReadHeaderType, ReadCRCType
    DEF Next, Step

-----------------------------------------------------------------------------
(* The frames                                                              *)

\* The first n elements are elements of the caller.
OfCaller(elements, n) ==
  /\ n \in 1..Len(request.rsp)
  /\ \A i \in 1..n : /\ elements[i].name = request.rsp[i].name
                     /\ elements[i].length <= request.rsp[i].length

LEMMA PopIs ==
  ASSUME NEW f \in AnyFrame, Len(f.elements) > 1
  PROVE  /\ Pop(f) \in AnyFrame
         /\ Len(Pop(f).elements) = Len(f.elements) - 1
         /\ \A i \in 1..(Len(f.elements) - 1) : Pop(f).elements[i] = f.elements[i]
  BY PopTyped, Sizes DEF AnyFrame

LEMMA PushIs ==
  ASSUME NEW f \in AnyFrame, NEW e \in Elements
  PROVE  /\ Push(f, e) \in AnyFrame
         /\ Len(Push(f, e).elements) = Len(f.elements) + 1
         /\ \A i \in 1..Len(f.elements) : Push(f, e).elements[i] = f.elements[i]
         /\ Push(f, e).elements[Len(f.elements) + 1] = e
  BY PushTyped, Sizes DEF Elements, AnyFrame

\* While the elements are read, the CRC follows them.
LEMMA SecondReadLength ==
  ASSUME TypeOK, FramesInv, pc = "read_elements"
  PROVE  /\ Kept \in 1..Len(request.rsp) /\ Len(request.rsp) \in Nat \ {0}
         /\ Len(rsp.elements) = Kept + 1 + Fillers /\ Fillers \in 0..1
  <1>1. Len(rsp.elements) \in Nat /\ Len(request.rsp) \in Nat \ {0}
    BY RequestFacts DEF TypeOK, AnyFrame, FramesOf, Elements
  <1>2. CRCs = 1 /\ Fillers \in 0..1 /\ Kept \in 1..Len(request.rsp)
    BY DEF CRCs, FramesInv, Fillers
  <1> QED
    BY <1>1, <1>2 DEF Kept

\* The frame given back holds what the caller's elements were at the end.
LEMMA CleanedIs ==
  ASSUME TypeOK, FramesInv, pc = "read_elements",
         NEW f \in AnyFrame, Len(f.elements) = Len(rsp.elements)
  PROVE  /\ Len(Cleaned(f).elements) = Kept
         /\ \A i \in 1..Kept : Cleaned(f).elements[i] = f.elements[i]
  <1>1. Len(rsp.elements) = Kept + 1 + Fillers /\ Kept \in Nat \ {0}
    BY SecondReadLength
  <1>2. /\ Pop(f) \in AnyFrame /\ Len(Pop(f).elements) = Kept + Fillers
        /\ \A i \in 1..(Kept + Fillers) : Pop(f).elements[i] = f.elements[i]
    BY <1>1, PopIs DEF Fillers
  <1>3. CASE filler_size > 0
    <2>1. Fillers = 1
      BY <1>3 DEF Fillers, SecondRead
    <2>2. /\ Len(Pop(Pop(f)).elements) = Kept
          /\ \A i \in 1..Kept : Pop(Pop(f)).elements[i] = Pop(f).elements[i]
      BY <1>1, <1>2, <2>1, PopIs
    <2> QED
      BY <1>1, <1>2, <1>3, <2>1, <2>2 DEF Cleaned, WithoutFiller
  <1>4. CASE ~(filler_size > 0)
    <2>1. Fillers = 0
      BY <1>4 DEF Fillers
    <2> QED
      BY <1>1, <1>2, <1>4, <2>1 DEF Cleaned, WithoutFiller
  <1> QED
    BY <1>3, <1>4

LEMMA WithoutFillerIs ==
  ASSUME TypeOK, FramesInv, pc \in {"poll_frame", "read_header"}
  PROVE  /\ Len(WithoutFiller(rsp).elements) = Kept
         /\ \A i \in 1..Kept : WithoutFiller(rsp).elements[i] = rsp.elements[i]
  <1>1. Len(rsp.elements) = Kept + Fillers /\ Kept \in Nat \ {0}
    <2>1. Len(rsp.elements) \in Nat /\ Len(request.rsp) \in Nat
      BY RequestFacts DEF TypeOK, AnyFrame, FramesOf, Elements
    <2>2. CRCs = 0 /\ Fillers \in 0..1 /\ Kept \in 1..Len(request.rsp)
      BY DEF CRCs, FramesInv, Fillers
    <2> QED
      BY <2>1, <2>2 DEF Kept
  <1>2. CASE filler_size > 0
    <2>1. Fillers = 1
      BY <1>2 DEF Fillers, SecondRead
    <2> QED
      BY <1>1, <1>2, <2>1, PopIs DEF WithoutFiller, TypeOK
  <1>3. CASE ~(filler_size > 0)
    BY <1>1, <1>3 DEF Fillers, WithoutFiller
  <1> QED
    BY <1>2, <1>3

\* On the way back to the caller a frame needs its elements only.
LEMMA IdleFrames ==
  ASSUME pc' = "idle", cmd' = Frame(request'.cmd), request' = request,
         OfCaller(rsp'.elements, Len(rsp'.elements))
  PROVE  FramesInv'
  <1>1. Kept' = Len(rsp'.elements) - (0 + 0) /\ Fillers' = 0
    BY DEF Kept, CRCs, Fillers, SecondRead
  <1>2. Len(rsp'.elements) \in 1..Len(request.rsp)
    BY DEF OfCaller
  <1>3. Kept' = Len(rsp'.elements)
    BY <1>1, <1>2
  <1> QED
    BY <1>1, <1>3 DEF FramesInv, OfCaller, SecondRead

LEMMA CallFrames ==
  ASSUME TypeOK, NEW r \in Requests, Call(r)
  PROVE  FramesInv'
  <1>1. /\ request' = r /\ rsp' = Frame(r.rsp) /\ filler_size' = 0
        /\ \/ cmd' = Frame(r.cmd) /\ pc' = "idle"
           \/ cmd' = Push(Frame(r.cmd), CRC) /\ pc' = "transmit"
    BY DEF Call, Return
  <1>2. rsp'.elements = r.rsp /\ Len(r.rsp) \in Nat \ {0}
    BY <1>1, RequestFacts DEF Frame
  <1>3. CRCs' = 0 /\ Fillers' = 0
    BY <1>1 DEF CRCs, Fillers
  <1>4. Kept' = Len(r.rsp)
    BY <1>2, <1>3 DEF Kept
  <1>5. \A i \in 1..Len(r.rsp) : r.rsp[i].length <= r.rsp[i].length
    BY RequestFacts
  <1> QED
    BY <1>1, <1>2, <1>3, <1>4, <1>5 DEF FramesInv, SecondRead

LEMMA TransmitFrames ==
  ASSUME TypeOK, FramesInv, TransmitAttempt
  PROVE  FramesInv'
  <1>1. /\ pc = "transmit" /\ UNCHANGED <<request, rsp, filler_size>>
        /\ \/ pc' = "transmit" /\ cmd' = cmd
           \/ pc' \in {"idle", "poll_length"} /\ cmd' = Pop(cmd)
    BY DEF TransmitAttempt, AfterSend, Return, CmdAfterTransmit
  <1>2. Pop(Push(Frame(request.cmd), CRC)) = Frame(request.cmd)
    BY RequestFacts, PopPush, CRCType, ElementLengths, Sizes DEF TypeOK
  <1>3. cmd = Push(Frame(request.cmd), CRC) /\ rsp = Frame(request.rsp)
    BY <1>1 DEF FramesInv
  <1>4. CRCs' = CRCs /\ Fillers' = Fillers /\ Kept' = Kept /\ Fillers = 0
    BY <1>1 DEF Kept, CRCs, Fillers, SecondRead
  <1> QED
    BY <1>1, <1>2, <1>3, <1>4 DEF FramesInv, SecondRead

LEMMA PollLengthFrames ==
  ASSUME TypeOK, FramesInv, PollLength
  PROVE  FramesInv'
  <1>1. /\ pc = "poll_length" /\ pc' \in {"poll_length", "read_length", "idle"}
        /\ UNCHANGED <<request, cmd, rsp, filler_size>>
    BY DEF PollLength, Return
  <1>2. CRCs' = CRCs /\ Fillers' = Fillers /\ Kept' = Kept /\ Fillers = 0
    BY <1>1 DEF Kept, CRCs, Fillers, SecondRead
  <1> QED
    BY <1>1, <1>2 DEF FramesInv, SecondRead

LEMMA ReadLengthFailsFrames ==
  ASSUME TypeOK, FramesInv, ReadLengthFails
  PROVE  FramesInv'
  <1>1. pc = "read_length" /\ pc' = "idle" /\ UNCHANGED <<request, cmd, rsp, filler_size>>
    BY DEF ReadLengthFails, Return, host
  <1>2. CRCs' = CRCs /\ Fillers' = Fillers /\ Kept' = Kept /\ Fillers = 0
    BY <1>1 DEF Kept, CRCs, Fillers, SecondRead
  <1> QED
    BY <1>1, <1>2 DEF FramesInv, SecondRead

\* The frame of an answer whose length is known: all elements of the caller, or
\* the first; for an error the first.
LEMMA StatusFrameIs ==
  ASSUME TypeOK, FramesInv, pc = "read_length", NEW header \in Statuses
  PROVE  LET frame == FrameForStatus(header)
             n == Len(frame.elements)
         IN /\ frame \in AnyFrame
            /\ n \in 1..Len(request.rsp)
            /\ \A i \in 1..n : frame.elements[i] = request.rsp[i]
            /\ header = "OK" => n = Len(request.rsp)
  <1>1. rsp = Frame(request.rsp) /\ rsp.elements = request.rsp /\ request \in Requests
    BY DEF FramesInv, TypeOK, Frame
  <1>2. Len(request.rsp) \in Nat \ {0} /\ request.rsp \in Seq(Elements)
    BY <1>1, RequestFacts
  <1>3. CASE header = "OK"
    BY <1>1, <1>2, <1>3, StatusFrameType DEF FrameForStatus
  <1>4. CASE header # "OK"
    <2>1. FrameForStatus(header).elements = <<Head(request.rsp)>>
      BY <1>1, <1>4 DEF FrameForStatus, HeaderOnly
    <2>2. Len(<<Head(request.rsp)>>) = 1 /\ <<Head(request.rsp)>>[1] = request.rsp[1]
      BY <1>2
    <2> QED
      BY <1>2, <1>4, <2>1, <2>2, StatusFrameType
  <1> QED
    BY <1>3, <1>4

LEMMA OfCallerSame ==
  ASSUME request \in Requests, NEW elements, NEW n \in 1..Len(request.rsp),
         \A i \in 1..n : elements[i] = request.rsp[i]
  PROVE  OfCaller(elements, n)
  <1>1. \A i \in 1..n : request.rsp[i].length <= request.rsp[i].length
    BY RequestFacts
  <1> QED
    BY <1>1 DEF OfCaller

\* What a first read leads to.
LEMMA ReadLengthIs ==
  ASSUME TypeOK, FramesInv, ReadLength
  PROVE  /\ pc = "read_length" /\ UNCHANGED device
         /\ \/ pc' = "idle" /\ UNCHANGED host /\ ret' = "FRAME_SIZE_ERROR"
            \/ \E header \in Statuses :
                  /\ pc' = "idle" /\ ret' \in {header, "FRAME_CRC_ERROR"}
                  /\ rsp' = FrameForStatus(header) /\ received_header' = header
                  /\ received_length' = 1
                  /\ ret' \in Statuses => header = answer.status /\ TrueLength = 1
                  /\ UNCHANGED <<request, cmd, current, filler_size, retry_count>>
            \/ \E header \in Statuses, length \in 0..MaxFrame :
                  /\ pc' = "poll_frame" /\ received_header' = header
                  /\ received_length' = length
                  /\ rsp' = Adjusted(FrameForStatus(header), length)
                  /\ filler_size' = FillerFor(FrameForStatus(header), length)
                  /\ UNCHANGED <<request, cmd, current, ret>>
  <1>1. PICK header \in Statuses, field \in {answer.payload + 2} \cup NoisyLengths :
           LET length == LengthOf(field)
               frame == FrameForStatus(header)
           IN \/ length > MaxFrame /\ Return("FRAME_SIZE_ERROR") /\ UNCHANGED host
              \/ /\ length <= MaxFrame
                 /\ received_header' = header
                 /\ received_length' = length
                 /\ \/ /\ length = 1
                       /\ rsp' = frame
                       /\ \/ FirstReadVerified(header, length) /\ Return(header)
                          \/ Return("FRAME_CRC_ERROR")
                       /\ UNCHANGED <<filler_size, retry_count>>
                    \/ /\ length # 1
                       /\ filler_size' = FillerFor(frame, length)
                       /\ rsp' = Adjusted(frame, length)
                       /\ retry_count' = MaxPollingRetry
                       /\ pc' = "poll_frame"
                       /\ UNCHANGED ret
                 /\ UNCHANGED <<request, cmd, current>>
    BY DEF ReadLength
  <1>2. LengthOf(field) \in 0..(Word - 1)
    BY FieldFacts
  <1>3. LengthOf(field) <= MaxFrame => LengthOf(field) \in 0..MaxFrame
    BY <1>2, Sizes
  <1>4. pc = "read_length" /\ UNCHANGED device
    BY DEF ReadLength
  <1>5. "FRAME_CRC_ERROR" \notin Statuses
    BY DEF Statuses
  <1>6. \/ pc' = "idle" /\ UNCHANGED host /\ ret' = "FRAME_SIZE_ERROR"
        \/ /\ pc' = "idle" /\ ret' \in {header, "FRAME_CRC_ERROR"}
           /\ rsp' = FrameForStatus(header) /\ received_header' = header
           /\ received_length' = 1
           /\ ret' \in Statuses => header = answer.status /\ TrueLength = 1
           /\ UNCHANGED <<request, cmd, current, filler_size, retry_count>>
        \/ /\ LengthOf(field) \in 0..MaxFrame
           /\ pc' = "poll_frame" /\ received_header' = header
           /\ received_length' = LengthOf(field)
           /\ rsp' = Adjusted(FrameForStatus(header), LengthOf(field))
           /\ filler_size' = FillerFor(FrameForStatus(header), LengthOf(field))
           /\ UNCHANGED <<request, cmd, current, ret>>
    BY <1>1, <1>3, <1>5 DEF Return, FirstReadVerified
  <1> QED
    BY <1>4, <1>6

\* A frame that is given the length of its answer keeps its elements, and gets a
\* filler exactly if filler_size says so.
LEMMA AdjustedIs ==
  ASSUME NEW f \in AnyFrame, NEW length \in 0..MaxFrame
  PROVE  /\ FillerFor(f, length) \in 0..MaxFrame
         /\ Len(Adjusted(f, length).elements)
              = Len(f.elements) + (IF FillerFor(f, length) > 0 THEN 1 ELSE 0)
         /\ \A i \in 1..Len(f.elements) : Adjusted(f, length).elements[i] = f.elements[i]
         /\ FillerFor(f, length) > 0 =>
               Adjusted(f, length).elements[Len(f.elements) + 1].name = "filler"
  <1>1. f.length \in 0..(Word - 1) /\ f.elements \in Seq(Elements)
    BY DEF AnyFrame, FramesOf, Elements
  <1>2. CASE length > f.length
    <2>1. length - f.length \in 1..MaxFrame
      BY <1>1, <1>2, Sizes
    <2>2. Filler(length - f.length) \in Elements
      BY <2>1, FillerType, Sizes
    <2>3. Filler(length - f.length).name = "filler"
      BY DEF Filler, Element
    <2>4. /\ FillerFor(f, length) = length - f.length
          /\ Adjusted(f, length) = Push(f, Filler(length - f.length))
      BY <1>2 DEF FillerFor, Adjusted
    <2>5. /\ Len(Adjusted(f, length).elements) = Len(f.elements) + 1
          /\ \A i \in 1..Len(f.elements) : Adjusted(f, length).elements[i] = f.elements[i]
          /\ Adjusted(f, length).elements[Len(f.elements) + 1].name = "filler"
      BY <2>2, <2>3, <2>4, PushIs
    <2>6. FillerFor(f, length) \in 0..MaxFrame /\ FillerFor(f, length) > 0
      BY <2>1, <2>4
    <2> QED
      BY <2>5, <2>6
  <1>3. CASE ~(length > f.length)
    BY <1>1, <1>3, Sizes DEF FillerFor, Adjusted, AnyFrame, FramesOf, Elements
  <1> QED
    BY <1>2, <1>3

\* A second read begins with the elements as the caller gave them.
LEMMA ReadLengthPoll ==
  ASSUME TypeOK, FramesInv, ReadLength, pc' = "poll_frame"
  PROVE  FramesInv' /\ \A i \in 1..Kept' : rsp'.elements[i] = request.rsp[i]
  <1>1. pc = "read_length" /\ request \in Requests
    BY ReadLengthIs DEF TypeOK
  <1>2. cmd = Frame(request.cmd)
    BY <1>1 DEF FramesInv
  <1>3. PICK header \in Statuses, length \in 0..MaxFrame :
           /\ received_header' = header
           /\ rsp' = Adjusted(FrameForStatus(header), length)
           /\ filler_size' = FillerFor(FrameForStatus(header), length)
           /\ UNCHANGED <<request, cmd>>
    BY ReadLengthIs
  <1> DEFINE frame == FrameForStatus(header)
  <1>4. /\ frame \in AnyFrame
        /\ Len(frame.elements) \in 1..Len(request.rsp)
        /\ \A i \in 1..Len(frame.elements) : frame.elements[i] = request.rsp[i]
        /\ header = "OK" => Len(frame.elements) = Len(request.rsp)
    BY <1>1, StatusFrameIs
  <1>5. Len(request.rsp) \in Nat \ {0}
    BY <1>1, RequestFacts
  <1>6. rsp' = Adjusted(frame, length) /\ filler_size' = FillerFor(frame, length)
    BY <1>3
  <1> HIDE DEF frame
  <1>7. CRCs' = 0 /\ Fillers' = IF FillerFor(frame, length) > 0 THEN 1 ELSE 0
    BY <1>3, <1>6 DEF CRCs, Fillers, SecondRead
  <1>8. Len(rsp'.elements) = Len(frame.elements) + Fillers'
    BY <1>4, <1>6, <1>7, AdjustedIs
  <1>9. Kept' = Len(frame.elements)
    BY <1>4, <1>5, <1>7, <1>8 DEF Kept
  <1>10. OfCaller(frame.elements, Len(frame.elements))
    BY <1>1, <1>4, OfCallerSame
  <1>11. \A i \in 1..Len(frame.elements) : rsp'.elements[i] = frame.elements[i]
    BY <1>4, <1>6, AdjustedIs
  <1>12. Fillers' = 1 => rsp'.elements[Len(frame.elements) + 1].name = "filler"
    <2>1. Fillers' = 1 => FillerFor(frame, length) > 0
      BY <1>7
    <2>2. FillerFor(frame, length) > 0 =>
             Adjusted(frame, length).elements[Len(frame.elements) + 1].name = "filler"
      BY <1>4, AdjustedIs
    <2> QED
      BY <1>6, <2>1, <2>2
  <1>13. FramesInv'
    BY <1>2, <1>3, <1>4, <1>9, <1>10, <1>11, <1>12 DEF FramesInv, OfCaller
  <1>14. \A i \in 1..Kept' : rsp'.elements[i] = request.rsp[i]
    BY <1>4, <1>9, <1>11
  <1> QED
    BY <1>13, <1>14

LEMMA ReadLengthFrames ==
  ASSUME TypeOK, FramesInv, ReadLength
  PROVE  FramesInv'
  <1>1. pc = "read_length" /\ request \in Requests
    BY ReadLengthIs DEF TypeOK
  <1>2. cmd = Frame(request.cmd)
    BY <1>1 DEF FramesInv
  <1>3. CASE pc' = "idle" /\ UNCHANGED host
    <2>1. OfCaller(rsp.elements, Len(rsp.elements))
      <3>1. rsp.elements = request.rsp /\ Len(request.rsp) \in Nat \ {0}
        BY <1>1, RequestFacts DEF FramesInv, Frame
      <3> QED
        BY <1>1, <3>1, OfCallerSame
    <2> QED
      BY <1>2, <1>3, <2>1, IdleFrames DEF host
  <1>4. ASSUME NEW header \in Statuses,
               pc' = "idle", rsp' = FrameForStatus(header), UNCHANGED <<request, cmd>>
        PROVE  FramesInv'
    <2>1. OfCaller(rsp'.elements, Len(rsp'.elements))
      BY <1>1, <1>4, StatusFrameIs, OfCallerSame
    <2> QED
      BY <1>2, <1>4, <2>1, IdleFrames
  <1> QED
    BY <1>3, <1>4, ReadLengthIs, ReadLengthPoll

LEMMA PollFrameFrames ==
  ASSUME TypeOK, FramesInv, PollFrame
  PROVE  FramesInv'
  <1>1. /\ pc = "poll_frame" /\ UNCHANGED <<request, cmd, filler_size, received_header>>
        /\ \/ pc' \in {"poll_frame", "read_header"} /\ rsp' = rsp
           \/ pc' = "idle" /\ rsp' = WithoutFiller(rsp)
    BY DEF PollFrame, Return
  <1>2. CASE pc' \in {"poll_frame", "read_header"} /\ rsp' = rsp
    <2>1. CRCs' = CRCs /\ Fillers' = Fillers /\ Kept' = Kept
      BY <1>1, <1>2 DEF Kept, CRCs, Fillers, SecondRead
    <2> QED
      BY <1>1, <1>2, <2>1 DEF FramesInv, SecondRead
  <1>3. CASE pc' = "idle" /\ rsp' = WithoutFiller(rsp)
    <2>1. OfCaller(rsp'.elements, Len(rsp'.elements))
      BY <1>1, <1>3, WithoutFillerIs DEF OfCaller, FramesInv
    <2>2. cmd' = Frame(request.cmd)
      BY <1>1 DEF FramesInv
    <2> QED
      BY <1>1, <1>3, <2>1, <2>2, IdleFrames
  <1> QED
    BY <1>1, <1>2, <1>3

LEMMA ReadHeaderFrames ==
  ASSUME TypeOK, FramesInv, ReadHeader
  PROVE  FramesInv'
  <1>1. /\ pc = "read_header" /\ UNCHANGED <<request, cmd, filler_size, received_header>>
        /\ \/ pc' = "read_elements" /\ rsp' = Push(rsp, CRC)
           \/ pc' = "idle" /\ rsp' = WithoutFiller(rsp)
    BY DEF ReadHeader, Return
  <1>2. CASE pc' = "read_elements" /\ rsp' = Push(rsp, CRC)
    <2>1. /\ Len(rsp'.elements) = Len(rsp.elements) + 1
          /\ \A i \in 1..Len(rsp.elements) : rsp'.elements[i] = rsp.elements[i]
      BY <1>2, PushIs, CRCType DEF TypeOK
    <2>2. CRCs = 0 /\ CRCs' = 1 /\ Fillers' = Fillers /\ Fillers \in 0..1
      BY <1>1, <1>2 DEF CRCs, Fillers, SecondRead
    <2>3. Len(rsp.elements) \in Nat /\ Kept \in Nat \ {0} /\ Len(request.rsp) \in Nat
      BY RequestFacts DEF TypeOK, AnyFrame, FramesOf, Elements, FramesInv
    <2>4. Kept' = Kept /\ Len(rsp.elements) = Kept + Fillers
      BY <2>1, <2>2, <2>3 DEF Kept
    <2>5. \A i \in 1..Kept : rsp'.elements[i] = rsp.elements[i]
      BY <2>1, <2>2, <2>3, <2>4
    <2>6. Fillers = 1 => rsp'.elements[Kept + 1] = rsp.elements[Kept + 1]
      <3>1. Fillers = 1 => Kept + 1 \in 1..Len(rsp.elements)
        BY <2>3, <2>4
      <3> QED
        BY <2>1, <3>1
    <2> QED
      BY <1>1, <1>2, <2>2, <2>4, <2>5, <2>6 DEF FramesInv, SecondRead
  <1>3. CASE pc' = "idle" /\ rsp' = WithoutFiller(rsp)
    <2>1. OfCaller(rsp'.elements, Len(rsp'.elements))
      BY <1>1, <1>3, WithoutFillerIs DEF OfCaller, FramesInv
    <2>2. cmd' = Frame(request.cmd)
      BY <1>1 DEF FramesInv
    <2> QED
      BY <1>1, <1>3, <2>1, <2>2, IdleFrames
  <1> QED
    BY <1>1, <1>2, <1>3

LEMMA ReadElementFrames ==
  ASSUME TypeOK, FramesInv, FillInv, ReadElement
  PROVE  FramesInv'
  <1> DEFINE e == rsp.elements[current]
  <1> DEFINE n == ElementLength(e)
  <1> DEFINE f == [rsp EXCEPT !.elements[current].length = n]
  <1>1. /\ pc = "read_elements" /\ UNCHANGED <<request, cmd, filler_size, received_header>>
        /\ \/ rsp' = f /\ pc' = "read_elements"
           \/ rsp' = Cleaned(f) /\ pc' = "idle"
    BY DEF ReadElement, Return
  <1>2. current \in 1..Len(rsp.elements)
    BY <1>1 DEF FillInv, TypeOK, AnyFrame, FramesOf, Elements
  <1>3. f \in AnyFrame /\ n <= e.length
    BY <1>2, ElementFacts
  <1>4. /\ Len(f.elements) = Len(rsp.elements)
        /\ \A i \in 1..Len(rsp.elements) :
              /\ f.elements[i].name = rsp.elements[i].name
              /\ i # current => f.elements[i] = rsp.elements[i]
        /\ f.elements[current].length = n
    BY <1>2, ElementSet
  <1> HIDE DEF f, n
  <1>5. /\ Kept \in 1..Len(request.rsp) /\ Len(request.rsp) \in Nat \ {0}
        /\ Len(rsp.elements) = Kept + 1 + Fillers /\ Fillers \in 0..1
    BY <1>1, SecondReadLength
  <1>6. ASSUME NEW i \in 1..Kept
        PROVE  /\ f.elements[i].name = request.rsp[i].name
               /\ f.elements[i].length <= request.rsp[i].length
    <2>1. i \in 1..Len(rsp.elements)
      BY <1>5
    <2>2. rsp.elements[i].name = request.rsp[i].name
          /\ rsp.elements[i].length <= request.rsp[i].length
      BY DEF FramesInv
    <2>3. CASE i = current
      <3>1. n <= rsp.elements[i].length
        BY <1>3, <2>3
      <3>2. n \in Nat /\ rsp.elements[i].length \in Nat /\ request.rsp[i].length \in Nat
        <4>1. rsp.elements[i] \in Elements /\ request.rsp[i].length \in Nat
          BY <2>1, <1>5, RequestFacts, Sizes DEF TypeOK, AnyFrame, FramesOf, Elements
        <4>2. f.elements[i] \in Elements
          BY <1>3, <1>4, <2>1 DEF AnyFrame, FramesOf, Elements
        <4> QED
          BY <1>4, <2>3, <4>1, <4>2, ElementLengths
      <3> QED
        BY <1>4, <2>1, <2>2, <2>3, <3>1, <3>2
    <2>4. CASE i # current
      BY <1>4, <2>1, <2>2, <2>4
    <2> QED
      BY <2>3, <2>4
  <1>7. CASE rsp' = f /\ pc' = "read_elements"
    <2>1. CRCs' = CRCs /\ Fillers' = Fillers /\ Kept' = Kept
      BY <1>1, <1>4, <1>7 DEF Kept, CRCs, Fillers, SecondRead
    <2>2. Fillers = 1 => f.elements[Kept + 1].name = "filler"
      <3>1. Fillers = 1 => Kept + 1 \in 1..Len(rsp.elements)
        BY <1>5
      <3> QED
        BY <1>4, <3>1 DEF FramesInv
    <2> QED
      BY <1>1, <1>6, <1>7, <2>1, <2>2 DEF FramesInv, SecondRead
  <1>8. CASE rsp' = Cleaned(f) /\ pc' = "idle"
    <2>1. OfCaller(rsp'.elements, Len(rsp'.elements))
      BY <1>1, <1>3, <1>4, <1>5, <1>6, <1>8, CleanedIs DEF OfCaller
    <2>2. cmd' = Frame(request.cmd)
      BY <1>1 DEF FramesInv
    <2> QED
      BY <1>1, <1>8, <2>1, <2>2, IdleFrames
  <1> QED
    BY <1>1, <1>7, <1>8

LEMMA ReadCRCFrames ==
  ASSUME TypeOK, FramesInv, ReadCRC
  PROVE  FramesInv'
  <1>1. /\ pc = "read_elements" /\ pc' = "idle" /\ rsp' = Cleaned(rsp)
        /\ UNCHANGED <<request, cmd>>
    BY DEF ReadCRC, Return
  <1>2. OfCaller(rsp'.elements, Len(rsp'.elements))
    BY <1>1, CleanedIs DEF OfCaller, FramesInv, TypeOK
  <1>3. cmd' = Frame(request.cmd)
    BY <1>1 DEF FramesInv
  <1> QED
    BY <1>1, <1>2, <1>3, IdleFrames

LEMMA FramesInit == Init => FramesInv
  <1> SUFFICES ASSUME Init PROVE FramesInv
    OBVIOUS
  <1>1. rsp.elements = request.rsp /\ Len(request.rsp) \in Nat \ {0}
    BY RequestFacts DEF Init, Frame
  <1>2. CRCs = 0 /\ Fillers = 0
    BY DEF Init, CRCs, Fillers
  <1>3. Kept = Len(request.rsp)
    BY <1>1, <1>2 DEF Kept
  <1>4. \A i \in 1..Len(request.rsp) : request.rsp[i].length <= request.rsp[i].length
    BY RequestFacts DEF Init
  <1> QED
    BY <1>1, <1>2, <1>3, <1>4 DEF Init, FramesInv, SecondRead

LEMMA FramesStep ==
  ASSUME TypeOK, FramesInv, FillInv, [Next]_vars
  PROVE  FramesInv'
  <1>1. CASE UNCHANGED vars
    <2>1. CRCs' = CRCs /\ Fillers' = Fillers /\ Kept' = Kept
      BY <1>1 DEF vars, host, Kept, CRCs, Fillers
    <2> QED
      BY <1>1, <2>1 DEF vars, host, FramesInv
  <1> QED
    BY <1>1, CallFrames, TransmitFrames, PollLengthFrames, ReadLengthFailsFrames,
       ReadLengthFrames, PollFrameFrames, ReadHeaderFrames, ReadElementFrames, ReadCRCFrames
    DEF Next, Step

-----------------------------------------------------------------------------
(* What the elements receive                                               *)

LEMMA BeforeFacts ==
  ASSUME request \in Requests
  PROVE  /\ Before(2) = 0
         /\ \A i \in 2..Len(request.rsp) :
               /\ Before(i) \in Nat /\ request.rsp[i].length \in Nat
               /\ Before(i + 1) = Before(i) + request.rsp[i].length
  <1> DEFINE s == request.rsp
  <1>1. s \in Seq(Elements) /\ Len(s) \in Nat \ {0}
    BY RequestFacts
  <1>2. Before(2) = 0
    <2>1. SubSeq(s, 2, 2 - 1) = << >>
      BY <1>1
    <2> QED
      BY <2>1, TotalLengthEmpty DEF Before
  <1>3. ASSUME NEW i \in 2..Len(s)
        PROVE  /\ Before(i) \in Nat /\ s[i].length \in Nat
               /\ Before(i + 1) = Before(i) + s[i].length
    <2>1. /\ SubSeq(s, 2, i - 1) \in Seq(Elements)
          /\ TotalLength(SubSeq(s, 2, i)) = TotalLength(SubSeq(s, 2, i - 1)) + s[i].length
      <3>1. 2 \in 1..Len(s)
        BY <1>1
      <3> QED
        BY <1>1, <3>1, ElementLengths, TotalLengthUpTo
    <2>2. TotalLength(SubSeq(s, 2, i - 1)) \in Nat
      BY <2>1, ElementLengths, TotalLengthNat
    <2>3. s[i].length \in Nat
      BY <1>1, RequestFacts, Sizes
    <2>4. (i + 1) - 1 = i
      OBVIOUS
    <2> QED
      BY <2>1, <2>2, <2>3, <2>4 DEF Before
  <1> QED
    BY <1>2, <1>3

LEMMA ReadLengthFill ==
  ASSUME TypeOK, FramesInv, FillInv, ReadLength
  PROVE  FillInv'
  <1>1. pc = "read_length" /\ UNCHANGED device /\ pc' \in {"idle", "poll_frame"}
        /\ UNCHANGED <<request, current>>
    BY ReadLengthIs DEF host
  <1>2. taken' = 0 /\ content' = NoContent
    BY <1>1 DEF FillInv, device
  <1>3. pc' = "poll_frame" => \A i \in 1..Kept' : rsp'.elements[i] = request.rsp[i]
    BY ReadLengthPoll
  <1>4. pc' = "poll_frame" => Kept' \in Nat
    BY ReadLengthPoll, RequestFacts, <1>1 DEF FramesInv, TypeOK
  <1> QED
    BY <1>1, <1>2, <1>3, <1>4 DEF FillInv, SecondRead

LEMMA PollFrameFill ==
  ASSUME TypeOK, FramesInv, FillInv, PollFrame
  PROVE  FillInv'
  <1>1. /\ pc = "poll_frame" /\ UNCHANGED <<request, filler_size, taken, content>>
        /\ \/ pc' \in {"poll_frame", "read_header"} /\ rsp' = rsp
           \/ pc' = "idle"
    BY DEF PollFrame, Return, device
  <1>2. CASE pc' \in {"poll_frame", "read_header"} /\ rsp' = rsp
    <2>1. Kept' = Kept
      BY <1>1, <1>2 DEF Kept, CRCs, Fillers, SecondRead
    <2> QED
      BY <1>1, <1>2, <2>1 DEF FillInv, SecondRead
  <1>3. CASE pc' = "idle"
    BY <1>3 DEF FillInv, SecondRead
  <1> QED
    BY <1>1, <1>2, <1>3

LEMMA NothingTaken ==
  ASSUME NEW n \in Nat
  PROVE  AtMost(0, n) = 0 /\ 0 + n = n
  BY DEF AtMost

LEMMA ReadHeaderFill ==
  ASSUME TypeOK, FramesInv, FillInv, ReadHeader
  PROVE  FillInv'
  <1>1. /\ pc = "read_header" /\ UNCHANGED <<request, filler_size, taken, content>>
        /\ \/ /\ pc' = "read_elements" /\ rsp' = Push(rsp, CRC) /\ current' = 2
              /\ received_length' = (received_length + Word - 1) % Word
           \/ pc' = "idle"
    BY DEF ReadHeader, Return
  <1>2. CASE pc' = "idle"
    BY <1>2 DEF FillInv, SecondRead
  <1>3. CASE /\ pc' = "read_elements" /\ rsp' = Push(rsp, CRC) /\ current' = 2
             /\ received_length' = (received_length + Word - 1) % Word
    <2>1. /\ Len(rsp'.elements) = Len(rsp.elements) + 1
          /\ \A i \in 1..Len(rsp.elements) : rsp'.elements[i] = rsp.elements[i]
      BY <1>3, PushIs, CRCType DEF TypeOK
    <2>2. CRCs = 0 /\ CRCs' = 1 /\ Fillers' = Fillers /\ Fillers \in 0..1
      BY <1>1, <1>3 DEF CRCs, Fillers, SecondRead
    <2>3. Len(rsp.elements) \in Nat /\ Kept \in Nat \ {0}
      BY RequestFacts DEF TypeOK, AnyFrame, FramesOf, Elements, FramesInv
    <2>4. Kept' = Kept /\ Len(rsp.elements) = Kept + Fillers
      BY <2>1, <2>2, <2>3 DEF Kept
    <2>5. \A i \in 2..Kept : rsp'.elements[i] = request.rsp[i]
      <3>1. \A i \in 2..Kept : i \in 1..Len(rsp.elements)
        BY <2>2, <2>3, <2>4
      <3>2. \A i \in 2..Kept : rsp.elements[i] = request.rsp[i]
        BY <1>1 DEF FillInv, SecondRead
      <3> QED
        BY <2>1, <3>1, <3>2
    <2>6. taken' = 0 /\ received_length' \in Nat /\ Before(2)' = 0
      <3>1. received_length + Word - 1 \in Nat
        BY Sizes DEF TypeOK
      <3>2. received_length' \in Nat
        BY <1>3, <3>1, ModRange, Sizes
      <3>3. Before(2)' = Before(2)
        BY <1>1 DEF Before
      <3> QED
        BY <1>1, <3>2, <3>3, BeforeFacts DEF FillInv, TypeOK
    <2>7. taken' = AtMost(Before(2)', Announced')
      <3>0. received_length' \in Nat
        BY <2>6
      <3>1. AtMost(0, received_length') = 0
        BY <3>0, NothingTaken
      <3>2. 0 + received_length' = received_length'
        BY <3>0, NothingTaken
      <3>3. Announced' = received_length'
        BY <2>6, <3>2 DEF Announced
      <3> QED
        BY <2>6, <3>1, <3>3
    <2>8. current' = 2 /\ 2 \in 2..Len(rsp'.elements)
      BY <1>3, <2>1, <2>2, <2>3, <2>4
    <2>9. pc' = "read_elements" /\ request' = request
      BY <1>1, <1>3
    <2>10. Before(current)' = Before(2)'
      BY <2>8 DEF Before
    <2> QED
      BY <2>4, <2>5, <2>7, <2>8, <2>9, <2>10 DEF FillInv
  <1> QED
    BY <1>1, <1>2, <1>3

\* One element after another takes its part of what was announced.
LEMMA ReadElementFill ==
  ASSUME TypeOK, FramesInv, FillInv, ReadElement
  PROVE  FillInv'
  <1> DEFINE e == rsp.elements[current]
  <1> DEFINE n == ElementLength(e)
  <1> DEFINE f == [rsp EXCEPT !.elements[current].length = n]
  <1>1. /\ pc = "read_elements" /\ UNCHANGED <<request, filler_size>>
        /\ current < Len(rsp.elements)
        /\ \/ /\ pc' = "read_elements" /\ rsp' = f
              /\ content' = IF e.name = "filler" THEN content
                            ELSE [content EXCEPT ![e.name] = Slice(taken, n)]
              /\ taken' = taken + n
              /\ received_length' = received_length - n
              /\ current' = current + 1
           \/ pc' = "idle"
    BY DEF ReadElement, Return
  <1>2. CASE pc' = "idle"
    BY <1>2 DEF FillInv, SecondRead
  <1>3. CASE /\ pc' = "read_elements" /\ rsp' = f
             /\ content' = IF e.name = "filler" THEN content
                           ELSE [content EXCEPT ![e.name] = Slice(taken, n)]
             /\ taken' = taken + n
             /\ received_length' = received_length - n
             /\ current' = current + 1
    <2>1. current \in 2..Len(rsp.elements) /\ current \in 1..Len(rsp.elements)
      BY <1>1 DEF FillInv, TypeOK, AnyFrame, FramesOf, Elements
    <2>2. n \in 0..received_length /\ n \in Nat
      <3>1. n \in 0..received_length
        BY <2>1, ElementFacts
      <3>2. received_length \in Nat
        BY DEF TypeOK
      <3> HIDE DEF n
      <3> QED
        BY <3>1, <3>2
    <2>3. /\ Len(f.elements) = Len(rsp.elements)
          /\ \A i \in 1..Len(rsp.elements) : i # current => f.elements[i] = rsp.elements[i]
      BY <2>1, ElementSet
    <2>4. n = IF received_length < e.length THEN received_length ELSE e.length
      BY DEF ElementLength
    <2> HIDE DEF f, n
    <2>5. /\ Kept \in 1..Len(request.rsp) /\ Len(request.rsp) \in Nat \ {0}
          /\ Len(rsp.elements) = Kept + 1 + Fillers /\ Fillers \in 0..1
      BY <1>1, SecondReadLength
    <2>6. CRCs' = CRCs /\ Fillers' = Fillers /\ Kept' = Kept
      BY <1>1, <1>3, <2>3 DEF Kept, CRCs, Fillers, SecondRead
    <2>7. Announced' = Announced /\ Announced \in Nat
      BY <1>3, <2>2 DEF Announced, TypeOK
    <2>8. /\ request' = request /\ \A i : Before(i)' = Before(i)
          /\ \A i : Part(i, Announced)' = Part(i, Announced)
      BY <1>1, <2>7 DEF Before, Part
    <2>9. current' \in 2..Len(rsp'.elements)
      BY <1>1, <1>3, <2>1, <2>3, <2>5
    <2>10. taken \in Nat /\ received_length \in Nat
           /\ taken' \in Nat /\ taken' >= taken
           /\ (received_length' > 0 => received_length > 0)
      BY <1>3, <2>2 DEF TypeOK
    <2>11. \A i \in 2..Kept : current' <= i => rsp'.elements[i] = request.rsp[i]
      <3>1. \A i \in 2..Kept : current' <= i =>
                i \in 1..Len(rsp.elements) /\ i # current /\ current <= i
        BY <1>3, <2>1, <2>5
      <3>2. \A i \in 2..Kept : current <= i => rsp.elements[i] = request.rsp[i]
        BY <1>1 DEF FillInv, SecondRead
      <3> QED
        BY <1>3, <2>3, <3>1, <3>2
    \* the elements before
    <2>12. ASSUME NEW i \in 2..Kept, i < current
           PROVE  /\ content[request.rsp[i].name] = Part(i, Announced)
                  /\ received_length' > 0 => Before(i + 1) <= taken'
      <3>1. /\ content[request.rsp[i].name] = Part(i, Announced)
            /\ received_length > 0 => Before(i + 1) <= taken
        BY <1>1, <2>12 DEF FillInv
      <3>2. i \in 2..Len(request.rsp) /\ request \in Requests
        BY <2>5 DEF TypeOK
      <3>3. Before(i) \in Nat /\ request.rsp[i].length \in Nat
            /\ Before(i + 1) = Before(i) + request.rsp[i].length
        BY <3>2, BeforeFacts
      <3>4. Before(i + 1) \in Nat
        BY <3>3
      <3>5. received_length' > 0 => Before(i + 1) <= taken'
        BY <2>10, <3>1, <3>4
      <3> QED
        BY <3>1, <3>5
    <2>13. CASE current <= Kept
      <3> DEFINE own == request.rsp[current]
      <3>1. current \in 2..Kept /\ current \in 2..Len(request.rsp)
        BY <2>1, <2>5, <2>13
      <3>2. e = own
        BY <1>1, <3>1 DEF FillInv, SecondRead
      <3>3. /\ own.name \in Names \ {"crc", "filler"}
            /\ \A i \in 1..Len(request.rsp) : i # current => request.rsp[i].name # own.name
        BY <2>5, <3>1, RequestFacts DEF TypeOK
      <3>4. content' = [content EXCEPT ![own.name] = Slice(taken, n)]
        BY <1>3, <3>2, <3>3
      <3>5. content'[own.name] = Slice(taken, n)
        BY <3>3, <3>4 DEF TypeOK
      <3>6. \A i \in 2..Kept : i < current =>
                content'[request.rsp[i].name] = content[request.rsp[i].name]
        BY <2>5, <3>1, <3>3, <3>4, RequestFacts DEF TypeOK
      <3>7. taken = AtMost(Before(current), Announced)
        BY <1>1, <2>1, <2>5, <2>13 DEF FillInv
      <3>8. Before(current) \in Nat /\ own.length \in Nat
            /\ Before(current + 1) = Before(current) + own.length
        BY <3>1, BeforeFacts DEF TypeOK
      <3>9. received_length = Announced - taken
        BY <2>10 DEF Announced
      <3>10. n = AtMost(Announced - taken, own.length)
        BY <2>4, <3>2, <3>9 DEF AtMost
      <3>11. Part(current, Announced) = Slice(taken, n)
        BY <3>7, <3>10 DEF Part
      <3>12. received_length' > 0 => Before(current + 1) <= taken'
        BY <1>3, <2>7, <2>10, <3>7, <3>8, <3>9, <3>10 DEF AtMost
      <3>13. taken' = AtMost(Before(current + 1), Announced)
        BY <1>3, <2>7, <2>10, <3>7, <3>8, <3>9, <3>10 DEF AtMost
      <3>14. Before(current)' = Before(current + 1)
        BY <1>1, <1>3 DEF Before
      <3>15. ASSUME NEW i \in 2..Kept, i < current + 1
             PROVE  /\ content'[request.rsp[i].name] = Part(i, Announced)
                    /\ received_length' > 0 => Before(i + 1) <= taken'
        <4>1. CASE i = current
          BY <3>5, <3>11, <3>12, <4>1
        <4>2. CASE i < current
          BY <2>12, <3>6, <4>2
        <4> QED
          BY <2>1, <3>15, <4>1, <4>2
      <3> QED
        BY <1>3, <2>6, <2>7, <2>8, <2>9, <2>11, <3>13, <3>14, <3>15 DEF FillInv
    <2>14. CASE current > Kept
      <3>1. Fillers = 1 /\ current = Kept + 1
        BY <1>1, <2>1, <2>5, <2>14
      <3>2. e.name = "filler"
        BY <3>1 DEF FramesInv
      <3>3. content' = content
        BY <1>3, <3>2
      <3>4. ~(current' <= Kept' + 1)
        BY <1>3, <2>5, <2>6, <3>1
      <3>5. \A i \in 2..Kept : i < current
        BY <2>5, <3>1
      <3> QED
        BY <1>3, <2>6, <2>7, <2>8, <2>9, <2>11, <2>12, <3>3, <3>4, <3>5 DEF FillInv
    <2> QED
      BY <2>1, <2>5, <2>13, <2>14
  <1> QED
    BY <1>1, <1>2, <1>3

LEMMA FillInit == Init => FillInv
  BY DEF Init, FillInv, SecondRead

LEMMA FillStep ==
  ASSUME TypeOK, FramesInv, FillInv, [Next]_vars
  PROVE  FillInv'
  <1>1. CASE UNCHANGED vars
    <2>1. Kept' = Kept /\ Announced' = Announced /\ request' = request
          /\ \A i : Before(i)' = Before(i) /\ Part(i, Announced)' = Part(i, Announced)
      BY <1>1 DEF vars, host, device, Kept, CRCs, Fillers, Announced, Before, Part
    <2>2. UNCHANGED <<pc, request, rsp, received_length, current, taken, content>>
      BY <1>1 DEF vars, host, device
    <2> QED
      BY <2>1, <2>2 DEF FillInv
  <1>2. ASSUME NEW r \in Requests, Call(r) PROVE FillInv'
    BY <1>2 DEF Call, Return, FillInv, SecondRead
  <1>3. CASE TransmitAttempt
    BY <1>3 DEF TransmitAttempt, AfterSend, Return, FillInv, SecondRead
  <1>4. CASE PollLength
    BY <1>4 DEF PollLength, Return, device, FillInv, SecondRead
  <1>5. CASE ReadLengthFails
    BY <1>5 DEF ReadLengthFails, Return, FillInv, SecondRead
  <1>6. CASE ReadCRC
    BY <1>6 DEF ReadCRC, Return, FillInv, SecondRead
  <1> QED
    BY <1>1, <1>2, <1>3, <1>4, <1>5, <1>6, ReadLengthFill, PollFrameFill, ReadHeaderFill,
       ReadElementFill
    DEF Next, Step

\* What a transfer has on the caller's frames and in its elements is known
\* (FramesInv, FillInv): together with the type invariant it is inductive.
THEOREM Inductive == Spec => [](TypeOK /\ FramesInv /\ FillInv)
  <1>1. Init => TypeOK /\ FramesInv /\ FillInv
    BY TypeInit, FramesInit, FillInit
  <1>2. TypeOK /\ FramesInv /\ FillInv /\ [Next]_vars => (TypeOK /\ FramesInv /\ FillInv)'
    BY TypeStep, FramesStep, FillStep
  <1> QED
    BY <1>1, <1>2, PTL DEF Spec

\* The transfer's variables keep their types, its lengths their 16 bits (TypeOK).
THEOREM TypeCorrect == Spec => []TypeOK
  BY Inductive, PTL

\* On every return the caller has its frames back, without CRC and filler, for
\* any frames and whatever the bus did (FramesRestored).
THEOREM FramesComeBack == Spec => []FramesRestored
  <1>1. TypeOK /\ FramesInv => FramesRestored
    <2> SUFFICES ASSUME TypeOK, FramesInv, pc = "idle"
                 PROVE  /\ cmd = Frame(request.cmd)
                        /\ Len(rsp.elements) \in 1..Len(request.rsp)
                        /\ \A i \in DOMAIN rsp.elements :
                              /\ rsp.elements[i].name = request.rsp[i].name
                              /\ rsp.elements[i].length <= request.rsp[i].length
      BY DEF FramesRestored
    <2>1. CRCs = 0 /\ Fillers = 0
      BY DEF CRCs, Fillers, SecondRead
    <2>2. Kept = Len(rsp.elements) /\ DOMAIN rsp.elements = 1..Len(rsp.elements)
      BY <2>1 DEF Kept, TypeOK, AnyFrame, FramesOf, Elements
    <2> QED
      BY <2>2 DEF FramesInv
  <1> QED
    BY <1>1, Inductive, PTL

-----------------------------------------------------------------------------
(* What a call returns                                                     *)

\* The codes of the host are not statuses of the secure element.
LEMMA HostCodes ==
  /\ \A bus \in BusErrors \cup {"BUFFER_ERR"} : bus \notin Statuses
  /\ "FRAME_SIZE_ERROR" \notin Statuses
  /\ "FRAME_CRC_ERROR" \notin Statuses
  BY DEF BusErrors, Statuses

\* A status is only returned behind a CRC that covers the header of the
\* answer, whatever the first read delivered (StatusIsAuthentic).
THEOREM StatusAuthentic == Spec => []StatusIsAuthentic
  <1>1. Init => StatusIsAuthentic
    BY DEF Init, StatusIsAuthentic, Statuses
  <1>2. StatusIsAuthentic /\ [Next]_vars => StatusIsAuthentic'
    <2> SUFFICES ASSUME StatusIsAuthentic, [Next]_vars PROVE StatusIsAuthentic'
      OBVIOUS
    <2> USE DEF StatusIsAuthentic, Return
    <2>1. CASE UNCHANGED vars
      BY <2>1 DEF vars, device
    <2>2. ASSUME NEW r \in Requests, Call(r) PROVE StatusIsAuthentic'
      BY <2>2, HostCodes DEF Call
    <2>3. CASE TransmitAttempt
      BY <2>3, HostCodes DEF TransmitAttempt, AfterSend, BusErrors
    <2>4. CASE PollLength
      BY <2>4, HostCodes DEF PollLength
    <2>5. CASE ReadLengthFails
      BY <2>5, HostCodes DEF ReadLengthFails
    <2>6. CASE ReadLength
      <3>1. answer' = answer
        BY <2>6 DEF ReadLength, device
      <3>2. PICK header \in Statuses, field \in {answer.payload + 2} \cup NoisyLengths :
              \/ ret' = "FRAME_SIZE_ERROR"
              \/ FirstReadVerified(header, LengthOf(field)) /\ ret' = header
              \/ ret' = "FRAME_CRC_ERROR"
              \/ pc' = "poll_frame"
        BY <2>6 DEF ReadLength
      <3> QED
        BY <3>1, <3>2, HostCodes DEF FirstReadVerified
    <2>7. CASE PollFrame
      BY <2>7, HostCodes DEF PollFrame
    <2>8. CASE ReadHeader
      BY <2>8, HostCodes DEF ReadHeader
    <2>9. CASE ReadElement
      BY <2>9, HostCodes DEF ReadElement
    <2>10. CASE ReadCRC
      BY <2>10, HostCodes DEF ReadCRC, device
    <2> QED
      BY <2>1, <2>2, <2>3, <2>4, <2>5, <2>6, <2>7, <2>8, <2>9, <2>10
      DEF Next, Step
  <1> QED
    BY <1>1, <1>2, PTL DEF Spec

-----------------------------------------------------------------------------
(* What a successful call delivered                                        *)

\* When the answer has no payload, no element expects any.
LEMMA NothingExpected ==
  ASSUME request \in Requests, answer.payload = 0
  PROVE  \A i \in 2..Len(request.rsp) : Expected(i).n = 0
  <1>1. ASSUME NEW i \in 2..Len(request.rsp) PROVE Expected(i).n = 0
    <2>1. Before(i) \in Nat /\ request.rsp[i].length \in Nat
      BY BeforeFacts
    <2>2. AtMost(Before(i), 0) = 0
      BY <2>1 DEF AtMost
    <2>3. AtMost(0 - 0, request.rsp[i].length) = 0
      BY <2>1 DEF AtMost
    <2>4. Expected(i) = Slice(AtMost(Before(i), 0),
                              AtMost(0 - AtMost(Before(i), 0), request.rsp[i].length))
      BY DEF Expected, Part
    <2> QED
      BY <2>2, <2>3, <2>4 DEF Slice
  <1> QED
    BY <1>1

\* An element that lies within the bytes to give out gets all of its bytes.
LEMMA AtMostWhole ==
  ASSUME NEW b \in Nat, NEW n \in Nat, NEW total \in Nat, b + n <= total
  PROVE  AtMost(b, total) = b /\ AtMost(total - b, n) = n
  <1>1. b <= total /\ n <= total - b
    OBVIOUS
  <1>2. AtMost(b, total) = b
    BY <1>1 DEF AtMost
  <1>3. AtMost(total - b, n) = n
    BY <1>1 DEF AtMost
  <1> QED
    BY <1>2, <1>3

\* Once every element was visited and all of the payload is taken, each has its
\* part of the payload, whatever length was announced.
LEMMA AllTaken ==
  ASSUME TypeOK, FillInv, pc = "read_elements", Kept = Len(request.rsp), Kept < current,
         taken = answer.payload, NEW i \in 2..Len(request.rsp)
  PROVE  content[request.rsp[i].name] = Expected(i)
  <1>1. /\ content[request.rsp[i].name] = Part(i, Announced)
        /\ received_length > 0 => Before(i + 1) <= taken
    BY DEF FillInv, TypeOK
  <1>2. /\ Before(i) \in Nat /\ request.rsp[i].length \in Nat
        /\ Before(i + 1) = Before(i) + request.rsp[i].length
    BY BeforeFacts DEF TypeOK
  <1>3. taken \in Nat /\ received_length \in Nat /\ Announced = taken + received_length
    BY DEF TypeOK, Announced
  <1>4. CASE received_length = 0
    <2>1. Announced = answer.payload
      BY <1>3, <1>4
    <2> QED
      BY <1>1, <2>1 DEF Expected
  <1>5. CASE received_length > 0
    <2>1. Before(i) + request.rsp[i].length <= taken
      BY <1>1, <1>2, <1>5
    <2>2. Announced \in Nat /\ Before(i) + request.rsp[i].length <= Announced
      BY <1>2, <1>3, <2>1
    <2>3. Before(i) \in Nat /\ request.rsp[i].length \in Nat /\ taken \in Nat
      BY <1>2, <1>3
    <2> DEFINE b == Before(i)
               n == request.rsp[i].length
    <2>4. /\ b \in Nat /\ n \in Nat /\ Announced \in Nat /\ taken \in Nat
          /\ b + n <= Announced /\ b + n <= taken
      BY <2>1, <2>2, <2>3
    <2>5. /\ AtMost(b, Announced) = b /\ AtMost(Announced - b, n) = n
          /\ AtMost(b, taken) = b /\ AtMost(taken - b, n) = n
      <3> HIDE DEF b, n
      <3> QED
        BY ONLY <2>4, AtMostWhole
    <2> QED
      BY <1>1, <2>5 DEF Expected, Part
  <1> QED
    BY <1>3, <1>4, <1>5

\* A successful call filled the elements of the caller in order and without
\* gaps, whatever length the first read announced (DeliveredInOrder).
THEOREM InOrder == Spec => []DeliveredInOrder
  <1>1. Init => DeliveredInOrder
    BY DEF Init, DeliveredInOrder
  <1>2. TypeOK /\ FramesInv /\ FillInv /\ DeliveredInOrder /\ [Next]_vars => DeliveredInOrder'
    <2> SUFFICES ASSUME TypeOK, FramesInv, FillInv, DeliveredInOrder, [Next]_vars
                 PROVE  DeliveredInOrder'
      OBVIOUS
    <2> USE DEF DeliveredInOrder, Return
    <2>1. CASE UNCHANGED vars
      BY <2>1 DEF vars, host, device, Delivered, Expected, Part, Before
    <2>2. ASSUME NEW r \in Requests, Call(r) PROVE DeliveredInOrder'
      BY <2>2 DEF Call
    <2>3. CASE TransmitAttempt
      BY <2>3, HostCodes DEF TransmitAttempt, AfterSend, BusErrors
    <2>4. CASE PollLength
      BY <2>4 DEF PollLength, BusErrors
    <2>5. CASE ReadLengthFails
      BY <2>5 DEF ReadLengthFails, BusErrors
    <2>6. CASE ReadLength
      <3> SUFFICES ASSUME pc' = "idle", ret' = "OK" PROVE Delivered'
        OBVIOUS
      <3>1. /\ pc = "read_length" /\ UNCHANGED device /\ request' = request
            /\ TrueLength = 1
        BY <2>6, ReadLengthIs DEF Statuses
      <3>2. answer.payload = 0
        <4>1. answer.payload \in Nat
          BY AnswerAssumption, Sizes DEF TypeOK
        <4> QED
          BY <3>1, <4>1 DEF TrueLength
      <3>3. \A i \in 2..Len(request.rsp) : Expected(i).n = 0
        BY <3>2, NothingExpected DEF TypeOK
      <3>4. content = NoContent
        BY <3>1 DEF FillInv
      <3>5. \A i \in 2..Len(request.rsp) : content[request.rsp[i].name].n = 0
        <4>1. \A i \in 2..Len(request.rsp) : request.rsp[i].name \in Names
          BY RequestFacts DEF TypeOK
        <4> QED
          BY <3>4, <4>1 DEF NoContent, Slice
      <3>6. \A i : Expected(i)' = Expected(i)
        BY <3>1 DEF Expected, Part, Before, device
      <3> QED
        BY <3>1, <3>3, <3>5, <3>6 DEF Delivered, device
    <2>7. CASE PollFrame
      BY <2>7 DEF PollFrame, BusErrors
    <2>8. CASE ReadHeader
      BY <2>8 DEF ReadHeader, BusErrors
    <2>9. CASE ReadElement
      BY <2>9 DEF ReadElement, BusErrors
    <2>10. CASE ReadCRC
      <3> SUFFICES ASSUME ret' = "OK", received_header' = answer'.status PROVE Delivered'
        OBVIOUS
      <3>1. /\ pc = "read_elements" /\ current = Len(rsp.elements)
            /\ UNCHANGED <<request, received_header>> /\ UNCHANGED device
        BY <2>10 DEF ReadCRC
      <3>2. SecondReadVerified /\ answer.status = "OK"
        BY <2>10, HostCodes DEF ReadCRC, BusErrors
      <3>3. Kept = Len(request.rsp)
        BY <3>1, <3>2 DEF FramesInv, SecondRead, device
      <3>4. Kept < current
        BY <3>1, SecondReadLength
      <3>5. \A i \in 2..Len(request.rsp) : content[request.rsp[i].name] = Expected(i)
        BY <3>1, <3>2, <3>3, <3>4, AllTaken DEF SecondReadVerified
      <3>6. \A i : Expected(i)' = Expected(i)
        BY <3>1 DEF Expected, Part, Before, device
      <3> QED
        BY <3>1, <3>5, <3>6 DEF Delivered, device
    <2> QED
      BY <2>1, <2>2, <2>3, <2>4, <2>5, <2>6, <2>7, <2>8, <2>9, <2>10 DEF Next, Step
  <1> QED
    BY <1>1, <1>2, Inductive, PTL DEF Spec
=============================================================================
