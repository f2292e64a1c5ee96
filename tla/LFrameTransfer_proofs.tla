------------------------ MODULE LFrameTransfer_proofs -------------------------
(***************************************************************************)
(* Proofs about the transfer of the STSAFE-L (LFrameTransfer), for any     *)
(* frames, answers, lengths and retries, on both buses.                    *)
(***************************************************************************)
EXTENDS LFrameTransfer, Frames_proofs

\* What is assumed of the constants.
Assumptions == /\ LRetryAssumption /\ LWordAssumption /\ LBusAssumption
               /\ LNoiseAssumption /\ LAnswerAssumption /\ LRequestAssumption

\* No code of the host is STSE_OK.
LEMMA HostCodes ==
  /\ \A bus \in BusErrors \cup {"BUFFER_ERR"} : bus # "OK"
  /\ "FRAME_SIZE_ERROR" # "OK" /\ "FRAME_CRC_ERROR" # "OK"
  BY DEF BusErrors

-----------------------------------------------------------------------------
(* Frames and their types                                                  *)

AnyElement == ElementsOf(AllNames)
AnyFrame == FramesOf(AllNames)

LEMMA Sizes ==
  ASSUME Assumptions
  PROVE  /\ Word \in Nat \ {0} /\ MaxFrame \in Nat /\ MaxFrame + 4 < Word
         /\ MaxPollingRetry \in Nat \ {0} /\ BusTypes \subseteq {"I2C", "ST1WIRE"}
  BY DEF Assumptions, LWordAssumption, LRetryAssumption, LBusAssumption

LEMMA RequestFacts ==
  ASSUME Assumptions, NEW r \in Requests
  PROVE  /\ r.cmd \in Seq(AnyElement) /\ r.rsp \in Seq(AnyElement)
         /\ Len(r.rsp) \in Nat \ {0} /\ r.rsp[1].length = 1
         /\ \A i \in 1..Len(r.rsp) : /\ r.rsp[i].name \in Names \ {"crc", "filler"}
                                     /\ r.rsp[i].length \in 0..(Word - 1)
         /\ \A i, j \in 1..Len(r.rsp) : r.rsp[i].name = r.rsp[j].name => i = j
  <1>1. CallerElements \subseteq AnyElement
    BY DEF CallerElements, AnyElement, ElementsOf, AllNames
  <1>2. /\ r.cmd \in Seq(CallerElements) /\ r.rsp \in Seq(CallerElements) /\ r.rsp # << >>
        /\ r.rsp[1].length = 1
        /\ \A i, j \in DOMAIN r.rsp : r.rsp[i].name = r.rsp[j].name => i = j
    BY DEF Assumptions, LRequestAssumption
  <1>3. r.cmd \in Seq(AnyElement) /\ r.rsp \in Seq(AnyElement) /\ Len(r.rsp) \in Nat \ {0}
    BY <1>1, <1>2
  <1>4. ASSUME NEW i \in 1..Len(r.rsp)
        PROVE  r.rsp[i].name \in Names \ {"crc", "filler"} /\ r.rsp[i].length \in 0..(Word - 1)
    <2>1. r.rsp[i] \in CallerElements
      BY <1>2
    <2>2. r.rsp[i] \in ToSet(r.rsp)
      BY <1>2 DEF ToSet
    <2>3. r.rsp[i].name \in Names
      BY <2>2 DEF Names
    <2> QED
      BY <2>1, <2>3 DEF CallerElements, ElementsOf
  <1> QED
    BY <1>2, <1>3, <1>4

LEMMA AnyRequest ==
  ASSUME Assumptions, NEW r \in Requests \cup {NoRequest}
  PROVE  r.cmd \in Seq(AnyElement) /\ r.rsp \in Seq(AnyElement)
  <1>1. << >> \in Seq(AnyElement)
    OBVIOUS
  <1>2. CASE r = NoRequest
    BY <1>1, <1>2 DEF NoRequest
  <1>3. CASE r \in Requests
    BY <1>3, RequestFacts
  <1> QED
    BY <1>2, <1>3

LEMMA FrameType ==
  ASSUME Assumptions, NEW s \in Seq(AnyElement)
  PROVE  Frame(s) \in AnyFrame /\ Frame(s).elements = s
  <1>1. Frame(s) \in AnyFrame
    BY FrameTyped, Sizes DEF AnyElement, AnyFrame
  <1> QED
    BY <1>1 DEF Frame

LEMMA FrameFacts ==
  ASSUME NEW f \in AnyFrame
  PROVE  /\ f.elements \in Seq(AnyElement) /\ f.length \in 0..(Word - 1)
         /\ Len(f.elements) \in Nat
  BY DEF AnyFrame, FramesOf, AnyElement

LEMMA PushIs ==
  ASSUME Assumptions, NEW f \in AnyFrame, NEW e \in AnyElement
  PROVE  /\ Push(f, e) \in AnyFrame
         /\ Len(Push(f, e).elements) = Len(f.elements) + 1
         /\ \A i \in 1..Len(f.elements) : Push(f, e).elements[i] = f.elements[i]
         /\ Push(f, e).elements[Len(f.elements) + 1] = e
  BY PushTyped, Sizes DEF AnyElement, AnyFrame

LEMMA PopIs ==
  ASSUME Assumptions, NEW f \in AnyFrame
  PROVE  /\ Pop(f) \in AnyFrame
         /\ Len(f.elements) > 1 =>
               /\ Len(Pop(f).elements) = Len(f.elements) - 1
               /\ \A i \in 1..(Len(f.elements) - 1) : Pop(f).elements[i] = f.elements[i]
         /\ ~(Len(f.elements) > 1) => Pop(f).elements = << >>
  BY PopTyped, Sizes DEF AnyFrame

LEMMA CRCType ==
  ASSUME Assumptions
  PROVE  CRC \in AnyElement
  BY Sizes DEF CRC, Element, AnyElement, ElementsOf, AllNames

LEMMA FillerType ==
  ASSUME Assumptions, NEW n \in 0..(Word - 1)
  PROVE  Filler(n) \in AnyElement /\ Filler(n).name = "filler"
  BY DEF Filler, Element, AnyElement, ElementsOf, AllNames

LEMMA AdjustedIs ==
  ASSUME Assumptions, NEW f \in AnyFrame, NEW length \in 0..(Word - 1)
  PROVE  /\ Adjusted(f, length) \in AnyFrame /\ FillerFor(f, length) \in 0..(Word - 1)
         /\ \A i \in 1..Len(f.elements) : Adjusted(f, length).elements[i] = f.elements[i]
         /\ FillerFor(f, length) > 0 =>
               /\ length > f.length
               /\ Len(Adjusted(f, length).elements) = Len(f.elements) + 1
               /\ Adjusted(f, length).elements[Len(f.elements) + 1].name = "filler"
         /\ ~(FillerFor(f, length) > 0) => Len(Adjusted(f, length).elements) = Len(f.elements)
  <1>1. f.length \in 0..(Word - 1) /\ f.elements \in Seq(AnyElement)
    BY FrameFacts
  <1>2. CASE length > f.length
    <2>1. length - f.length \in 0..(Word - 1) /\ length - f.length > 0
      BY <1>1, <1>2, Sizes
    <2>2. Filler(length - f.length) \in AnyElement /\ Filler(length - f.length).name = "filler"
      BY <2>1, FillerType
    <2>3. Adjusted(f, length) = Push(f, Filler(length - f.length))
          /\ FillerFor(f, length) = length - f.length
      BY <1>2 DEF Adjusted, FillerFor
    <2> HIDE DEF Filler
    <2> QED
      BY <1>2, <2>1, <2>2, <2>3, PushIs
  <1>3. CASE ~(length > f.length)
    <2>1. f = [elements |-> f.elements, length |-> f.length]
      BY DEF AnyFrame, FramesOf
    <2>2. Adjusted(f, length) = [elements |-> f.elements, length |-> length]
          /\ FillerFor(f, length) = 0
      BY <1>3, <2>1 DEF Adjusted, FillerFor
    <2>3. Adjusted(f, length) \in AnyFrame
      BY <1>1, <2>2 DEF AnyFrame, FramesOf, AnyElement
    <2> QED
      BY <2>2, <2>3, Sizes
  <1> QED
    BY <1>2, <1>3

\* Popping the CRC, and the filler if there is one, leaves a frame.
LEMMA CleanedType ==
  ASSUME Assumptions, NEW f \in AnyFrame
  PROVE  WithoutFiller(f) \in AnyFrame /\ Cleaned(f) \in AnyFrame
  BY PopIs DEF WithoutFiller, Cleaned

-----------------------------------------------------------------------------
(* The type invariant                                                      *)

LEMMA RetryFacts ==
  ASSUME Assumptions, TypeOK
  PROVE  /\ MaxPollingRetry \in 1..MaxPollingRetry
         /\ \A bus : RetryAfter(bus) => RetriesLeft \in 1..MaxPollingRetry
  BY Sizes DEF TypeOK, RetryAfter, RetriesLeft

LEMMA NothingType ==
  ASSUME Assumptions
  PROVE  /\ NoContent \in [Names -> [from : Nat, n : Nat]]
         /\ 0 \in 0..(Word - 1) /\ MaxPollingRetry \in 1..MaxPollingRetry
         /\ Frame(<< >>) \in AnyFrame
         /\ NoRequest.cmd = << >> /\ NoRequest.rsp = << >>
  <1>1. << >> \in Seq(AnyElement)
    OBVIOUS
  <1>2. Slice(0, 0) \in [from : Nat, n : Nat]
    BY DEF Slice
  <1>3. NoContent \in [Names -> [from : Nat, n : Nat]]
    BY <1>2 DEF NoContent
  <1>4. NoRequest.cmd = << >> /\ NoRequest.rsp = << >>
    BY DEF NoRequest
  <1>5. Frame(<< >>) \in AnyFrame
    BY <1>1, FrameType
  <1>6. 0 \in 0..(Word - 1) /\ MaxPollingRetry \in 1..MaxPollingRetry
    BY Sizes
  <1> QED
    BY <1>3, <1>4, <1>5, <1>6

LEMMA TypeInit ==
  ASSUME Assumptions, Init
  PROVE  TypeOK
  <1>1. Frame(request.cmd) \in AnyFrame /\ Frame(request.rsp) \in AnyFrame
    BY NothingType DEF Init
  <1> QED
    BY <1>1, NothingType, Sizes DEF Init, TypeOK, Statuses, AnyFrame

LEMMA CallType ==
  ASSUME Assumptions, TypeOK, NEW r \in Requests, Call(r)
  PROVE  TypeOK'
  <1>1. /\ Frame(r.cmd) \in AnyFrame /\ Frame(r.rsp) \in AnyFrame
        /\ Push(Frame(r.cmd), CRC) \in AnyFrame
    BY RequestFacts, FrameType, CRCType, PushIs
  <1> QED
    BY <1>1, NothingType DEF Call, Return, TypeOK, AnyFrame

LEMMA AttemptType ==
  ASSUME Assumptions, TypeOK, NEW outcomes, Attempt(outcomes),
         answer' \in Answers \cup {NoAnswer}
  PROVE  TypeOK'
  <1>1. PICK bus \in outcomes : AfterSend(bus)
    BY DEF Attempt
  <1>2. /\ Pop(cmd) \in AnyFrame /\ Push(rsp, CRC) \in AnyFrame
        /\ Push(rsp, CRC).length \in 0..(Word - 1)
    <2>1. cmd \in AnyFrame /\ rsp \in AnyFrame
      BY DEF TypeOK, AnyFrame
    <2> QED
      BY <2>1, PopIs, PushIs, CRCType, FrameFacts
  <1>3. /\ cmd' \in AnyFrame /\ rsp' \in AnyFrame
        /\ retry_count' \in 1..MaxPollingRetry
        /\ received_length' \in 0..(Word - 1) /\ asked' \in 0..(Word - 1)
        /\ pc' \in {"idle", "transmit", "poll_length", "poll_frame"}
    BY <1>1, <1>2, RetryFacts DEF AfterSend, Attempt, Return, TypeOK, AnyFrame
  <1> QED
    BY <1>3 DEF Attempt, TypeOK, AnyFrame

LEMMA PollLengthType ==
  ASSUME Assumptions, TypeOK, PollLength
  PROVE  TypeOK'
  BY RetryFacts DEF PollLength, Return, TypeOK, device, frames

LEMMA FieldFacts ==
  ASSUME Assumptions, TypeOK, NEW field \in {answer.payload + 3} \cup NoisyLengths
  PROVE  /\ LengthOf(field) \in 0..(Word - 1)
         /\ WithCRC(LengthOf(field)) \in 0..(Word - 1)
  <1>1. answer.payload \in Nat
    BY DEF Assumptions, LAnswerAssumption, TypeOK, NoAnswer
  <1>2. field \in Nat /\ field + Word - 2 \in Nat
    BY <1>1, Sizes DEF Assumptions, LNoiseAssumption
  <1>3. LengthOf(field) \in 0..(Word - 1)
    BY <1>2, ModRange, Sizes DEF LengthOf
  <1>4. LengthOf(field) + 2 \in Nat
    BY <1>3, Sizes
  <1> QED
    BY <1>3, <1>4, ModRange, Sizes DEF WithCRC

\* What the length of an answer leads to.
LEMMA ReadLengthIs ==
  ASSUME ReadLength
  PROVE  /\ pc = "read_length" /\ UNCHANGED <<bus_type, request, cmd, current, header,
                                              answer, damaged, taken, content>>
         /\ length_damaged' \in BOOLEAN
         /\ \/ pc' = "idle" /\ ret' # "OK" /\ UNCHANGED <<rsp, receiver>>
            \/ \E field \in {answer.payload + 3} \cup NoisyLengths :
                  /\ pc' = "poll_frame" /\ UNCHANGED ret
                  /\ length_damaged' = (field # answer.payload + 3)
                  /\ received_length' = LengthOf(field)
                  /\ filler_size' = FillerFor(rsp, LengthOf(field))
                  /\ rsp' = Adjusted(rsp, LengthOf(field))
                  /\ asked' = WithCRC(LengthOf(field))
                  /\ retry_count' = MaxPollingRetry
  <1>1. PICK field \in {answer.payload + 3} \cup NoisyLengths :
            /\ length_damaged' = (field # answer.payload + 3)
            /\ \/ \E bus \in BusErrors : Return(bus) /\ UNCHANGED <<frames, receiver>>
               \/ Return("FRAME_SIZE_ERROR") /\ UNCHANGED <<frames, receiver>>
               \/ /\ received_length' = LengthOf(field)
                  /\ filler_size' = FillerFor(rsp, LengthOf(field))
                  /\ rsp' = Adjusted(rsp, LengthOf(field))
                  /\ retry_count' = MaxPollingRetry
                  /\ asked' = WithCRC(LengthOf(field))
                  /\ pc' = "poll_frame"
                  /\ UNCHANGED <<bus_type, request, cmd, current, header, ret>>
    BY DEF ReadLength
  <1>2. pc = "read_length" /\ UNCHANGED <<answer, damaged, taken, content>>
    BY DEF ReadLength
  <1> QED
    BY <1>1, <1>2, HostCodes DEF Return, frames, receiver

LEMMA ReadLengthType ==
  ASSUME Assumptions, TypeOK, ReadLength
  PROVE  TypeOK'
  <1>1. CASE pc' = "idle" /\ UNCHANGED <<rsp, receiver>>
    BY <1>1, ReadLengthIs DEF TypeOK, receiver
  <1>2. CASE ~(pc' = "idle" /\ UNCHANGED <<rsp, receiver>>)
    <2>1. PICK field \in {answer.payload + 3} \cup NoisyLengths :
                  /\ pc' = "poll_frame"
                  /\ received_length' = LengthOf(field)
                  /\ filler_size' = FillerFor(rsp, LengthOf(field))
                  /\ rsp' = Adjusted(rsp, LengthOf(field))
                  /\ asked' = WithCRC(LengthOf(field))
                  /\ retry_count' = MaxPollingRetry
      BY <1>2, ReadLengthIs
    <2>2. LengthOf(field) \in 0..(Word - 1) /\ WithCRC(LengthOf(field)) \in 0..(Word - 1)
      BY FieldFacts
    <2>3. rsp \in AnyFrame
      BY DEF TypeOK, AnyFrame
    <2>4. Adjusted(rsp, LengthOf(field)) \in AnyFrame /\ FillerFor(rsp, LengthOf(field)) \in 0..(Word - 1)
      BY <2>2, <2>3, AdjustedIs
    <2> QED
      BY <2>1, <2>2, <2>4, ReadLengthIs, RetryFacts DEF TypeOK, AnyFrame
  <1> QED
    BY <1>1, <1>2

LEMMA PollFrameType ==
  ASSUME Assumptions, TypeOK, PollFrame
  PROVE  TypeOK'
  <1>1. WithoutFiller(rsp) \in AnyFrame
    BY CleanedType DEF TypeOK, AnyFrame
  <1> QED
    BY <1>1, RetryFacts DEF PollFrame, Return, TypeOK, AnyFrame

LEMMA ReadHeaderI2CType ==
  ASSUME Assumptions, TypeOK, ReadHeaderI2C, rsp.elements # << >>
  PROVE  TypeOK'
  <1>1. rsp \in AnyFrame /\ WithoutFiller(rsp) \in AnyFrame
    BY CleanedType DEF TypeOK, AnyFrame
  <1>2. \A status : FrameForHeader(status) \in AnyFrame
    BY <1>1, HeaderOnlyTyped, Sizes DEF FrameForHeader, AnyFrame
  <1>3. \A status : Push(FrameForHeader(status), CRC) \in AnyFrame
    BY <1>2, PushIs, CRCType
  <1>4. /\ UNCHANGED <<bus_type, request, cmd, retry_count, received_length, filler_size,
                       asked, answer, taken, content, length_damaged>>
        /\ \/ pc' = "idle" /\ rsp' = WithoutFiller(rsp) /\ UNCHANGED <<damaged, header, current>>
           \/ /\ pc' = "read_elements" /\ damaged' \in BOOLEAN /\ HeaderReceived
              /\ rsp' = Push(FrameForHeader(header'), CRC) /\ current' = 2
    BY DEF ReadHeaderI2C, Return
  <1>5. HeaderReceived => header' \in Statuses
    BY DEF HeaderReceived, Assumptions, LAnswerAssumption, TypeOK, NoAnswer, Statuses
  <1> QED
    BY <1>1, <1>3, <1>4, <1>5 DEF TypeOK, AnyFrame

LEMMA ReadHeaderST1WireType ==
  ASSUME Assumptions, TypeOK, ReadHeaderST1Wire
  PROVE  TypeOK'
  <1>1. HeaderReceived => header' \in Statuses
    BY DEF HeaderReceived, Assumptions, LAnswerAssumption, TypeOK, NoAnswer, Statuses
  <1>2. received_length + Word - 1 \in Nat
    BY Sizes DEF TypeOK
  <1>3. (received_length + Word - 1) % Word \in 0..(Word - 1)
    BY <1>2, ModRange, Sizes
  <1>4. /\ UNCHANGED <<bus_type, request, cmd, rsp, retry_count, filler_size, asked, answer,
                       taken, content, length_damaged>>
        /\ damaged' \in {damaged, TRUE} /\ HeaderReceived
        /\ \/ pc' = "idle" /\ UNCHANGED <<received_length, current>>
           \/ /\ pc' = "read_elements" /\ current' = 2
              /\ received_length' = (received_length + Word - 1) % Word
    BY DEF ReadHeaderST1Wire, Return, frames
  <1>5. damaged' \in BOOLEAN
    BY <1>4 DEF TypeOK
  <1> QED
    BY <1>1, <1>3, <1>4, <1>5 DEF TypeOK

LEMMA ElementIs ==
  ASSUME Assumptions, TypeOK, NEW i \in 1..Len(rsp.elements), NEW n, NEW f,
         n = ElementLength(rsp.elements[i]), f = [rsp EXCEPT !.elements[i].length = n]
  PROVE  /\ n \in 0..received_length /\ n <= rsp.elements[i].length /\ n \in Nat
         /\ received_length > n => n = rsp.elements[i].length
         /\ f \in AnyFrame /\ Len(f.elements) = Len(rsp.elements)
         /\ \A j \in 1..Len(rsp.elements) : /\ f.elements[j].name = rsp.elements[j].name
                                            /\ j # i => f.elements[j] = rsp.elements[j]
  <1>1. rsp \in FramesOf(AllNames) /\ received_length \in 0..(Word - 1)
    BY DEF TypeOK
  <1>2. rsp.elements[i] \in ElementsOf(AllNames)
    BY <1>1 DEF FramesOf
  <1>3. rsp.elements[i].length \in 0..(Word - 1)
    BY <1>2, LengthsNat, Sizes
  <1>4. /\ n \in 0..received_length /\ n <= rsp.elements[i].length /\ n \in 0..(Word - 1)
        /\ received_length > n => n = rsp.elements[i].length
    BY <1>1, <1>3, Sizes DEF ElementLength
  <1> QED
    BY <1>1, <1>4, LengthSet, Sizes DEF AnyFrame

LEMMA ReadElementType ==
  ASSUME Assumptions, TypeOK, ReadElement, current \in 1..Len(rsp.elements)
  PROVE  TypeOK'
  <1> DEFINE e == rsp.elements[current]
             n == ElementLength(e)
             f == [rsp EXCEPT !.elements[current].length = n]
  <1>1. n \in 0..received_length /\ n \in Nat /\ f \in AnyFrame
    BY ElementIs
  <1>2. Cleaned(f) \in AnyFrame
    BY <1>1, CleanedType
  <1>3. /\ \/ /\ rsp' = f /\ pc' = pc
              /\ content' = IF e.name = "filler" THEN content
                            ELSE [content EXCEPT ![e.name] = Slice(taken, n)]
              /\ taken' = taken + n /\ received_length' = received_length - n
              /\ current' = current + 1
           \/ /\ pc' = "idle" /\ rsp' = Cleaned(f)
              /\ UNCHANGED <<content, taken, received_length, current>>
        /\ UNCHANGED <<bus_type, request, cmd, retry_count, filler_size, asked, header,
                       answer, damaged, length_damaged>>
    BY DEF ReadElement, Return
  <1> HIDE DEF n, f
  <1>4. content' \in [Names -> [from : Nat, n : Nat]]
    <2>1. Slice(taken, n) \in [from : Nat, n : Nat]
      BY <1>1 DEF Slice, TypeOK
    <2> QED
      BY <1>3, <2>1 DEF TypeOK
  <1>5. taken' \in Nat /\ received_length' \in 0..(Word - 1) /\ current' \in Nat
    <2>1. taken \in Nat /\ received_length \in 0..(Word - 1) /\ current \in Nat
      BY DEF TypeOK
    <2>2. taken + n \in Nat /\ received_length - n \in 0..(Word - 1) /\ current + 1 \in Nat
      BY <1>1, <2>1, Sizes
    <2> QED
      BY <1>3, <2>1, <2>2
  <1> QED
    BY <1>1, <1>2, <1>3, <1>4, <1>5 DEF TypeOK, AnyFrame

LEMMA ReadCRCType ==
  ASSUME Assumptions, TypeOK, ReadCRC
  PROVE  TypeOK'
  <1>1. Cleaned(rsp) \in AnyFrame /\ WithoutFiller(Pop(rsp)) \in AnyFrame
    BY CleanedType, PopIs DEF TypeOK, AnyFrame
  <1> QED
    BY <1>1 DEF ReadCRC, Return, TypeOK, AnyFrame, receiver, device

LEMMA ForgetType ==
  ASSUME Assumptions, TypeOK, Forget
  PROVE  TypeOK'
  BY NothingType DEF Forget, TypeOK, AnyFrame, Statuses

LEMMA TypeStep ==
  ASSUME Assumptions, TypeOK, FramesInv, FillInv, [Next]_vars
  PROVE  TypeOK'
  <1>1. CASE UNCHANGED vars
    BY <1>1 DEF vars, frames, receiver, device, TypeOK
  <1>2. ASSUME NEW a \in Answers, CommandArrives(a) PROVE TypeOK'
    BY <1>2, AttemptType DEF CommandArrives
  <1>3. CASE CommandLost
    BY <1>3, AttemptType DEF CommandLost, TypeOK
  <1>4. CASE ReadHeaderI2C
    <2>0. pc = "read_header" /\ bus_type = "I2C"
      BY <1>4 DEF ReadHeaderI2C
    <2>1. Len(rsp.elements) = Kept + Fillers + CRCs /\ request \in Requests
      BY <2>0 DEF FramesInv, SecondRead
    <2>2. Fillers \in 0..1 /\ CRCs = 0 /\ Kept = Len(request.rsp)
      BY <2>0 DEF Kept, HeaderLeft, CRCs, Fillers
    <2>3. Len(rsp.elements) # 0
      BY <2>1, <2>2, RequestFacts
    <2> QED
      BY <1>4, <2>3, ReadHeaderI2CType
  <1>5. CASE ReadElement
    <2>1. current \in 1..Len(rsp.elements)
      BY <1>5, FrameFacts DEF ReadElement, FillInv, TypeOK, AnyFrame
    <2> QED
      BY <1>5, <2>1, ReadElementType
  <1> QED
    BY <1>1, <1>2, <1>3, <1>4, <1>5, CallType, PollLengthType, ReadLengthType, PollFrameType,
       ReadHeaderST1WireType, ReadCRCType, ForgetType
    DEF Next, Receive

-----------------------------------------------------------------------------
(* The frames                                                              *)

Expecting == {"transmit", "poll_length", "read_length"}

\* The first n elements have the names of the caller's.
Own(elements, n) ==
  \A i \in 1..Len(elements) : i <= n => elements[i].name = request.rsp[i].name

LEMMA SecondReadIs ==
  ASSUME Assumptions, TypeOK, FramesInv, pc \in SecondRead
  PROVE  /\ request \in Requests /\ Len(request.rsp) \in Nat \ {0}
         /\ Kept \in 1..Len(request.rsp) /\ Kept \in Nat \ {0}
         /\ ~HeaderLeft => Kept = Len(request.rsp)
         /\ Fillers \in 0..1 /\ CRCs \in 0..1
         /\ Len(rsp.elements) = Kept + Fillers + CRCs
         /\ rsp \in AnyFrame /\ Own(rsp.elements, Kept)
         /\ cmd = Frame(request.cmd)
  <1>1. request \in Requests /\ Len(rsp.elements) = Kept + Fillers + CRCs /\ cmd = Frame(request.cmd)
    BY DEF FramesInv, SecondRead
  <1>2. Len(request.rsp) \in Nat \ {0}
    BY <1>1, RequestFacts
  <1>3. /\ Kept \in 1..Len(request.rsp) /\ Kept \in Nat \ {0}
        /\ ~HeaderLeft => Kept = Len(request.rsp)
    BY <1>2 DEF Kept
  <1>4. Fillers \in 0..1 /\ CRCs \in 0..1
    BY DEF Fillers, CRCs
  <1>5. rsp \in AnyFrame
    BY DEF TypeOK, AnyFrame
  <1>6. Own(rsp.elements, Kept)
    <2>1. \A i \in 1..Kept : rsp.elements[i].name = request.rsp[i].name
      BY DEF FramesInv
    <2> QED
      BY <1>3, <1>5, <2>1, FrameFacts DEF Own
  <1> QED
    BY <1>1, <1>2, <1>3, <1>4, <1>5, <1>6

\* Popping from elements of the caller and one more leaves elements of the caller.
LEMMA PopOwn ==
  ASSUME Assumptions, NEW f \in AnyFrame, NEW n \in Nat, Own(f.elements, n), Len(f.elements) >= 1
  PROVE  /\ Pop(f) \in AnyFrame /\ Own(Pop(f).elements, n)
         /\ Len(Pop(f).elements) = Len(f.elements) - 1
  <1>1. Len(f.elements) \in Nat
    BY FrameFacts
  <1>2. CASE Len(f.elements) > 1
    <2>1. /\ Pop(f) \in AnyFrame /\ Len(Pop(f).elements) = Len(f.elements) - 1
          /\ \A i \in 1..(Len(f.elements) - 1) : Pop(f).elements[i] = f.elements[i]
      BY <1>2, PopIs
    <2> HIDE DEF Pop
    <2> QED
      BY <1>1, <2>1 DEF Own
  <1>3. CASE ~(Len(f.elements) > 1)
    <2>1. Pop(f).elements = << >> /\ Pop(f) \in AnyFrame
      BY <1>3, PopIs
    <2>2. Len(f.elements) = 1
      <3> DEFINE m == Len(f.elements)
      <3>1. m \in Nat /\ m >= 1 /\ ~(m > 1)
        BY <1>1, <1>3
      <3> HIDE DEF m
      <3>2. m = 1
        BY <3>1
      <3> QED
        BY <3>2 DEF m
    <2>3. Len(Pop(f).elements) = 0
      BY <2>1
    <2>4. Own(Pop(f).elements, n)
      BY <2>3 DEF Own
    <2> QED
      BY <2>1, <2>2, <2>3, <2>4
  <1> QED
    BY <1>2, <1>3

\* Over I2C CRC and filler are taken off; after an error with a filler, the
\* header is.
LEMMA CleanedOwn ==
  ASSUME Assumptions, TypeOK, FramesInv, pc = "read_elements", bus_type = "I2C",
         NEW f \in AnyFrame, Len(f.elements) = Len(rsp.elements), Own(f.elements, Kept)
  PROVE  /\ Cleaned(f) = WithoutFiller(Pop(f))
         /\ Len(Cleaned(f).elements) <= Kept /\ Own(Cleaned(f).elements, Kept)
         /\ Cleaned(f) \in AnyFrame
         /\ Cleaned(f).elements = << >> => HeaderLeft /\ filler_size > 0
  <1>1. Kept \in Nat \ {0} /\ Fillers \in 0..1 /\ Len(rsp.elements) = Kept + Fillers + 1
    BY SecondReadIs DEF SecondRead, CRCs
  <1>2. /\ Pop(f) \in AnyFrame /\ Own(Pop(f).elements, Kept)
        /\ Len(Pop(f).elements) = Kept + Fillers
    BY <1>1, PopOwn
  <1>3. Cleaned(f) = WithoutFiller(Pop(f))
    BY DEF Cleaned
  <1>4. CASE filler_size > 0
    <2>1. /\ Pop(Pop(f)) \in AnyFrame /\ Own(Pop(Pop(f)).elements, Kept)
          /\ Len(Pop(Pop(f)).elements) = Kept + Fillers - 1
      BY <1>1, <1>2, PopOwn
    <2>2. HeaderLeft \/ Fillers = 1
      BY <1>4 DEF Fillers, SecondRead
    <2>3. Cleaned(f) = Pop(Pop(f))
      BY <1>3, <1>4 DEF WithoutFiller
    <2>4. Len(Pop(Pop(f)).elements) <= Kept
      BY <1>1, <2>1
    <2>5. Pop(Pop(f)).elements = << >> => HeaderLeft
      BY <1>1, <2>1, <2>2
    <2> QED
      BY <1>3, <1>4, <2>1, <2>3, <2>4, <2>5
  <1>5. CASE ~(filler_size > 0)
    <2>1. Fillers = 0
      BY <1>5 DEF Fillers
    <2>2. Cleaned(f) = Pop(f)
      BY <1>3, <1>5 DEF WithoutFiller
    <2>3. Len(Pop(f).elements) = Kept
      BY <1>1, <1>2, <2>1
    <2>4. Pop(f).elements # << >>
      BY <1>1, <2>3
    <2> QED
      BY <1>1, <1>2, <1>3, <2>2, <2>3, <2>4
  <1> QED
    BY <1>4, <1>5

\* The same for the filler alone, before the CRC was pushed.
LEMMA WithoutFillerOwn ==
  ASSUME Assumptions, TypeOK, FramesInv, pc \in {"poll_frame", "read_header"}, bus_type = "I2C"
  PROVE  /\ WithoutFiller(rsp) \in AnyFrame
         /\ Len(WithoutFiller(rsp).elements) <= Kept /\ Own(WithoutFiller(rsp).elements, Kept)
  <1>1. /\ Kept \in Nat \ {0} /\ Fillers \in 0..1 /\ Len(rsp.elements) = Kept + Fillers + 0
        /\ rsp \in AnyFrame /\ Own(rsp.elements, Kept)
    BY SecondReadIs DEF SecondRead, CRCs
  <1>2. CASE filler_size > 0
    <2>1. /\ Pop(rsp) \in AnyFrame /\ Own(Pop(rsp).elements, Kept)
          /\ Len(Pop(rsp).elements) = Kept + Fillers - 1
      BY <1>1, PopOwn
    <2>2. Len(Pop(rsp).elements) <= Kept
      BY <1>1, <2>1
    <2> QED
      BY <1>2, <2>1, <2>2 DEF WithoutFiller
  <1>3. CASE ~(filler_size > 0)
    <2>1. Fillers = 0
      BY <1>3 DEF Fillers
    <2> QED
      BY <1>1, <1>3, <2>1 DEF WithoutFiller
  <1> QED
    BY <1>2, <1>3

LEMMA IdleFrames ==
  ASSUME Assumptions, TypeOK, request \in Requests, Kept \in 1..Len(request.rsp),
         pc' \in {"idle", "fault"}, UNCHANGED <<request, bus_type>>, cmd' = Frame(request.cmd),
         bus_type = "ST1WIRE" => filler_size' = 0,
         pc' = "idle" /\ bus_type = "I2C" => /\ rsp' \in AnyFrame
                                             /\ Own(rsp'.elements, Len(request.rsp))
                                             /\ Len(rsp'.elements) <= Len(request.rsp)
  PROVE  FramesInv'
  <1>1. ASSUME pc' = "idle", bus_type' = "I2C", NEW i \in DOMAIN rsp'.elements
        PROVE  i <= Len(request.rsp) /\ rsp'.elements[i].name = request.rsp[i].name
    <2>1. i \in 1..Len(rsp'.elements) /\ Len(rsp'.elements) \in Nat
      BY <1>1, FrameFacts
    <2>2. Len(request.rsp) \in Nat
      BY RequestFacts
    <2>3. i <= Len(request.rsp)
      BY <1>1, <2>1, <2>2
    <2> QED
      BY <1>1, <2>1, <2>3 DEF Own
  <1> QED
    BY <1>1 DEF FramesInv, SecondRead

LEMMA OwnLess ==
  ASSUME Assumptions, NEW r \in Requests, request = r, Kept \in 1..Len(r.rsp),
         NEW f \in AnyFrame, Len(f.elements) <= Kept, Own(f.elements, Kept)
  PROVE  Own(f.elements, Len(r.rsp)) /\ Len(f.elements) <= Len(r.rsp)
  <1>1. Len(r.rsp) \in Nat /\ Len(f.elements) \in Nat
    BY RequestFacts, FrameFacts
  <1> QED
    BY <1>1 DEF Own

\* Before an answer is received the response is as the caller gave it.
LEMMA ExpectingIs ==
  ASSUME Assumptions, TypeOK, FramesInv, pc \in Expecting
  PROVE  /\ request \in Requests /\ filler_size = 0 /\ Len(request.rsp) \in Nat \ {0}
         /\ rsp = Frame(request.rsp) /\ rsp.elements = request.rsp /\ rsp \in AnyFrame
         /\ Own(rsp.elements, Len(request.rsp))
         /\ Kept = Len(request.rsp)
  <1>1. request \in Requests /\ filler_size = 0 /\ rsp = Frame(request.rsp)
    BY DEF Expecting, FramesInv
  <1>2. Kept = Len(request.rsp)
    BY DEF Expecting, Kept, HeaderLeft
  <1> QED
    BY <1>1, <1>2, RequestFacts, FrameType DEF Own

LEMMA CallFrames ==
  ASSUME Assumptions, TypeOK, NEW r \in Requests, Call(r)
  PROVE  FramesInv'
  <1>1. /\ pc' \in {"idle", "transmit"} /\ request' = r /\ rsp' = Frame(r.rsp) /\ filler_size' = 0
        /\ cmd' = IF pc' = "transmit" THEN Push(Frame(r.cmd), CRC) ELSE Frame(r.cmd)
    BY DEF Call, Return
  <1>2. rsp'.elements = r.rsp
    BY <1>1, RequestFacts, FrameType
  <1>3. \A i \in DOMAIN r.rsp : i <= Len(r.rsp)
    BY RequestFacts
  <1> QED
    BY <1>1, <1>2, <1>3 DEF FramesInv, SecondRead

LEMMA CmdPopped ==
  ASSUME Assumptions, TypeOK, FramesInv, pc = "transmit"
  PROVE  Pop(cmd) = Frame(request.cmd)
  <1>1. request.cmd \in Seq(ElementsOf(AllNames)) /\ cmd = Push(Frame(request.cmd), CRC)
    BY AnyRequest DEF TypeOK, FramesInv, AnyElement
  <1>2. \A e \in ElementsOf(AllNames) : e.length \in 0..(Word - 1)
    BY LengthsNat, Sizes
  <1>3. CRC \in ElementsOf(AllNames)
    BY CRCType DEF AnyElement
  <1> QED
    BY <1>1, <1>2, <1>3, PopPush, Sizes

\* What one pass of the loop leads to.
LEMMA AttemptSteps ==
  ASSUME NEW outcomes, Attempt(outcomes)
  PROVE  /\ pc = "transmit"
         /\ UNCHANGED <<bus_type, request, filler_size, current, header, damaged, taken,
                        content, length_damaged>>
         /\ \/ pc' = "transmit" /\ UNCHANGED <<cmd, rsp>>
            \/ /\ pc' = "idle" /\ cmd' = Pop(cmd) /\ rsp' = rsp
               /\ \E bus \in outcomes : bus # "OK" /\ ret' = bus
            \/ pc' = "poll_length" /\ cmd' = Pop(cmd) /\ rsp' = rsp /\ bus_type = "I2C"
            \/ /\ pc' = "poll_frame" /\ cmd' = Pop(cmd) /\ rsp' = Push(rsp, CRC)
               /\ bus_type = "ST1WIRE" /\ received_length' = rsp'.length /\ asked' = rsp'.length
  <1>1. PICK bus \in outcomes : AfterSend(bus)
    BY DEF Attempt
  <1>2. \/ pc' = "transmit" /\ UNCHANGED <<cmd, rsp>>
        \/ pc' = "idle" /\ cmd' = Pop(cmd) /\ rsp' = rsp /\ bus # "OK" /\ ret' = bus
        \/ pc' = "poll_length" /\ cmd' = Pop(cmd) /\ rsp' = rsp /\ bus_type = "I2C"
        \/ /\ pc' = "poll_frame" /\ cmd' = Pop(cmd) /\ rsp' = Push(rsp, CRC)
           /\ bus_type = "ST1WIRE" /\ received_length' = rsp'.length /\ asked' = rsp'.length
    BY <1>1 DEF AfterSend, Attempt, Return
  <1> QED
    BY <1>2 DEF Attempt

LEMMA AttemptFrames ==
  ASSUME Assumptions, TypeOK, FramesInv, NEW outcomes, Attempt(outcomes)
  PROVE  FramesInv'
  <1>1. pc = "transmit" /\ UNCHANGED <<bus_type, request, filler_size>>
    BY AttemptSteps
  <1>2. /\ request \in Requests /\ filler_size = 0 /\ Len(request.rsp) \in Nat \ {0}
        /\ rsp = Frame(request.rsp) /\ rsp.elements = request.rsp /\ rsp \in AnyFrame
        /\ Own(rsp.elements, Len(request.rsp)) /\ Kept = Len(request.rsp)
    BY <1>1, ExpectingIs DEF Expecting
  <1>3. Pop(cmd) = Frame(request.cmd)
    BY <1>1, CmdPopped
  <1>4. CASE pc' = "transmit" /\ UNCHANGED <<cmd, rsp>>
    BY <1>1, <1>2, <1>4 DEF FramesInv, SecondRead
  <1>5. CASE pc' = "idle" /\ cmd' = Pop(cmd) /\ rsp' = rsp
    BY <1>1, <1>2, <1>3, <1>5, IdleFrames
  <1>6. CASE pc' = "poll_length" /\ cmd' = Pop(cmd) /\ rsp' = rsp /\ bus_type = "I2C"
    BY <1>1, <1>2, <1>3, <1>6 DEF FramesInv, SecondRead
  <1>7. CASE pc' = "poll_frame" /\ cmd' = Pop(cmd) /\ rsp' = Push(rsp, CRC) /\ bus_type = "ST1WIRE"
    <2>1. Kept' = Len(request.rsp) /\ Fillers' = 0 /\ CRCs' = 1
      BY <1>1, <1>2, <1>7 DEF Kept, HeaderLeft, Fillers, CRCs, SecondRead
    <2>2. /\ Len(rsp'.elements) = Len(request.rsp) + 1
          /\ \A i \in 1..Len(request.rsp) : rsp'.elements[i] = request.rsp[i]
      BY <1>2, <1>7, PushIs, CRCType
    <2>3. ~(filler_size' > 0)
      BY <1>1, <1>2
    <2>4. Len(rsp'.elements) = Kept' + Fillers' + CRCs'
      BY <1>2, <2>1, <2>2
    <2> QED
      BY <1>1, <1>2, <1>3, <1>7, <2>1, <2>2, <2>3, <2>4 DEF FramesInv, SecondRead
  <1> QED
    BY <1>4, <1>5, <1>6, <1>7, AttemptSteps

LEMMA PollLengthFrames ==
  ASSUME Assumptions, TypeOK, FramesInv, PollLength
  PROVE  FramesInv'
  <1>1. /\ pc = "poll_length" /\ pc' \in {"idle", "poll_length", "read_length"}
        /\ UNCHANGED <<bus_type, request, cmd, rsp, filler_size>>
    BY DEF PollLength, Return, frames
  <1>2. /\ request \in Requests /\ filler_size = 0 /\ Len(request.rsp) \in Nat \ {0}
        /\ rsp = Frame(request.rsp) /\ rsp.elements = request.rsp /\ rsp \in AnyFrame
        /\ Own(rsp.elements, Len(request.rsp)) /\ Kept = Len(request.rsp)
    BY <1>1, ExpectingIs DEF Expecting
  <1>3. cmd = Frame(request.cmd) /\ bus_type = "I2C"
    BY <1>1 DEF FramesInv
  <1>4. CASE pc' = "idle"
    BY <1>1, <1>2, <1>3, <1>4, IdleFrames
  <1>5. CASE pc' \in {"poll_length", "read_length"}
    BY <1>1, <1>2, <1>3, <1>5 DEF FramesInv, SecondRead
  <1> QED
    BY <1>1, <1>4, <1>5

LEMMA ReadLengthFrames ==
  ASSUME Assumptions, TypeOK, FramesInv, ReadLength
  PROVE  FramesInv'
  <1>1. pc = "read_length" /\ UNCHANGED <<bus_type, request, cmd, answer>>
    BY ReadLengthIs
  <1>2. /\ request \in Requests /\ filler_size = 0 /\ Len(request.rsp) \in Nat \ {0}
        /\ rsp = Frame(request.rsp) /\ rsp.elements = request.rsp /\ rsp \in AnyFrame
        /\ Own(rsp.elements, Len(request.rsp)) /\ Kept = Len(request.rsp)
    BY <1>1, ExpectingIs DEF Expecting
  <1>3. cmd = Frame(request.cmd) /\ bus_type = "I2C"
    BY <1>1 DEF FramesInv
  <1>4. CASE pc' = "idle" /\ UNCHANGED <<rsp, receiver>>
    BY <1>1, <1>2, <1>3, <1>4, IdleFrames DEF receiver
  <1>5. CASE ~(pc' = "idle" /\ UNCHANGED <<rsp, receiver>>)
    <2>1. PICK field \in {answer.payload + 3} \cup NoisyLengths :
                  /\ pc' = "poll_frame"
                  /\ length_damaged' = (field # answer.payload + 3)
                  /\ filler_size' = FillerFor(rsp, LengthOf(field))
                  /\ rsp' = Adjusted(rsp, LengthOf(field))
      BY <1>5, ReadLengthIs
    <2>2. LengthOf(field) \in 0..(Word - 1)
      BY FieldFacts
    <2>3. /\ \A i \in 1..Len(request.rsp) : rsp'.elements[i] = request.rsp[i]
          /\ filler_size' > 0 =>
               /\ LengthOf(field) > Frame(request.rsp).length
               /\ Len(rsp'.elements) = Len(request.rsp) + 1
               /\ rsp'.elements[Len(request.rsp) + 1].name = "filler"
          /\ ~(filler_size' > 0) => Len(rsp'.elements) = Len(request.rsp)
      <3> DEFINE length == LengthOf(field)
      <3>1. length \in 0..(Word - 1)
        BY <2>2
      <3> HIDE DEF length
      <3>2. /\ \A i \in 1..Len(rsp.elements) : Adjusted(rsp, length).elements[i] = rsp.elements[i]
            /\ FillerFor(rsp, length) > 0 =>
                 /\ length > rsp.length
                 /\ Len(Adjusted(rsp, length).elements) = Len(rsp.elements) + 1
                 /\ Adjusted(rsp, length).elements[Len(rsp.elements) + 1].name = "filler"
            /\ ~(FillerFor(rsp, length) > 0) =>
                 Len(Adjusted(rsp, length).elements) = Len(rsp.elements)
        BY <1>2, <3>1, AdjustedIs
      <3>3. filler_size' = FillerFor(rsp, length) /\ rsp' = Adjusted(rsp, length)
        BY <2>1 DEF length
      <3>4. rsp.elements = request.rsp /\ rsp.length = Frame(request.rsp).length
        BY <1>2
      <3> QED
        BY <3>2, <3>3, <3>4 DEF length
    <2>4. /\ Kept' = Len(request.rsp) /\ CRCs' = 0
          /\ Fillers' = IF filler_size' > 0 THEN 1 ELSE 0
      BY <1>1, <1>3, <2>1 DEF Kept, HeaderLeft, Fillers, CRCs, SecondRead
    <2>5. Len(rsp'.elements) = Kept' + Fillers' + CRCs'
      <3>1. CASE filler_size' > 0
        BY <1>2, <2>3, <2>4, <3>1
      <3>2. CASE ~(filler_size' > 0)
        BY <1>2, <2>3, <2>4, <3>2
      <3> QED
        BY <3>1, <3>2
    <2>6. Fillers' = 1 => rsp'.elements[Kept' + 1].name = "filler"
      BY <2>3, <2>4
    <2>7. ~length_damaged' /\ filler_size' > 0 =>
             LengthOf(answer'.payload + 3) > Frame(request'.rsp).length
      BY <1>1, <2>1, <2>3
    <2>8. \A i \in 1..Kept' : rsp'.elements[i].name = request'.rsp[i].name
      BY <1>1, <2>3, <2>4
    <2>9. LengthOf(answer.payload + 3)' = LengthOf(answer'.payload + 3)
      BY DEF LengthOf
    <2> QED
      BY <1>1, <1>2, <1>3, <2>1, <2>5, <2>6, <2>7, <2>8, <2>9 DEF FramesInv, SecondRead
  <1> QED
    BY <1>4, <1>5

\* The receiver of the second read goes on without touching the frames.
LEMMA StayFrames ==
  ASSUME Assumptions, TypeOK, FramesInv, pc \in {"poll_frame", "read_header"},
         pc' \in {"poll_frame", "read_header"},
         UNCHANGED <<bus_type, request, cmd, rsp, filler_size, answer, length_damaged>>
  PROVE  FramesInv'
  <1>1. /\ pc \in SecondRead /\ pc' \in SecondRead
        /\ Kept' = Kept /\ Fillers' = Fillers /\ CRCs' = CRCs
    BY DEF SecondRead, Kept, HeaderLeft, Fillers, CRCs
  <1>2. /\ cmd = Frame(request.cmd) /\ request \in Requests
        /\ bus_type = "ST1WIRE" => filler_size = 0
        /\ Len(rsp.elements) = Kept + Fillers + CRCs
        /\ \A i \in 1..Kept : rsp.elements[i].name = request.rsp[i].name
        /\ Fillers = 1 => rsp.elements[Kept + 1].name = "filler"
        /\ ~length_damaged /\ filler_size > 0 =>
               LengthOf(answer.payload + 3) > Frame(request.rsp).length
    BY <1>1 DEF FramesInv, SecondRead
  <1>3. /\ Len(rsp'.elements) = Kept' + Fillers' + CRCs'
        /\ \A i \in 1..Kept' : rsp'.elements[i].name = request'.rsp[i].name
        /\ Fillers' = 1 => rsp'.elements[Kept' + 1].name = "filler"
        /\ ~length_damaged' /\ filler_size' > 0 =>
               LengthOf(answer'.payload + 3) > Frame(request'.rsp).length
    BY <1>1, <1>2
  <1>4. LengthOf(answer.payload + 3)' = LengthOf(answer'.payload + 3)
    BY DEF LengthOf
  <1> HIDE DEF Kept, Fillers, CRCs
  <1> QED
    BY <1>1, <1>2, <1>3, <1>4 DEF FramesInv

LEMMA PollFrameIs ==
  ASSUME PollFrame
  PROVE  /\ pc = "poll_frame"
         /\ UNCHANGED <<bus_type, request, cmd, received_length, filler_size, current,
                        asked, header, answer, taken, content, length_damaged>>
         /\ \/ pc' \in {"poll_frame", "read_header"} /\ UNCHANGED <<rsp, ret>>
            \/ pc' = "idle" /\ bus_type = "I2C" /\ rsp' = WithoutFiller(rsp) /\ ret' # "OK"
  BY HostCodes DEF PollFrame, Return

\* Giving up before the CRC was pushed, over I2C.
LEMMA GivenUpFrames ==
  ASSUME Assumptions, TypeOK, FramesInv, pc \in {"poll_frame", "read_header"}, bus_type = "I2C",
         pc' = "idle", rsp' = WithoutFiller(rsp), UNCHANGED <<bus_type, request, cmd>>
  PROVE  FramesInv'
  <1>1. /\ request \in Requests /\ Kept \in 1..Len(request.rsp)
        /\ cmd = Frame(request.cmd)
    BY SecondReadIs DEF SecondRead
  <1>2. /\ rsp' \in AnyFrame /\ Len(rsp'.elements) <= Kept /\ Own(rsp'.elements, Kept)
    BY WithoutFillerOwn
  <1>3. Own(rsp'.elements, Len(request.rsp)) /\ Len(rsp'.elements) <= Len(request.rsp)
    BY <1>1, <1>2, OwnLess
  <1> QED
    BY <1>1, <1>2, <1>3, IdleFrames

LEMMA PollFrameFrames ==
  ASSUME Assumptions, TypeOK, FramesInv, PollFrame
  PROVE  FramesInv'
  BY PollFrameIs, StayFrames, GivenUpFrames

LEMMA HeaderReceivedIs ==
  ASSUME Assumptions, TypeOK, HeaderReceived
  PROVE  /\ header' \in Statuses
         /\ ~damaged' => header' = answer.status
  BY DEF HeaderReceived, Assumptions, LAnswerAssumption, TypeOK, NoAnswer, Statuses

LEMMA ReadHeaderI2CIs ==
  ASSUME ReadHeaderI2C
  PROVE  /\ pc = "read_header" /\ bus_type = "I2C"
         /\ UNCHANGED <<bus_type, request, cmd, retry_count, received_length, filler_size,
                        asked, answer, taken, content, length_damaged>>
         /\ \/ pc' = "idle" /\ rsp' = WithoutFiller(rsp) /\ ret' # "OK"
            \/ /\ pc' = "read_elements" /\ HeaderReceived /\ UNCHANGED ret
               /\ rsp' = Push(FrameForHeader(header'), CRC) /\ current' = 2
  BY HostCodes DEF ReadHeaderI2C, Return

LEMMA ReadHeaderI2CFrames ==
  ASSUME Assumptions, TypeOK, FramesInv, ReadHeaderI2C
  PROVE  FramesInv'
  <1>1. /\ pc = "read_header" /\ bus_type = "I2C"
        /\ UNCHANGED <<bus_type, request, cmd, filler_size, answer, length_damaged>>
    BY ReadHeaderI2CIs
  <1>2. CASE pc' = "idle" /\ rsp' = WithoutFiller(rsp)
    BY <1>1, <1>2, GivenUpFrames
  <1>3. CASE pc' = "read_elements" /\ HeaderReceived /\ rsp' = Push(FrameForHeader(header'), CRC)
    <2>1. /\ request \in Requests /\ Len(request.rsp) \in Nat \ {0} /\ cmd = Frame(request.cmd)
          /\ Kept = Len(request.rsp)
          /\ Fillers \in 0..1 /\ CRCs = 0 /\ Len(rsp.elements) = Kept + Fillers + CRCs
          /\ rsp \in AnyFrame
      BY <1>1, SecondReadIs DEF SecondRead, HeaderLeft, CRCs
    <2>2. /\ \A i \in 1..Len(request.rsp) : rsp.elements[i].name = request.rsp[i].name
          /\ Fillers = 1 => rsp.elements[Len(request.rsp) + 1].name = "filler"
          /\ ~length_damaged /\ filler_size > 0 =>
                 LengthOf(answer.payload + 3) > Frame(request.rsp).length
      BY <1>1, <2>1 DEF FramesInv, SecondRead
    <2>3. header' \in {"OK", "ERROR"} /\ CRCs' = 1
      BY <1>1, <1>3, HeaderReceivedIs DEF Statuses, CRCs, SecondRead
    <2>4. CASE header' = "OK"
      <3>1. Kept' = Len(request.rsp) /\ Fillers' = Fillers
        BY <1>1, <1>3, <2>4 DEF Kept, HeaderLeft, Fillers, SecondRead
      <3>2. rsp' = Push(rsp, CRC)
        BY <1>3, <2>4 DEF FrameForHeader
      <3>3. /\ Len(rsp'.elements) = Len(rsp.elements) + 1
            /\ \A i \in 1..Len(rsp.elements) : rsp'.elements[i] = rsp.elements[i]
        BY <2>1, <3>2, PushIs, CRCType
      <3>4. Len(rsp'.elements) = Kept' + Fillers' + CRCs'
        BY <2>1, <2>3, <3>1, <3>3
      <3>5. \A i \in 1..Kept' : rsp'.elements[i].name = request'.rsp[i].name
        BY <1>1, <2>1, <2>2, <3>1, <3>3
      <3>6. Fillers' = 1 => rsp'.elements[Kept' + 1].name = "filler"
        BY <2>1, <2>2, <3>1, <3>3
      <3> QED
        BY <1>1, <1>3, <2>1, <2>2, <3>4, <3>5, <3>6 DEF FramesInv, SecondRead, LengthOf
    <2>5. CASE header' = "ERROR"
      <3>1. Kept' = 1 /\ Fillers' = 0
        BY <1>3, <2>5 DEF Kept, HeaderLeft, Fillers
      <3>2. rsp' = Push(HeaderOnly(rsp), CRC)
        BY <1>3, <2>5 DEF FrameForHeader
      <3>3. rsp.elements \in Seq(AnyElement) /\ Len(rsp.elements) >= 1
        <4>1. rsp.elements \in Seq(AnyElement)
          BY <2>1, FrameFacts
        <4> QED
          BY <2>1, <4>1
      <3>4. HeaderOnly(rsp) \in AnyFrame /\ HeaderOnly(rsp).elements = <<rsp.elements[1]>>
        <4>1. rsp.elements # << >>
          BY <3>3
        <4> QED
          BY <2>1, <3>3, <4>1, HeaderOnlyTyped, Sizes DEF AnyFrame, HeaderOnly
      <3>5. /\ Len(rsp'.elements) = 2 /\ rsp'.elements[1] = rsp.elements[1]
        <4> DEFINE g == HeaderOnly(rsp)
        <4>1. g \in AnyFrame /\ Len(g.elements) = 1 /\ g.elements[1] = rsp.elements[1]
          BY <3>4
        <4> HIDE DEF g
        <4>2. /\ Len(Push(g, CRC).elements) = Len(g.elements) + 1
              /\ \A i \in 1..Len(g.elements) : Push(g, CRC).elements[i] = g.elements[i]
          BY <4>1, PushIs, CRCType
        <4>3. rsp' = Push(g, CRC)
          BY <3>2 DEF g
        <4> QED
          BY <4>1, <4>2, <4>3
      <3>6. Len(rsp'.elements) = Kept' + Fillers' + CRCs'
        BY <2>3, <3>1, <3>5
      <3>7. \A i \in 1..Kept' : rsp'.elements[i].name = request'.rsp[i].name
        BY <1>1, <2>1, <2>2, <3>1, <3>5
      <3> QED
        BY <1>1, <1>3, <2>1, <2>2, <3>1, <3>6, <3>7 DEF FramesInv, SecondRead, LengthOf
    <2> QED
      BY <2>3, <2>4, <2>5
  <1> QED
    BY <1>2, <1>3, ReadHeaderI2CIs

LEMMA ReadHeaderST1WireIs ==
  ASSUME ReadHeaderST1Wire
  PROVE  /\ pc = "read_header" /\ bus_type = "ST1WIRE"
         /\ UNCHANGED <<bus_type, request, cmd, rsp, retry_count, filler_size, asked, answer,
                        taken, content, length_damaged>>
         /\ HeaderReceived /\ (~damaged' => ~damaged)
         /\ \/ pc' = "idle" /\ ret' # "OK"
            \/ /\ pc' = "read_elements" /\ header' = "OK" /\ current' = 2 /\ UNCHANGED ret
               /\ received_length' = (received_length + Word - 1) % Word
  <1>1. /\ pc = "read_header" /\ bus_type = "ST1WIRE"
        /\ damaged' \in {damaged, TRUE} /\ HeaderReceived
        /\ UNCHANGED <<frames, retry_count, filler_size, asked, answer, taken, content,
                       length_damaged>>
    BY DEF ReadHeaderST1Wire
  <1>2. ~damaged' => ~damaged
    BY <1>1
  <1>3. \/ pc' = "idle" /\ ret' # "OK"
        \/ /\ pc' = "read_elements" /\ header' = "OK" /\ current' = 2 /\ UNCHANGED ret
           /\ received_length' = (received_length + Word - 1) % Word
    BY HostCodes DEF ReadHeaderST1Wire, Return
  <1> QED
    BY <1>1, <1>2, <1>3 DEF frames

LEMMA ReadHeaderST1WireFrames ==
  ASSUME Assumptions, TypeOK, FramesInv, ReadHeaderST1Wire
  PROVE  FramesInv'
  <1>1. /\ pc = "read_header" /\ bus_type = "ST1WIRE"
        /\ UNCHANGED <<bus_type, request, cmd, rsp, filler_size, answer, length_damaged>>
    BY ReadHeaderST1WireIs
  <1>2. /\ request \in Requests /\ Len(request.rsp) \in Nat \ {0} /\ cmd = Frame(request.cmd)
        /\ Kept = Len(request.rsp) /\ Kept \in 1..Len(request.rsp)
        /\ Len(rsp.elements) = Kept + Fillers + CRCs
    BY <1>1, SecondReadIs DEF SecondRead, HeaderLeft
  <1>3. /\ \A i \in 1..Kept : rsp.elements[i].name = request.rsp[i].name
        /\ filler_size = 0 /\ ~(filler_size > 0)
    BY <1>1, <1>2 DEF FramesInv, SecondRead
  <1>4. CASE pc' = "idle"
    BY <1>1, <1>2, <1>3, <1>4, IdleFrames
  <1>5. CASE pc' = "read_elements" /\ header' = "OK"
    <2>1. Kept' = Kept /\ Fillers' = Fillers /\ CRCs' = CRCs /\ Fillers' = 0
      BY <1>1, <1>2, <1>3, <1>5 DEF Kept, HeaderLeft, Fillers, CRCs, SecondRead
    <2>2. Len(rsp'.elements) = Kept' + Fillers' + CRCs'
      BY <1>1, <1>2, <2>1
    <2>3. \A i \in 1..Kept' : rsp'.elements[i].name = request'.rsp[i].name
      BY <1>1, <1>3, <2>1
    <2> QED
      BY <1>1, <1>2, <1>3, <1>5, <2>1, <2>2, <2>3 DEF FramesInv, SecondRead
  <1> QED
    BY <1>4, <1>5, ReadHeaderST1WireIs

\* The exits of the receivers after the CRC was pushed.
LEMMA CleanedFrames ==
  ASSUME Assumptions, TypeOK, FramesInv, pc = "read_elements", pc' \in {"idle", "fault"},
         NEW f \in AnyFrame, Len(f.elements) = Len(rsp.elements), Own(f.elements, Kept),
         bus_type = "I2C" => rsp' = Cleaned(f),
         UNCHANGED <<bus_type, request, cmd, filler_size>>
  PROVE  FramesInv'
  <1>1. /\ request \in Requests /\ Kept \in 1..Len(request.rsp) /\ cmd = Frame(request.cmd)
    BY SecondReadIs DEF SecondRead
  <1>2. bus_type = "ST1WIRE" => filler_size = 0
    BY DEF FramesInv
  <1>3. ASSUME bus_type = "I2C"
        PROVE  /\ rsp' \in AnyFrame /\ Own(rsp'.elements, Len(request.rsp))
               /\ Len(rsp'.elements) <= Len(request.rsp)
    <2>1. Cleaned(f) \in AnyFrame /\ Len(Cleaned(f).elements) <= Kept /\ Own(Cleaned(f).elements, Kept)
      BY <1>3, CleanedOwn
    <2> HIDE DEF Cleaned
    <2>2. rsp' \in AnyFrame /\ Len(rsp'.elements) <= Kept /\ Own(rsp'.elements, Kept)
      BY <1>3, <2>1
    <2> QED
      BY <1>1, <2>2, OwnLess
  <1> QED
    BY <1>1, <1>2, <1>3, IdleFrames

\* What reading into an element leads to.
LEMMA ReadElementIs ==
  ASSUME ReadElement, NEW e, e = rsp.elements[current], NEW n, n = ElementLength(e),
         NEW f, f = [rsp EXCEPT !.elements[current].length = n]
  PROVE  /\ pc = "read_elements" /\ current < Len(rsp.elements)
         /\ UNCHANGED <<bus_type, request, cmd, retry_count, filler_size, asked, header,
                        answer, damaged, length_damaged>>
         /\ \/ /\ pc' = "read_elements" /\ ~Refused(n) /\ rsp' = f /\ UNCHANGED ret
               /\ content' = IF e.name = "filler" THEN content
                             ELSE [content EXCEPT ![e.name] = Slice(taken, n)]
               /\ taken' = taken + n /\ received_length' = received_length - n
               /\ current' = current + 1
            \/ pc' = "idle" /\ rsp' = Cleaned(f) /\ ret' # "OK"
  BY HostCodes DEF ReadElement, Return

LEMMA ReadElementFrames ==
  ASSUME Assumptions, TypeOK, FramesInv, ReadElement, current \in 1..Len(rsp.elements)
  PROVE  FramesInv'
  <1> DEFINE e == rsp.elements[current]
             n == ElementLength(e)
             f == [rsp EXCEPT !.elements[current].length = n]
  <1>1. /\ f \in AnyFrame /\ Len(f.elements) = Len(rsp.elements)
        /\ \A j \in 1..Len(rsp.elements) : f.elements[j].name = rsp.elements[j].name
    BY ElementIs
  <1>2. /\ pc = "read_elements"
        /\ UNCHANGED <<bus_type, request, cmd, filler_size, header, answer, length_damaged>>
        /\ \/ pc' = "read_elements" /\ rsp' = f
           \/ pc' = "idle" /\ rsp' = Cleaned(f)
    BY ReadElementIs
  <1> HIDE DEF e, n, f
  <1>3. /\ request \in Requests /\ Kept \in 1..Len(request.rsp) /\ cmd = Frame(request.cmd)
        /\ Len(rsp.elements) = Kept + Fillers + CRCs
        /\ Own(rsp.elements, Kept) /\ Fillers \in 0..1 /\ CRCs \in 0..1 /\ Kept \in Nat \ {0}
    BY <1>2, SecondReadIs DEF SecondRead
  <1>4. Own(f.elements, Kept)
    BY <1>1, <1>3 DEF Own
  <1>5. CASE pc' = "idle" /\ rsp' = Cleaned(f)
    BY <1>1, <1>2, <1>4, <1>5, CleanedFrames
  <1>6. CASE pc' = "read_elements" /\ rsp' = f
    <2>1. /\ Kept' = Kept /\ Fillers' = Fillers /\ CRCs' = CRCs
      BY <1>2, <1>6 DEF Kept, HeaderLeft, Fillers, CRCs, SecondRead
    <2>2. /\ bus_type = "ST1WIRE" => filler_size = 0
          /\ \A i \in 1..Kept : rsp.elements[i].name = request.rsp[i].name
          /\ Fillers = 1 => rsp.elements[Kept + 1].name = "filler"
          /\ ~length_damaged /\ filler_size > 0 =>
                 LengthOf(answer.payload + 3) > Frame(request.rsp).length
      BY <1>2 DEF FramesInv, SecondRead
    <2>3. Len(rsp'.elements) = Kept' + Fillers' + CRCs'
      BY <1>1, <1>3, <1>6, <2>1
    <2>4. \A i \in 1..Kept' : rsp'.elements[i].name = request'.rsp[i].name
      <3> SUFFICES ASSUME NEW i \in 1..Kept PROVE f.elements[i].name = request.rsp[i].name
        BY <1>2, <1>6, <2>1
      <3>1. i \in 1..Len(rsp.elements)
        BY <1>3
      <3> QED
        BY <1>1, <2>2, <3>1
    <2>5. Fillers' = 1 => rsp'.elements[Kept' + 1].name = "filler"
      <3> SUFFICES ASSUME Fillers = 1 PROVE f.elements[Kept + 1].name = "filler"
        BY <1>6, <2>1
      <3>1. Kept + 1 \in 1..Len(rsp.elements)
        BY <1>3
      <3> QED
        BY <1>1, <2>2, <3>1
    <2> QED
      BY <1>2, <1>3, <1>6, <2>2, <2>3, <2>4, <2>5 DEF FramesInv, SecondRead, LengthOf
  <1> QED
    BY <1>2, <1>5, <1>6

\* What reading the CRC leads to.
LEMMA ReadCRCIs ==
  ASSUME ReadCRC
  PROVE  /\ pc = "read_elements" /\ current = Len(rsp.elements)
         /\ UNCHANGED <<bus_type, request, cmd, receiver, device>>
         /\ \/ pc' = "idle" /\ rsp' = Cleaned(rsp) /\ ret' # "OK"
            \/ /\ ~Refused(2) /\ rsp' = WithoutFiller(Pop(rsp))
               /\ \/ pc' = "idle" /\ ret' # "OK"
                  \/ Verified /\ rsp'.elements # << >> /\ pc' = "idle" /\ ret' = header
                  \/ Verified /\ rsp'.elements = << >> /\ pc' = "fault" /\ UNCHANGED ret
  BY HostCodes DEF ReadCRC, Return

LEMMA ReadCRCFrames ==
  ASSUME Assumptions, TypeOK, FramesInv, ReadCRC
  PROVE  FramesInv'
  <1>1. pc = "read_elements" /\ UNCHANGED <<bus_type, request, cmd, filler_size>>
    BY ReadCRCIs DEF receiver
  <1>2. rsp \in AnyFrame /\ Own(rsp.elements, Kept)
    BY <1>1, SecondReadIs DEF SecondRead
  <1>3. bus_type = "I2C" => rsp' = Cleaned(rsp)
    BY ReadCRCIs DEF Cleaned
  <1>4. pc' \in {"idle", "fault"}
    BY ReadCRCIs
  <1> QED
    BY <1>1, <1>2, <1>3, <1>4, CleanedFrames

\* No request: no frames.
LEMMA NothingFrames ==
  ASSUME Assumptions, pc' = "idle", request' = NoRequest, filler_size' = 0,
         cmd' = Frame(<< >>), rsp' = Frame(<< >>)
  PROVE  FramesInv'
  <1>1. request'.cmd = << >> /\ rsp'.elements = << >>
    BY NothingType DEF Frame
  <1> QED
    BY <1>1 DEF FramesInv, SecondRead

LEMMA InitFrames ==
  ASSUME Assumptions, Init
  PROVE  FramesInv
  <1>1. request.cmd = << >> /\ request.rsp = << >>
    BY NothingType DEF Init
  <1>2. rsp.elements = << >> /\ cmd = Frame(request.cmd) /\ filler_size = 0 /\ pc = "idle"
    BY <1>1 DEF Init, Frame
  <1> QED
    BY <1>2 DEF FramesInv, SecondRead

LEMMA FramesStep ==
  ASSUME Assumptions, TypeOK, FramesInv, FillInv, [Next]_vars
  PROVE  FramesInv'
  <1>1. CASE UNCHANGED vars
    <2>1. LengthOf(answer.payload + 3)' = LengthOf(answer'.payload + 3)
      BY DEF LengthOf
    <2> QED
      BY <1>1, <2>1 DEF vars, frames, receiver, device, FramesInv, SecondRead, Kept, HeaderLeft,
         Fillers, CRCs, LengthOf
  <1>2. ASSUME NEW a \in Answers, CommandArrives(a) PROVE FramesInv'
    BY <1>2, AttemptFrames DEF CommandArrives
  <1>3. CASE CommandLost
    BY <1>3, AttemptFrames DEF CommandLost
  <1>4. CASE ReadElement
    <2>1. current \in 1..Len(rsp.elements)
      BY <1>4, FrameFacts DEF ReadElement, FillInv, TypeOK, AnyFrame
    <2> QED
      BY <1>4, <2>1, ReadElementFrames
  <1>5. CASE Forget
    BY <1>5, NothingFrames DEF Forget
  <1> QED
    BY <1>1, <1>2, <1>3, <1>4, <1>5, CallFrames, PollLengthFrames, ReadLengthFrames,
       PollFrameFrames, ReadHeaderI2CFrames, ReadHeaderST1WireFrames, ReadCRCFrames
    DEF Next, Receive

-----------------------------------------------------------------------------
(* The elements                                                            *)

LEMMA NoMoreThan ==
  ASSUME Word \in Nat \ {0}, NEW n \in Nat
  PROVE  n % Word <= n
  OBVIOUS

LEMMA NothingTaken ==
  ASSUME Word \in Nat \ {0}, NEW n \in 0..(Word - 1), NEW t, t = 0
  PROVE  t + n = n /\ n < Word /\ (t + n + 0) % Word = n
  <1>1. t + n = n /\ n < Word /\ t + n + 0 = n
    OBVIOUS
  <1> QED
    BY <1>1, ModOnce

LEMMA TwoAtLeast ==
  ASSUME NEW k \in Nat \ {0}, NEW f \in 0..1, NEW l, l = k + f + 1
  PROVE  l \in Nat /\ 2 <= l
  OBVIOUS

\* The length of an ST1-Wire answer loses its header, and gets it back.
LEMMA HeaderOff ==
  ASSUME Word \in Nat \ {0}, NEW n \in 0..(Word - 1), NEW m, m = (n + Word - 1) % Word
  PROVE  m \in 0..(Word - 1) /\ n = (m + 1) % Word
  <1>1. CASE n = 0
    <2>1. n + Word - 1 = Word - 1 /\ (Word - 1) % Word = Word - 1
      BY <1>1
    <2>2. m = Word - 1 /\ m + 1 = Word
      BY <2>1
    <2>3. Word % Word = 0
      BY ModOnce
    <2> QED
      BY <1>1, <2>2, <2>3
  <1>2. CASE n > 0
    <2> DEFINE k == n - 1
    <2>1. k \in 0..(Word - 1) /\ n + Word - 1 = k + Word /\ k + 1 = n
      BY <1>2
    <2> HIDE DEF k
    <2>2. (k + Word) % Word = k
      BY <2>1, ModOnce
    <2>3. m = k
      BY <2>1, <2>2
    <2>4. n % Word = n
      BY ModOnce
    <2> QED
      BY <2>1, <2>3, <2>4
  <1> QED
    BY <1>1, <1>2

LEMMA QuietFill ==
  ASSUME pc' \in {"idle", "fault"} \/ (pc' \in Expecting /\ taken' = 0)
  PROVE  FillInv'
  BY DEF FillInv, SecondRead, Expecting

LEMMA AttemptFill ==
  ASSUME Assumptions, TypeOK, FramesInv, FillInv, NEW outcomes, Attempt(outcomes)
  PROVE  FillInv'
  <1>1. pc = "transmit" /\ UNCHANGED <<bus_type, request, header, taken>>
    BY AttemptSteps
  <1>2. /\ request \in Requests /\ Len(request.rsp) \in Nat \ {0}
        /\ rsp.elements = request.rsp /\ rsp \in AnyFrame
    BY <1>1, ExpectingIs DEF Expecting
  <1>3. taken = 0
    BY <1>1 DEF FillInv
  <1>4. CASE pc' = "poll_frame" /\ rsp' = Push(rsp, CRC) /\ bus_type = "ST1WIRE"
             /\ received_length' = rsp'.length /\ asked' = rsp'.length
    <2>1. /\ rsp' \in AnyFrame
          /\ \A i \in 1..Len(request.rsp) : rsp'.elements[i] = request.rsp[i]
      BY <1>2, <1>4, PushIs, CRCType
    <2>2. received_length' \in 0..(Word - 1)
      BY <1>4, <2>1, FrameFacts
    <2>3. /\ taken' + received_length' = received_length'
          /\ (taken' + received_length' + 0) % Word = received_length'
      <3>1. taken' = 0
        BY <1>1, <1>3
      <3> QED
        BY <2>2, <3>1, NothingTaken, Sizes
    <2>4. Kept' = Len(request.rsp)
      BY <1>1, <1>4 DEF Kept, HeaderLeft
    <2>5. \A i \in 2..Kept' : rsp'.elements[i] = request'.rsp[i]
      BY <1>1, <1>2, <2>1, <2>4
    <2>6. received_length' < Word /\ bus_type' # "I2C" /\ taken' = 0
      BY <1>1, <1>3, <1>4, <2>2, Sizes
    <2> QED
      BY <1>4, <2>3, <2>5, <2>6 DEF FillInv
  <1>5. CASE pc' # "poll_frame"
    <2>1. pc' \in {"idle", "transmit", "poll_length"}
      BY <1>5, AttemptSteps
    <2> QED
      BY <1>1, <1>3, <2>1, QuietFill DEF Expecting
  <1> QED
    BY <1>4, <1>5, AttemptSteps

LEMMA ReadLengthFill ==
  ASSUME Assumptions, TypeOK, FramesInv, FillInv, ReadLength
  PROVE  FillInv'
  <1>1. pc = "read_length" /\ UNCHANGED <<bus_type, request, taken, header>>
    BY ReadLengthIs
  <1>2. /\ request \in Requests /\ Len(request.rsp) \in Nat \ {0}
        /\ rsp.elements = request.rsp /\ rsp \in AnyFrame
    BY <1>1, ExpectingIs DEF Expecting
  <1>3. taken = 0 /\ bus_type = "I2C"
    BY <1>1 DEF FillInv, FramesInv
  <1>4. CASE pc' = "idle"
    BY <1>4, QuietFill
  <1>5. CASE pc' # "idle"
    <2>1. PICK field \in {answer.payload + 3} \cup NoisyLengths :
                  /\ pc' = "poll_frame"
                  /\ received_length' = LengthOf(field)
                  /\ rsp' = Adjusted(rsp, LengthOf(field))
                  /\ asked' = WithCRC(LengthOf(field))
      BY <1>5, ReadLengthIs
    <2>2. LengthOf(field) \in 0..(Word - 1)
      BY FieldFacts
    <2> DEFINE length == LengthOf(field)
    <2>3. length \in 0..(Word - 1)
      BY <2>2
    <2>4. received_length' = length /\ rsp' = Adjusted(rsp, length) /\ asked' = WithCRC(length)
      BY <2>1
    <2> HIDE DEF length
    <2>5. \A i \in 1..Len(rsp.elements) : Adjusted(rsp, length).elements[i] = rsp.elements[i]
      BY <1>2, <2>3, AdjustedIs
    <2>6. Kept' = Len(request.rsp)
      BY <1>1, <2>1 DEF Kept, HeaderLeft
    <2>7. \A i \in 2..Kept' : rsp'.elements[i] = request'.rsp[i]
      BY <1>1, <1>2, <2>4, <2>5, <2>6
    <2>8. taken' + received_length' = received_length' /\ received_length' < Word
      BY <1>1, <1>3, <2>3, <2>4, Sizes
    <2>9. asked' = WithCRC(taken' + received_length') /\ bus_type' = "I2C" /\ taken' = 0
      BY <1>1, <1>3, <2>4, <2>8
    <2>10. WithCRC(taken + received_length)' = WithCRC(taken' + received_length')
      BY DEF WithCRC
    <2> QED
      BY <2>1, <2>7, <2>8, <2>9, <2>10 DEF FillInv
  <1> QED
    BY <1>4, <1>5

LEMMA PollFrameFill ==
  ASSUME Assumptions, TypeOK, FramesInv, FillInv, PollFrame
  PROVE  FillInv'
  <1>1. /\ pc = "poll_frame"
        /\ UNCHANGED <<bus_type, request, received_length, asked, header, taken>>
    BY PollFrameIs
  <1>2. CASE pc' = "idle"
    BY <1>2, QuietFill
  <1>3. CASE pc' \in {"poll_frame", "read_header"} /\ rsp' = rsp
    <2>1. Kept' = Kept
      BY <1>1, <1>3 DEF Kept, HeaderLeft
    <2>2. /\ taken = 0 /\ taken + received_length < Word
          /\ \A i \in 2..Kept : rsp.elements[i] = request.rsp[i]
          /\ IF bus_type = "I2C" THEN asked = WithCRC(taken + received_length)
             ELSE asked = (taken + received_length + 0) % Word
      BY <1>1 DEF FillInv, SecondRead
    <2> HIDE DEF Kept
    <2>3. WithCRC(taken + received_length)' = WithCRC(taken' + received_length')
      BY DEF WithCRC
    <2>4. /\ taken' = 0 /\ taken' + received_length' < Word
          /\ \A i \in 2..Kept' : rsp'.elements[i] = request'.rsp[i]
          /\ IF bus_type' = "I2C" THEN asked' = WithCRC(taken' + received_length')
             ELSE asked' = (taken' + received_length' + 0) % Word
      BY <1>1, <1>3, <2>1, <2>2
    <2> QED
      BY <1>3, <2>3, <2>4 DEF FillInv
  <1> QED
    BY <1>2, <1>3, PollFrameIs

\* When the elements begin, nothing has been taken.
LEMMA FirstElement ==
  ASSUME Assumptions, NEW r \in Requests
  PROVE  TotalLength(SubSeq(r.rsp, 2, 1)) = 0
  <1>1. SubSeq(r.rsp, 2, 1) = << >>
    BY RequestFacts
  <1> QED
    BY <1>1, TotalLengthEmpty

LEMMA BeginFill ==
  ASSUME Assumptions, request' \in Requests, pc' = "read_elements", current' = 2, taken' = 0,
         Len(rsp.elements)' \in Nat, 2 <= Len(rsp.elements)', Kept' \in Nat,
         received_length' \in 0..(Word - 1),
         \A i \in 2..Kept' : rsp'.elements[i] = request'.rsp[i],
         IF bus_type' = "I2C" THEN asked' = WithCRC(received_length')
         ELSE asked' = (received_length' + 1) % Word
  PROVE  FillInv'
  <1>1. taken' + received_length' = received_length' /\ received_length' < Word
    BY NothingTaken, Sizes
  <1>2. taken' = Before(current)'
    BY FirstElement DEF Before
  <1>3. \A i \in 2..Kept' : ~(i < current')
    OBVIOUS
  <1>4. current' \in 2..Len(rsp.elements)'
    OBVIOUS
  <1>5. WithCRC(taken + received_length)' = WithCRC(taken' + received_length')
    BY DEF WithCRC
  <1>6. IF bus_type' = "I2C" THEN asked' = WithCRC(taken' + received_length')
        ELSE asked' = (taken' + received_length' + 1) % Word
    BY <1>1
  <1> HIDE DEF Kept, Before, Full
  <1> QED
    BY <1>1, <1>2, <1>3, <1>4, <1>5, <1>6 DEF FillInv, Before

LEMMA ReadHeaderI2CFill ==
  ASSUME Assumptions, TypeOK, FramesInv, FillInv, ReadHeaderI2C, FramesInv', TypeOK'
  PROVE  FillInv'
  <1>1. /\ pc = "read_header" /\ bus_type = "I2C"
        /\ UNCHANGED <<bus_type, request, received_length, asked, taken>>
    BY ReadHeaderI2CIs
  <1>2. CASE pc' = "idle"
    BY <1>2, QuietFill
  <1>3. CASE pc' = "read_elements" /\ HeaderReceived /\ current' = 2
             /\ rsp' = Push(FrameForHeader(header'), CRC)
    <2>1. /\ request \in Requests /\ Len(request.rsp) \in Nat \ {0} /\ rsp \in AnyFrame
          /\ Kept = Len(request.rsp) /\ Len(rsp.elements) = Kept + Fillers + CRCs
          /\ Fillers \in 0..1 /\ CRCs = 0
      BY <1>1, SecondReadIs DEF SecondRead, HeaderLeft, CRCs
    <2>2. /\ taken = 0 /\ received_length \in 0..(Word - 1)
          /\ \A i \in 2..Kept : rsp.elements[i] = request.rsp[i]
          /\ asked = WithCRC(taken + received_length)
      BY <1>1 DEF FillInv, SecondRead, TypeOK
    <2>3. /\ Kept' \in 1..Len(request'.rsp) /\ Kept' \in Nat \ {0} /\ CRCs' = 1
          /\ Fillers' \in 0..1 /\ Len(rsp'.elements) = Kept' + Fillers' + CRCs'
      <3>1. request' \in Requests /\ Len(rsp'.elements) = Kept' + Fillers' + CRCs'
        BY <1>3 DEF FramesInv, SecondRead
      <3>2. Kept' \in 1..Len(request'.rsp) /\ Kept' \in Nat \ {0}
        BY <1>1, <2>1 DEF Kept
      <3>3. Fillers' \in 0..1 /\ CRCs' = 1
        BY <1>3 DEF Fillers, CRCs, SecondRead
      <3> QED
        BY <3>1, <3>2, <3>3
    <2>4. Len(rsp'.elements) \in Nat /\ 2 <= Len(rsp'.elements)
      <3>1. Len(rsp'.elements) = Kept' + Fillers' + 1
        BY <2>3
      <3> QED
        BY <2>3, <3>1, TwoAtLeast
    <2>5. \A i \in 2..Kept' : rsp'.elements[i] = request'.rsp[i]
      <3>1. CASE header' = "ERROR"
        <4>1. Kept' = 1
          BY <1>3, <3>1 DEF Kept, HeaderLeft
        <4> QED
          BY <4>1
      <3>2. CASE header' # "ERROR"
        <4>1. header' = "OK"
          BY <1>3, <3>2, HeaderReceivedIs DEF Statuses
        <4>2. rsp' = Push(rsp, CRC) /\ Kept' = Len(request.rsp)
          BY <1>1, <1>3, <4>1 DEF FrameForHeader, Kept, HeaderLeft
        <4>3. \A i \in 1..Len(rsp.elements) : rsp'.elements[i] = rsp.elements[i]
          BY <2>1, <4>2, PushIs, CRCType
        <4> QED
          BY <1>1, <2>1, <2>2, <4>2, <4>3
      <3> QED
        BY <3>1, <3>2
    <2>6. asked' = WithCRC(received_length') /\ taken' = 0 /\ received_length' \in 0..(Word - 1)
      BY <1>1, <2>2
    <2> QED
      BY <1>1, <1>3, <2>1, <2>3, <2>4, <2>5, <2>6, BeginFill
  <1> QED
    BY <1>2, <1>3, ReadHeaderI2CIs

LEMMA ReadHeaderST1WireFill ==
  ASSUME Assumptions, TypeOK, FramesInv, FillInv, ReadHeaderST1Wire
  PROVE  FillInv'
  <1>1. /\ pc = "read_header" /\ bus_type = "ST1WIRE"
        /\ UNCHANGED <<bus_type, request, rsp, asked, taken>>
    BY ReadHeaderST1WireIs
  <1>2. CASE pc' = "idle"
    BY <1>2, QuietFill
  <1>3. CASE pc' = "read_elements" /\ header' = "OK" /\ current' = 2
             /\ received_length' = (received_length + Word - 1) % Word
    <2>1. /\ request \in Requests /\ Len(request.rsp) \in Nat \ {0}
          /\ Kept = Len(request.rsp) /\ Len(rsp.elements) = Kept + Fillers + CRCs
          /\ Fillers \in 0..1 /\ CRCs = 1
      BY <1>1, SecondReadIs DEF SecondRead, HeaderLeft, CRCs
    <2>2. /\ taken = 0 /\ received_length \in 0..(Word - 1)
          /\ \A i \in 2..Kept : rsp.elements[i] = request.rsp[i]
          /\ asked = (taken + received_length + 0) % Word
      BY <1>1 DEF FillInv, SecondRead, TypeOK
    <2>3. asked = received_length
      <3>1. taken + received_length + 0 = received_length
        BY <2>2
      <3>2. received_length % Word = received_length
        BY <2>2, ModOnce, Sizes
      <3> QED
        BY <2>2, <3>1, <3>2
    <2>4. received_length' \in 0..(Word - 1) /\ asked' = (received_length' + 1) % Word
      BY <1>1, <1>3, <2>2, <2>3, HeaderOff, Sizes
    <2>5. Kept' = Len(request.rsp)
      BY <1>1, <1>3 DEF Kept, HeaderLeft
    <2>6. Len(rsp.elements)' \in Nat /\ 2 <= Len(rsp.elements)'
      BY <1>1, <2>1
    <2>7. \A i \in 2..Kept' : rsp'.elements[i] = request'.rsp[i]
      BY <1>1, <2>1, <2>2, <2>5
    <2> QED
      BY <1>1, <1>3, <2>1, <2>2, <2>4, <2>5, <2>6, <2>7, BeginFill
  <1> QED
    BY <1>2, <1>3, ReadHeaderST1WireIs

LEMMA SumKept ==
  ASSUME NEW t \in Nat, NEW r \in Nat, NEW n \in 0..r
  PROVE  (t + n) + (r - n) = t + r
  OBVIOUS

LEMMA LeftIsMore ==
  ASSUME NEW r \in Nat, NEW n \in 0..r, r - n > 0
  PROVE  r > n /\ r > 0
  OBVIOUS

\* The part of the payload before an element, and before the next one.
LEMMA BeforeNext ==
  ASSUME Assumptions, NEW r \in Requests, NEW i \in 2..Len(r.rsp)
  PROVE  TotalLength(SubSeq(r.rsp, 2, (i + 1) - 1))
           = TotalLength(SubSeq(r.rsp, 2, i - 1)) + r.rsp[i].length
  <1>1. r.rsp \in Seq(AnyElement) /\ Len(r.rsp) \in Nat
    BY RequestFacts
  <1>2. \A e \in AnyElement : e.length \in Nat
    BY LengthsNat, Sizes DEF AnyElement
  <1>3. 2 \in 1..Len(r.rsp) /\ i \in 2..Len(r.rsp) /\ (i + 1) - 1 = i
    BY <1>1
  <1> QED
    BY <1>1, <1>2, <1>3, TotalLengthUpTo

LEMMA ReadElementFill ==
  ASSUME Assumptions, TypeOK, FramesInv, FillInv, ReadElement
  PROVE  FillInv'
  <1> DEFINE e == rsp.elements[current]
             n == ElementLength(e)
             f == [rsp EXCEPT !.elements[current].length = n]
  <1>1. /\ pc = "read_elements" /\ current < Len(rsp.elements)
        /\ UNCHANGED <<bus_type, request, filler_size, asked, header>>
        /\ \/ /\ pc' = "read_elements" /\ rsp' = f
              /\ content' = IF e.name = "filler" THEN content
                            ELSE [content EXCEPT ![e.name] = Slice(taken, n)]
              /\ taken' = taken + n /\ received_length' = received_length - n
              /\ current' = current + 1
           \/ pc' = "idle"
    BY ReadElementIs
  <1>2. /\ request \in Requests /\ Len(request.rsp) \in Nat \ {0}
        /\ Kept \in 1..Len(request.rsp) /\ Kept \in Nat \ {0}
        /\ Fillers \in 0..1 /\ CRCs = 1 /\ Len(rsp.elements) = Kept + Fillers + CRCs
        /\ rsp \in AnyFrame
    BY <1>1, SecondReadIs DEF SecondRead, CRCs
  <1>3. /\ current \in 2..Len(rsp.elements) /\ current \in Nat
        /\ \A i \in 2..Kept : current <= i => rsp.elements[i] = request.rsp[i]
        /\ taken + received_length < Word
        /\ IF bus_type = "I2C" THEN asked = WithCRC(taken + received_length)
           ELSE asked = (taken + received_length + 1) % Word
        /\ received_length > 0 =>
                /\ \A i \in 2..Kept : i < current => Full(i)
                /\ current <= Kept + 1 => taken = Before(current)
    BY <1>1 DEF FillInv, SecondRead, TypeOK
  <1>4. /\ n \in 0..received_length /\ n \in Nat
        /\ received_length > n => n = e.length
        /\ Len(f.elements) = Len(rsp.elements)
        /\ \A j \in 1..Len(rsp.elements) : j # current => f.elements[j] = rsp.elements[j]
    <2>1. current \in 1..Len(rsp.elements)
      BY <1>2, <1>3
    <2>2. n = ElementLength(rsp.elements[current]) /\ f = [rsp EXCEPT !.elements[current].length = n]
      OBVIOUS
    <2> HIDE DEF n, f
    <2> QED
      BY <2>1, <2>2, ElementIs
  <1>5. /\ taken \in Nat /\ received_length \in Nat
        /\ content \in [Names -> [from : Nat, n : Nat]]
    BY Sizes DEF TypeOK
  <1>6. current <= Kept + Fillers
    <2>1. Len(rsp.elements) = Kept + Fillers + 1
      BY <1>2
    <2> QED
      BY <1>1, <1>2, <1>3, <2>1
  <1>7. Fillers = 1 => rsp.elements[Kept + 1].name = "filler"
    BY <1>1 DEF FramesInv, SecondRead
  <1> HIDE DEF n, f
  <1>8. CASE pc' = "idle"
    BY <1>8, QuietFill
  <1>9. CASE /\ pc' = "read_elements" /\ rsp' = f
             /\ content' = IF e.name = "filler" THEN content
                           ELSE [content EXCEPT ![e.name] = Slice(taken, n)]
             /\ taken' = taken + n /\ received_length' = received_length - n
             /\ current' = current + 1
    <2>1. Kept' = Kept
      BY <1>1, <1>9 DEF Kept, HeaderLeft
    <2>2. taken' + received_length' = taken + received_length
      BY <1>4, <1>5, <1>9, SumKept
    <2>3. current' \in 2..Len(rsp'.elements)
      <3>1. Len(rsp.elements) \in Nat
        BY <1>2
      <3>2. current + 1 \in 2..Len(rsp.elements)
        BY <1>1, <1>3, <3>1
      <3> QED
        BY <1>4, <1>9, <3>2
    <2>4. ASSUME NEW i \in 2..Kept, current + 1 <= i
          PROVE  f.elements[i] = request.rsp[i]
      <3>1. i # current /\ current <= i /\ i \in 1..Len(rsp.elements)
        BY <1>2, <1>3, <2>4
      <3> QED
        BY <1>3, <1>4, <3>1
    <2>5. IF bus_type' = "I2C" THEN asked' = WithCRC(taken' + received_length')
          ELSE asked' = (taken' + received_length' + 1) % Word
      <3>1. IF bus_type = "I2C" THEN asked = WithCRC(taken' + received_length')
            ELSE asked = (taken' + received_length' + 1) % Word
        BY <1>3, <2>2
      <3> QED
        BY <1>1, <3>1
    <2>6. ASSUME received_length' > 0
          PROVE  /\ \A i \in 2..Kept : i < current + 1 => content'[request.rsp[i].name]
                                             = Slice(Before(i), request.rsp[i].length)
                 /\ current + 1 <= Kept + 1 => taken' = Before(current + 1)
      <3>1. received_length > n /\ received_length > 0
        BY <1>4, <1>5, <1>9, <2>6, LeftIsMore
      <3>2. n = e.length
        BY <1>4, <3>1
      <3>3. ASSUME current <= Kept
            PROVE  /\ e = request.rsp[current] /\ current \in 1..Len(request.rsp)
                   /\ current \in 2..Len(request.rsp) /\ e.name # "filler"
                   /\ taken = Before(current)
        <4>1. current \in 2..Kept /\ current \in 1..Len(request.rsp) /\ current \in 2..Len(request.rsp)
          BY <1>2, <1>3, <3>3
        <4>2. e = request.rsp[current]
          BY <1>3, <4>1
        <4>3. request.rsp[current].name # "filler"
          BY <1>2, <4>1, RequestFacts
        <4>4. current <= Kept + 1
          BY <1>2, <1>3, <3>3
        <4> QED
          BY <1>3, <3>1, <4>1, <4>2, <4>3, <4>4
      <3>4. CASE current <= Kept
        <4> DEFINE slice == Slice(Before(current), request.rsp[current].length)
        <4>1. content' = [content EXCEPT ![request.rsp[current].name] = slice]
          BY <1>9, <3>2, <3>3, <3>4
        <4> HIDE DEF slice
        <4>2. ASSUME NEW i \in 2..Kept, i < current + 1
              PROVE  content'[request.rsp[i].name] = Slice(Before(i), request.rsp[i].length)
          <5>1. i \in 1..Len(request.rsp) /\ current \in 1..Len(request.rsp)
            BY <1>2, <3>3, <3>4, <4>2
          <5>2. /\ i # current => content'[request.rsp[i].name] = content[request.rsp[i].name]
                /\ content'[request.rsp[current].name] = slice
            <6>1. /\ request.rsp[i].name \in Names /\ request.rsp[current].name \in Names
                  /\ i # current => request.rsp[i].name # request.rsp[current].name
              BY <1>2, <5>1, RequestFacts
            <6> QED
              BY <1>5, <4>1, <6>1
          <5>3. CASE i = current
            BY <5>2, <5>3 DEF slice
          <5>4. CASE i # current
            <6>1. i < current
              BY <1>3, <4>2, <5>4
            <6>2. content[request.rsp[i].name] = Slice(Before(i), request.rsp[i].length)
              BY <1>3, <3>1, <6>1 DEF Full
            <6> QED
              BY <5>2, <5>4, <6>2
          <5> QED
            BY <5>3, <5>4
        <4>3. taken' = Before(current + 1)
          <5>1. Before(current + 1) = Before(current) + request.rsp[current].length
            BY <1>2, <3>3, <3>4, BeforeNext DEF Before
          <5> QED
            BY <1>9, <3>2, <3>3, <3>4, <5>1
        <4> QED
          BY <4>2, <4>3
      <3>5. CASE ~(current <= Kept)
        <4>1. current = Kept + 1 /\ Fillers = 1
          BY <1>2, <1>3, <1>6, <3>5
        <4>2. content' = content
          BY <1>7, <1>9, <4>1
        <4>3. ASSUME NEW i \in 2..Kept, i < current + 1
              PROVE  content'[request.rsp[i].name] = Slice(Before(i), request.rsp[i].length)
          <5>1. i < current
            BY <1>2, <4>1
          <5> QED
            BY <1>3, <3>1, <4>2, <5>1 DEF Full
        <4>4. ~(current + 1 <= Kept + 1)
          BY <1>2, <1>3, <3>5
        <4> QED
          BY <4>3, <4>4
      <3> QED
        BY <3>4, <3>5
    <2>7. received_length' > 0 =>
                /\ \A i \in 2..Kept' : i < current' => Full(i)'
                /\ current' <= Kept' + 1 => taken' = Before(current)'
      <3>1. Before(current)' = Before(current + 1)
        BY <1>1, <1>9 DEF Before
      <3>2. ASSUME NEW i
            PROVE  Full(i)' <=> content'[request.rsp[i].name] = Slice(Before(i), request.rsp[i].length)
        BY <1>1 DEF Full, Before
      <3> QED
        BY <1>9, <2>1, <2>6, <3>1, <3>2
    <2>8. taken' + received_length' < Word
      BY <1>3, <2>2
    <2>9. \A i \in 2..Kept' : current' <= i => rsp'.elements[i] = request'.rsp[i]
      BY <1>1, <1>9, <2>1, <2>4
    <2>10. WithCRC(taken + received_length)' = WithCRC(taken' + received_length')
      BY DEF WithCRC
    <2> HIDE DEF Kept, Before, Full
    <2> QED
      BY <1>9, <2>3, <2>5, <2>7, <2>8, <2>9, <2>10 DEF FillInv
  <1> QED
    BY <1>1, <1>8, <1>9

LEMMA FillStep ==
  ASSUME Assumptions, TypeOK, FramesInv, FillInv, [Next]_vars, TypeOK', FramesInv'
  PROVE  FillInv'
  <1>1. CASE UNCHANGED vars
    BY <1>1 DEF vars, frames, receiver, device, FillInv, SecondRead, Kept, HeaderLeft, Full,
       Before, WithCRC
  <1>2. ASSUME NEW r \in Requests, Call(r) PROVE FillInv'
    BY <1>2, QuietFill DEF Call, Return, Expecting
  <1>3. ASSUME NEW a \in Answers, CommandArrives(a) PROVE FillInv'
    BY <1>3, AttemptFill DEF CommandArrives
  <1>4. CASE CommandLost
    BY <1>4, AttemptFill DEF CommandLost
  <1>5. CASE PollLength
    BY <1>5, QuietFill DEF PollLength, Return, Expecting, device, FillInv
  <1>6. CASE ReadCRC
    BY <1>6, ReadCRCIs, QuietFill
  <1>7. CASE Forget
    BY <1>7, QuietFill DEF Forget
  <1> QED
    BY <1>1, <1>2, <1>3, <1>4, <1>5, <1>6, <1>7, ReadLengthFill, PollFrameFill,
       ReadHeaderI2CFill, ReadHeaderST1WireFill, ReadElementFill
    DEF Next, Receive

-----------------------------------------------------------------------------
(* What a call returns                                                     *)

\* A transfer that returns STSE_OK has just read a CRC.
LEMMA OnlyCRC ==
  ASSUME [Next]_vars, pc' = "idle", ret' = "OK"
  PROVE  UNCHANGED vars \/ ReadCRC
  <1>1. ASSUME NEW r \in Requests, Call(r) PROVE FALSE
    BY <1>1, HostCodes DEF Call, Return
  <1>2. ASSUME NEW outcomes, outcomes \subseteq {"OK"} \cup BusErrors, Attempt(outcomes) PROVE FALSE
    BY <1>2, AttemptSteps
  <1>3. ~PollLength
    BY HostCodes DEF PollLength, Return
  <1>4. ~ReadElement
    <2>1. ASSUME ReadElement PROVE pc' = "idle" => ret' # "OK"
      BY <2>1, HostCodes DEF ReadElement, Return
    <2>2. ASSUME ReadElement PROVE FALSE
      BY <2>1, <2>2
    <2> QED
      BY <2>2
  <1>5. ~Forget
    BY DEF Forget
  <1> QED
    BY <1>1, <1>2, <1>3, <1>4, <1>5, ReadLengthIs, PollFrameIs, ReadHeaderI2CIs,
       ReadHeaderST1WireIs
    DEF Next, Receive, CommandArrives, CommandLost

\* Until its CRC is read, a header that is not damaged is the answer's.
LEMMA HeaderStep ==
  ASSUME HeaderInv, [Next]_vars
  PROVE  HeaderInv'
  <1> SUFFICES ASSUME pc' = "read_elements", ~damaged' PROVE header' = answer'.status
    BY DEF HeaderInv
  <1>1. ASSUME NEW outcomes, outcomes \subseteq {"OK"} \cup BusErrors, Attempt(outcomes) PROVE FALSE
    BY <1>1, AttemptSteps
  <1>2. CASE UNCHANGED vars
    BY <1>2 DEF HeaderInv, vars, device, receiver
  <1>3. CASE ReadHeaderI2C
    BY <1>3, ReadHeaderI2CIs DEF HeaderReceived
  <1>4. CASE ReadHeaderST1Wire
    BY <1>4, ReadHeaderST1WireIs DEF HeaderReceived
  <1>5. CASE ReadElement
    BY <1>5 DEF HeaderInv, ReadElement
  <1> QED
    BY <1>1, <1>2, <1>3, <1>4, <1>5, ReadLengthIs, PollFrameIs, ReadCRCIs
    DEF Next, Receive, CommandArrives, CommandLost, Call, PollLength, Forget, Return

LEMMA AuthenticStep ==
  ASSUME OKIsAuthentic, HeaderInv, [Next]_vars
  PROVE  OKIsAuthentic'
  <1> SUFFICES ASSUME pc' = "idle", ret' = "OK" PROVE answer'.status = "OK"
    BY DEF OKIsAuthentic
  <1>1. CASE UNCHANGED vars
    BY <1>1 DEF OKIsAuthentic, vars, device
  <1>2. CASE ReadCRC
    BY <1>2, ReadCRCIs DEF HeaderInv, Verified, device
  <1> QED
    BY <1>1, <1>2, OnlyCRC

\* Who reads a CRC that the driver delivers has used up neither what was
\* announced nor, before that, an element that was not full.
LEMMA AtCRC ==
  ASSUME Assumptions, TypeOK, FramesInv, FillInv, pc = "read_elements",
         current = Len(rsp.elements), ~Refused(2)
  PROVE  /\ request \in Requests /\ Kept \in 1..Len(request.rsp)
         /\ \A i \in 2..Kept : Full(i)
         /\ current = Kept + 1 => taken = Before(current)
  <1>1. /\ request \in Requests /\ Kept \in 1..Len(request.rsp) /\ Kept \in Nat \ {0}
        /\ Fillers \in 0..1 /\ CRCs = 1 /\ Len(rsp.elements) = Kept + Fillers + CRCs
    BY SecondReadIs DEF SecondRead, CRCs
  <1>2. /\ IF bus_type = "I2C" THEN asked = WithCRC(taken + received_length)
           ELSE asked = (taken + received_length + 1) % Word
        /\ received_length > 0 =>
                /\ \A i \in 2..Kept : i < current => Full(i)
                /\ current <= Kept + 1 => taken = Before(current)
    BY DEF FillInv, SecondRead
  <1>3. taken \in Nat /\ received_length \in Nat /\ asked \in Nat
    BY Sizes DEF TypeOK
  <1>4. 1 + taken + 2 <= asked
    BY <1>3 DEF Refused
  <1>5. asked <= taken + received_length + 2
    <2>1. taken + received_length + 2 \in Nat /\ taken + received_length + 1 \in Nat
      BY <1>3
    <2>2. /\ (taken + received_length + 2) % Word <= taken + received_length + 2
          /\ (taken + received_length + 1) % Word <= taken + received_length + 1
      BY <2>1, NoMoreThan, Sizes
    <2>3. CASE bus_type = "I2C"
      BY <1>2, <2>2, <2>3 DEF WithCRC
    <2>4. CASE bus_type # "I2C"
      BY <1>2, <1>3, <2>2, <2>4
    <2> QED
      BY <2>3, <2>4
  <1>6. received_length > 0
    BY <1>3, <1>4, <1>5
  <1>7. current = Kept + Fillers + 1
    BY <1>1
  <1>8. \A i \in 2..Kept : i < current
    BY <1>1, <1>7
  <1>9. current = Kept + 1 => current <= Kept + 1
    BY <1>1
  <1> QED
    BY <1>1, <1>2, <1>6, <1>8, <1>9

LEMMA FullStep ==
  ASSUME Assumptions, TypeOK, FramesInv, FillInv, HeaderInv, OKMeansFull, [Next]_vars
  PROVE  OKMeansFull'
  <1>1. OKIsAuthentic'
    BY AuthenticStep DEF OKMeansFull
  <1>2. ASSUME pc' = "idle", ret' = "OK"
        PROVE  \A i \in 2..Len(request'.rsp) : Full(i)'
    <2>1. CASE UNCHANGED vars
      BY <1>2, <2>1 DEF OKMeansFull, vars, frames, device, Full, Before
    <2>2. CASE ReadCRC
      <3>1. /\ pc = "read_elements" /\ current = Len(rsp.elements) /\ ~Refused(2)
            /\ header = "OK" /\ UNCHANGED <<request, content>>
        BY <1>2, <2>2, ReadCRCIs DEF device
      <3>2. \A i \in 2..Kept : Full(i)
        BY <3>1, AtCRC
      <3>3. Kept = Len(request.rsp)
        BY <3>1 DEF Kept, HeaderLeft
      <3>4. \A i : Full(i) <=> Full(i)'
        BY <3>1 DEF Full, Before
      <3> HIDE DEF Kept, Full
      <3> QED
        BY <3>1, <3>2, <3>3, <3>4
    <2> QED
      BY <1>2, <2>1, <2>2, OnlyCRC
  <1> QED
    BY <1>1, <1>2 DEF OKMeansFull

-----------------------------------------------------------------------------
(* The fault                                                               *)

\* A response that does not wrap a PLAT_UI16.
LRoomAssumption == \A r \in Requests : TotalLength(r.rsp) < Word

FaultIsExplained == pc = "fault" => length_damaged /\ answer.status = "ERROR" /\ bus_type = "I2C"

LEMMA RoomForHeader ==
  ASSUME Assumptions, LRoomAssumption, NEW r \in Requests
  PROVE  Frame(r.rsp).length >= 1
  <1>1. /\ r.rsp \in Seq(AnyElement) /\ Len(r.rsp) >= 1 /\ r.rsp[1].length = 1
    BY RequestFacts
  <1>2. \A e \in AnyElement : e.length \in Nat
    BY LengthsNat, Sizes DEF AnyElement
  <1>3. TotalLength(r.rsp) >= 1 /\ TotalLength(r.rsp) \in Nat /\ TotalLength(r.rsp) < Word
    BY <1>1, <1>2, TotalLengthFirst, TotalLengthNat DEF LRoomAssumption
  <1>4. TotalLength(r.rsp) % Word = TotalLength(r.rsp)
    BY <1>3, ModOnce, Sizes
  <1> QED
    BY <1>3, <1>4 DEF Frame

LEMMA HeaderAlone ==
  ASSUME Assumptions
  PROVE  LengthOf(0 + 3) = 1
  <1>1. Word \in Nat \ {0} /\ 1 \in 0..(Word - 1)
    BY Sizes
  <1>2. (1 + Word) % Word = 1
    BY <1>1, ModOnce
  <1>3. 0 + 3 + Word - 2 = 1 + Word
    BY <1>1
  <1> QED
    BY <1>2, <1>3 DEF LengthOf

LEMMA FaultStep ==
  ASSUME Assumptions, LRoomAssumption, TypeOK, FramesInv, FillInv, HeaderInv,
         FaultIsExplained, [Next]_vars
  PROVE  FaultIsExplained'
  <1> SUFFICES ASSUME pc' = "fault"
               PROVE  length_damaged' /\ answer'.status = "ERROR" /\ bus_type' = "I2C"
    BY DEF FaultIsExplained
  <1>1. CASE UNCHANGED vars
    BY <1>1 DEF vars, frames, device, FaultIsExplained
  <1>2. CASE ReadCRC
    <2>1. /\ pc = "read_elements" /\ current = Len(rsp.elements) /\ ~Refused(2)
          /\ ~damaged /\ taken = answer.payload
          /\ WithoutFiller(Pop(rsp)).elements = << >>
          /\ UNCHANGED <<bus_type, answer, length_damaged>>
      BY <1>2, ReadCRCIs DEF Verified, device
    <2>2. /\ request \in Requests /\ Len(request.rsp) \in Nat \ {0} /\ rsp \in AnyFrame
          /\ Kept \in Nat \ {0} /\ Fillers \in 0..1 /\ CRCs = 1
          /\ Len(rsp.elements) = Kept + Fillers + CRCs /\ Own(rsp.elements, Kept)
      BY <2>1, SecondReadIs DEF SecondRead, CRCs
    <2>3. bus_type = "I2C"
      <3> SUFFICES ASSUME bus_type # "I2C" PROVE FALSE
        OBVIOUS
      <3>1. bus_type = "ST1WIRE"
        BY Sizes DEF TypeOK
      <3>2. ~(filler_size > 0)
        BY <3>1 DEF FramesInv
      <3>3. Pop(rsp).elements = << >>
        BY <2>1, <3>2 DEF WithoutFiller
      <3>4. Len(Pop(rsp).elements) = Len(rsp.elements) - 1
        <4>1. Len(rsp.elements) >= 1
          BY <2>2
        <4> QED
          BY <2>2, <4>1, PopOwn
      <3>5. Len(rsp.elements) = Kept + Fillers + 1
        BY <2>2
      <3>6. Len(Pop(rsp).elements) = 0
        BY <3>3
      <3> QED
        BY <2>2, <3>4, <3>5, <3>6
    <2>4. HeaderLeft /\ filler_size > 0
      <3>1. /\ Cleaned(rsp) = WithoutFiller(Pop(rsp))
            /\ Cleaned(rsp).elements = << >> => HeaderLeft /\ filler_size > 0
        BY <2>1, <2>2, <2>3, CleanedOwn
      <3> QED
        BY <2>1, <3>1
    <2>5. header = "ERROR" /\ Kept = 1 /\ Fillers = 0
      BY <2>4 DEF HeaderLeft, Kept, Fillers
    <2>6. answer.status = "ERROR"
      BY <2>1, <2>5 DEF HeaderInv
    <2>7. taken = 0
      <3>1. current = 2
        BY <2>1, <2>2, <2>5
      <3>2. taken = Before(2)
        BY <2>1, <2>5, <3>1, AtCRC
      <3>3. Before(2) = 0
        BY <2>2, FirstElement DEF Before
      <3> QED
        BY <3>2, <3>3
    <2>8. length_damaged
      <3> SUFFICES ASSUME ~length_damaged PROVE FALSE
        OBVIOUS
      <3>1. LengthOf(answer.payload + 3) > Frame(request.rsp).length
        BY <2>1, <2>4 DEF FramesInv, SecondRead
      <3>2. LengthOf(answer.payload + 3) = 1
        BY <2>1, <2>7, HeaderAlone
      <3>3. Frame(request.rsp).length >= 1 /\ Frame(request.rsp).length \in Nat
        <4>1. Frame(request.rsp) \in AnyFrame
          BY <2>2, RequestFacts, FrameType
        <4> QED
          BY <2>2, <4>1, RoomForHeader, FrameFacts
      <3> QED
        BY <3>1, <3>2, <3>3
    <2> QED
      BY <2>1, <2>3, <2>6, <2>8
  <1>3. ~ReadCRC => UNCHANGED vars
    <2>1. ASSUME NEW outcomes, Attempt(outcomes) PROVE FALSE
      BY <2>1, AttemptSteps
    <2>2. ~PollLength
      BY DEF PollLength, Return
    <2>3. ~ReadElement
      <3>1. ASSUME ReadElement PROVE (pc' = pc /\ pc = "read_elements") \/ pc' = "idle"
        BY <3>1 DEF ReadElement, Return
      <3>2. ASSUME ReadElement PROVE FALSE
        BY <3>1, <3>2
      <3> QED
        BY <3>2
    <2>4. ~Forget /\ \A r \in Requests : ~Call(r)
      BY DEF Forget, Call, Return
    <2> QED
      BY <2>1, <2>2, <2>3, <2>4, ReadLengthIs, PollFrameIs, ReadHeaderI2CIs, ReadHeaderST1WireIs
      DEF Next, Receive, CommandArrives, CommandLost
  <1> QED
    BY <1>1, <1>2, <1>3

\* On a return over I2C the frames are the caller's.
LEMMA IdleIs ==
  ASSUME Assumptions, TypeOK, FramesInv, FaultIsExplained
  PROVE  FramesComeBack
  <1> SUFFICES ASSUME pc = "idle", bus_type = "I2C"
               PROVE  /\ cmd = Frame(request.cmd)
                      /\ {rsp.elements[i].name : i \in DOMAIN rsp.elements}
                             \subseteq {e.name : e \in ToSet(request.rsp)}
    BY DEF FramesComeBack, FaultIsExplained
  <1>1. cmd = Frame(request.cmd)
    BY DEF FramesInv
  <1>2. ASSUME NEW i \in DOMAIN rsp.elements
        PROVE  rsp.elements[i].name \in {e.name : e \in ToSet(request.rsp)}
    <2>1. i <= Len(request.rsp) /\ rsp.elements[i].name = request.rsp[i].name
      BY DEF FramesInv
    <2>2. request.rsp \in Seq(AnyElement)
      BY AnyRequest DEF TypeOK
    <2>3. i \in 1..Len(rsp.elements) /\ Len(rsp.elements) \in Nat
      BY FrameFacts DEF TypeOK, AnyFrame
    <2>4. i \in DOMAIN request.rsp
      BY <2>1, <2>2, <2>3
    <2>5. request.rsp[i] \in ToSet(request.rsp)
      BY <2>4 DEF ToSet
    <2> QED
      BY <2>1, <2>5
  <1> QED
    BY <1>1, <1>2

-----------------------------------------------------------------------------
(* The theorems                                                            *)

IInv == /\ TypeOK /\ FramesInv /\ FillInv
        /\ HeaderInv /\ OKMeansFull

LEMMA InvInit ==
  ASSUME Assumptions, Init
  PROVE  IInv
  <1>1. pc = "idle" /\ ret # "OK"
    BY DEF Init
  <1>2. FillInv
    BY <1>1 DEF FillInv, SecondRead
  <1>3. HeaderInv /\ OKMeansFull
    BY <1>1 DEF HeaderInv, OKMeansFull, OKIsAuthentic
  <1> QED
    BY <1>2, <1>3, TypeInit, InitFrames DEF IInv

LEMMA InvStep ==
  ASSUME Assumptions, IInv, [Next]_vars
  PROVE  IInv'
  <1>1. TypeOK' /\ FramesInv'
    BY TypeStep, FramesStep DEF IInv
  <1>2. FillInv'
    BY <1>1, FillStep DEF IInv
  <1>3. HeaderInv' /\ OKMeansFull'
    BY HeaderStep, FullStep DEF IInv
  <1> QED
    BY <1>1, <1>2, <1>3 DEF IInv

\* Types, frames, elements and header, in every state of a transfer, for any
\* requests whose elements are structures of their own.
THEOREM Inductive == ASSUME Assumptions PROVE Spec => []IInv
  <1>1. Init => IInv
    BY InvInit
  <1>2. IInv /\ [Next]_vars => IInv'
    BY InvStep
  <1> QED
    BY <1>1, <1>2, PTL DEF Spec

\* Lengths, retries and the bytes asked for stay in the range of their C types,
\* whatever length an answer announces (TypeOK).
THEOREM TypeCorrect == ASSUME Assumptions PROVE Spec => []TypeOK
  <1>1. IInv => TypeOK
    BY DEF IInv
  <1> QED
    BY <1>1, Inductive, PTL

\* stsafel_frame_raw_transfer returns STSE_OK only when the answer says so: over
\* I2C although header and length are acted upon before the CRC is checked, over
\* ST1-Wire although the outcome of the polling is ignored.  Nothing is assumed.
THEOREM OKAuthentic == Spec => []OKIsAuthentic
  <1>1. Init => OKIsAuthentic /\ HeaderInv
    BY DEF Init, OKIsAuthentic, HeaderInv
  <1>2. OKIsAuthentic /\ HeaderInv /\ [Next]_vars => OKIsAuthentic' /\ HeaderInv'
    BY AuthenticStep, HeaderStep
  <1> QED
    BY <1>1, <1>2, PTL DEF Spec

\* An STSE_OK fills every element of the response with its own part of the
\* payload: no answer that is shorter than expected, and no length that is
\* damaged or wraps, passes (OKMeansFull).
THEOREM OKFull == ASSUME Assumptions PROVE Spec => []OKMeansFull
  <1>1. IInv => OKMeansFull
    BY DEF IInv
  <1> QED
    BY <1>1, Inductive, PTL

\* Over I2C every return gives the caller its frames back, and the receiver only
\* faults on an error answer whose length was damaged, for responses whose
\* length does not wrap (FramesComeBack).
THEOREM FramesReturned ==
  ASSUME Assumptions, LRoomAssumption
  PROVE  Spec => []FramesComeBack
  <1> DEFINE Inv == IInv /\ FaultIsExplained
  <1>1. Init => Inv
    BY InvInit DEF Init, FaultIsExplained
  <1>2. Inv /\ [Next]_vars => Inv'
    BY InvStep, FaultStep DEF IInv
  <1>3. Inv => FramesComeBack
    BY IdleIs DEF IInv
  <1> QED
    BY <1>1, <1>2, <1>3, PTL DEF Spec
===============================================================================
