-------------------------- MODULE JsonRpcConnProofs --------------------------
(***************************************************************************)
(* Proofs about JsonRpcConn, for every value of its constants: the type    *)
(* invariant, and the framer's contract NoPendingLineWhenIdle.             *)
(***************************************************************************)
EXTENDS JsonRpcConn, SequenceTheorems, WellFoundedInduction, TLAPS

-----------------------------------------------------------------------------
(* A non-empty set of naturals has a least element (so the CHOOSE of      *)
(* NewlineIndex, memchr's first '\n', is well defined).                   *)
LEMMA LeastElement ==
  ASSUME NEW T \in SUBSET Nat, T # {}
  PROVE  \E i \in T : \A j \in T : i <= j
<1>1. PICK x \in T : \A y \in T : ~(<<y, x>> \in OpToRel(<, Nat))
  BY NatLessThanWellFounded, WFMin
<1>2. OpToRel(<, Nat) = {ss \in Nat \X Nat : ss[1] < ss[2]}
  BY DEF OpToRel
<1>3. \A y \in T : ~(y < x)
  BY <1>1, <1>2
<1>. QED  BY <1>3

(* NewlineIndex is the position of the first LF of the buffer. *)
LEMMA NewlineIndexFirst ==
  ASSUME inbound \in Seq(Byte), LFs(inbound) # {}
  PROVE  /\ NewlineIndex \in 1..Len(inbound)
         /\ inbound[NewlineIndex] = LF
         /\ \A j \in 1..NewlineIndex - 1 : inbound[j] # LF
<1>1. LFs(inbound) \in SUBSET Nat
  BY DEF LFs
<1>2. NewlineIndex \in LFs(inbound) /\ \A j \in LFs(inbound) : NewlineIndex <= j
  BY <1>1, LeastElement DEF NewlineIndex
<1>. QED  BY <1>2 DEF LFs

(* The line handed to the parser holds no LF, and what is left after    *)
(* rpc_buffer_consume is still a byte string.                          *)
LEMMA CurLineType ==
  ASSUME inbound \in Seq(Byte), LFs(inbound) # {}
  PROVE  /\ LineLen(NewlineIndex) \in 0..NewlineIndex - 1
         /\ CurLine \in Seq(Byte)
         /\ Len(CurLine) = LineLen(NewlineIndex)
         /\ \A i \in 1..Len(CurLine) : CurLine[i] # LF
         /\ Consume(inbound, NewlineIndex) \in Seq(Byte)
<1>1. NewlineIndex \in 1..Len(inbound) /\ \A j \in 1..NewlineIndex - 1 : inbound[j] # LF
  BY NewlineIndexFirst
<1>2. LineLen(NewlineIndex) \in 0..NewlineIndex - 1
  BY <1>1 DEF LineLen
<1>3. /\ CurLine \in Seq(Byte)
      /\ Len(CurLine) = LineLen(NewlineIndex)
      /\ \A i \in 1..LineLen(NewlineIndex) : CurLine[i] = inbound[i]
  BY <1>1, <1>2, SubSeqProperties DEF CurLine
<1>4. Consume(inbound, NewlineIndex) \in Seq(Byte)
  BY <1>1, SubSeqProperties DEF Consume
<1>. QED  BY <1>1, <1>2, <1>3, <1>4

(* json_parse_string on an LF-free line gives a JSON text or an error. *)
LEMMA ParseType ==
  ASSUME NEW l \in Seq(Byte), \A i \in 1..Len(l) : l[i] # LF
  PROVE  Parse(l) \in JsonTexts \cup {ParseError}
<1>1. CASE \E i \in NonBlank(l) : NonBlank(l) = {i}
  <2>1. PICK k \in NonBlank(l) : NonBlank(l) = {k}
    BY <1>1
  <2>2. (CHOOSE i \in NonBlank(l) : TRUE) = k
    BY <2>1
  <2>3. k \in 1..Len(l) /\ l[k] # CR
    BY <2>1 DEF NonBlank
  <2>4. l[k] \in JsonTexts
    BY <2>3 DEF Byte
  <2>. QED  BY <1>1, <2>2, <2>4 DEF Parse
<1>2. CASE ~\E i \in NonBlank(l) : NonBlank(l) = {i}
  BY <1>2 DEF Parse
<1>. QED  BY <1>1, <1>2

-----------------------------------------------------------------------------
(* Every envelope jsonrpc_build_error, jsonrpc_build_result and           *)
(* jsonrpc_process_object build carries an id of a response and an       *)
(* integer code.                                                          *)
LEMMA RespTypes ==
  /\ \A id : \A code \in Int : BuildError(id, code) \in Resp
  /\ \A id : BuildResult(id) \in Resp
  /\ \A v : \A o \in Outcome : ProcessObject(v, o) \in Resp \cup {None}
<1>1. \A id : CopyId(id) \in IdVals \cup {JNull}
  BY DEF CopyId
<1>2. \A id : \A code \in Int : BuildError(id, code) \in Resp
  BY <1>1 DEF BuildError, Resp
<1>3. \A id : BuildResult(id) \in Resp
  BY <1>1 DEF BuildResult, Resp
<1>4. \A id : \A o \in Outcome : HandlerReply(id, o) \in Resp
  <2>. SUFFICES ASSUME NEW id, NEW o \in Outcome PROVE HandlerReply(id, o) \in Resp
    OBVIOUS
  <2>1. o.code \in {0} \cup HandlerCodes
    BY DEF Outcome
  <2>2. o.code \in Int
    <3>1. {0} \cup HandlerCodes \subseteq Int
      BY HandlerCodesAssumption
    <3>. QED  BY <2>1, <3>1
  <2>3. {ERR_METHOD_NOT_FOUND, ERR_INTERNAL} \subseteq Int
    BY DEF ERR_METHOD_NOT_FOUND, ERR_INTERNAL
  <2>. QED  BY <1>2, <1>3, <2>2, <2>3 DEF HandlerReply
<1>5. \A v : \A o \in Outcome : ProcessObject(v, o) \in Resp \cup {None}
  BY <1>2, <1>4 DEF ProcessObject, ERR_INVALID_REQUEST, ERR_INVALID_PARAMS,
     ERR_METHOD_NOT_FOUND
<1>. QED  BY <1>2, <1>3, <1>5

(* A value whose type tag is "object" is an Object, one tagged "array" at *)
(* the top level is a Batch.                                               *)
LEMMA ValueByType ==
  /\ \A v \in TopValue \cup Element : v.type = "object" => v \in Object
  /\ \A v \in TopValue : v.type = "array" => v \in Batch
BY DEF TopValue, Element, Object, Other, Batch

(* on_notification is only given the method of a request object, and     *)
(* on_request only outcomes it may produce.                                *)
LEMMA CallTypes ==
  ASSUME NEW v \in TopValue \cup Element
  PROVE  /\ NotifyCalls(v) \in Seq(Methods)
         /\ Outcomes(v) \subseteq Outcome
<1>1. ~InvalidRequest(v) => v \in Object /\ v.method \in Methods
  BY ValueByType DEF InvalidRequest, Object, Absent
<1>2. NotifyCalls(v) \in Seq(Methods)
  BY <1>1 DEF NotifyCalls
<1>3. CallsOnRequest(v) => OnRequest(v.method, v.params) \subseteq Outcome
  BY <1>1, OnRequestAssumption DEF CallsOnRequest, Object
<1>4. NoCall \in Outcome
  BY DEF NoCall, Outcome
<1>. QED  BY <1>2, <1>3, <1>4 DEF Outcomes

-----------------------------------------------------------------------------
(* The wire lines every step may hand to transport.send_raw. *)
LEMMA WireTypes ==
  /\ \A code \in Int : Single(BuildError(Absent, code)) \in Wire
  /\ \A r \in Resp : Single(r) \in Wire
  /\ \A rs \in Seq(Resp) : BatchOf(rs) \in Wire
BY RespTypes DEF Single, BatchOf, Wire

(* The type of the connection is established by jsonrpc_conn_new's  *)
(* predecessor state and kept by every step.                        *)
LEMMA TypeInit == Init => TypeOK
<1>. SUFFICES ASSUME Init PROVE TypeOK
  OBVIOUS
<1>1. work \in Work
  <2>1. <<>> \in Seq(Byte) /\ <<>> \in Seq(Element) /\ <<>> \in Seq(Resp) /\ 1 \in Nat \ {0}
    OBVIOUS
  <2>. QED  BY <2>1 DEF Init, Work
<1>2. <<>> \in Seq(Wire) /\ <<>> \in Seq(Methods) /\ <<>> \in Seq(Frame) /\ <<>> \in Seq(Byte)
  OBVIOUS
<1>. QED  BY <1>1, <1>2 DEF Init, TypeOK

(* Emit keeps out a sequence of wire lines. *)
LEMMA EmitType ==
  ASSUME out \in Seq(Wire), NEW w \in Wire, NEW ok \in BOOLEAN, Emit(w, ok)
  PROVE  out' \in Seq(Wire)
BY DEF Emit

(* The steps of the feed that do not parse a line. *)
LEMMA TypeFeed ==
  ASSUME TypeOK, NEW chunk \in Chunks, FeedTooLarge(chunk) \/ FeedAppend(chunk)
  PROVE  TypeOK'
<1>1. chunk \in Seq(Byte)
  BY ChunksAssumption
<1>2. CASE FeedTooLarge(chunk)
  <2>1. Single(BuildError(Absent, ERR_INVALID_REQUEST)) \in Wire
    BY WireTypes DEF ERR_INVALID_REQUEST
  <2>2. out' \in Seq(Wire)
    BY <1>2, <2>1, FlagsAssumption, EmitType DEF FeedTooLarge, SendOutcomes, TypeOK
  <2>. QED  BY <1>1, <1>2, <2>2, FlagsAssumption DEF FeedTooLarge, CloseTransport, TypeOK
<1>3. CASE FeedAppend(chunk)
  BY <1>1, <1>3 DEF FeedAppend, TypeOK
<1>. QED  BY <1>2, <1>3

(* The control and transport state after a reply was sent. *)
LEMMA AfterSendType ==
  ASSUME transport \in {"open", "closing"}, NEW ok \in BOOLEAN, AfterSend(ok)
  PROVE  pc' \in {"idle", "frame", "batch"} /\ transport' \in {"open", "closing"}
BY DEF AfterSend

(* The steps of the feed loop that do not dispatch a value. *)
LEMMA TypeFrame ==
  ASSUME TypeOK, FrameNoLine \/ FrameEmptyLine \/ FrameTooLarge \/ FrameParseError
  PROVE  TypeOK'
<1>1. CASE FrameNoLine
  BY <1>1 DEF FrameNoLine, TypeOK
<1>2. CASE FrameEmptyLine
  BY <1>2, CurLineType DEF FrameEmptyLine, TypeOK
<1>3. CASE FrameTooLarge
  <2>1. Single(BuildError(Absent, ERR_INVALID_REQUEST)) \in Wire
    BY WireTypes DEF ERR_INVALID_REQUEST
  <2>2. out' \in Seq(Wire)
    BY <1>3, <2>1, FlagsAssumption, EmitType DEF FrameTooLarge, SendOutcomes, TypeOK
  <2>. QED  BY <1>3, <2>2, FlagsAssumption DEF FrameTooLarge, CloseTransport, TypeOK
<1>4. CASE FrameParseError
  <2>1. inbound \in Seq(Byte) /\ LFs(inbound) # {}
    BY <1>4 DEF FrameParseError, IsMessage, TypeOK
  <2>2. CurLine \in Seq(Byte) /\ Consume(inbound, NewlineIndex) \in Seq(Byte)
    BY <2>1, CurLineType
  <2>3. Single(BuildError(Absent, ERR_PARSE)) \in Wire
    BY WireTypes DEF ERR_PARSE
  <2>4. [line |-> CurLine, value |-> ParseError,
         reply |-> Single(BuildError(Absent, ERR_PARSE))] \in Frame
    BY <2>2, <2>3 DEF Frame
  <2>5. PICK ok \in SendOutcomes :
          Emit(Single(BuildError(Absent, ERR_PARSE)), ok) /\ AfterSend(ok)
    BY <1>4 DEF FrameParseError
  <2>6. ok \in BOOLEAN
    BY FlagsAssumption DEF SendOutcomes
  <2>7. out' \in Seq(Wire)
    BY <2>3, <2>5, <2>6, EmitType DEF TypeOK
  <2>8. pc' \in {"idle", "frame", "batch"} /\ transport' \in {"open", "closing"}
    BY <2>5, <2>6, AfterSendType DEF TypeOK
  <2>. QED  BY <1>4, <2>2, <2>4, <2>7, <2>8 DEF FrameParseError, TypeOK
<1>. QED  BY <1>1, <1>2, <1>3, <1>4

(* A line dispatched as one value: the value is a JSON text (the line *)
(* holds no LF), its reply an envelope, its notifications methods.    *)
LEMMA TypeFrameSingle ==
  ASSUME TypeOK, FrameSingle
  PROVE  TypeOK'
<1>1. inbound \in Seq(Byte) /\ LFs(inbound) # {}
  BY DEF FrameSingle, IsMessage, TypeOK
<1>2. /\ CurLine \in Seq(Byte)
      /\ \A i \in 1..Len(CurLine) : CurLine[i] # LF
      /\ Consume(inbound, NewlineIndex) \in Seq(Byte)
  BY <1>1, CurLineType
<1>. DEFINE v == Parse(CurLine)
            R(oo) == IF v.type = "array" THEN BuildError(Absent, ERR_INVALID_REQUEST)
                     ELSE ProcessObject(v, oo)
<1>3. v \in JsonTexts \cup {ParseError}
  BY <1>2, ParseType
<1>4. v # ParseError
  BY DEF FrameSingle
<1>5. v \in TopValue
  BY <1>3, <1>4, JsonTextsAssumption
<1>6. NotifyCalls(v) \in Seq(Methods) /\ Outcomes(v) \subseteq Outcome
  BY <1>5, CallTypes
<1>7. PICK o \in Outcomes(v) :
        /\ notified' = notified \o NotifyCalls(v)
        /\ served' = Append(served, [line |-> CurLine, value |-> v,
                                     reply |-> IF R(o) = None THEN None ELSE Single(R(o))])
        /\ IF R(o) = None
           THEN /\ pc' = "frame"
                /\ UNCHANGED <<out, transport>>
           ELSE \E ok \in SendOutcomes : Emit(Single(R(o)), ok) /\ AfterSend(ok)
  BY DEF FrameSingle
<1>8. R(o) \in Resp \cup {None}
  <2>1. o \in Outcome
    BY <1>6
  <2>. QED  BY <2>1, RespTypes DEF ERR_INVALID_REQUEST
<1>9. R(o) # None => Single(R(o)) \in Wire
  BY <1>8, WireTypes
<1>10. notified' \in Seq(Methods)
  BY <1>6, <1>7 DEF TypeOK
<1>11. served' \in Seq(Frame)
  BY <1>2, <1>5, <1>7, <1>9 DEF Frame, TypeOK
<1>12. /\ out' \in Seq(Wire)
       /\ pc' \in {"idle", "frame", "batch"}
       /\ transport' \in {"open", "closing"}
  <2>1. CASE R(o) = None
    BY <1>7, <2>1 DEF TypeOK
  <2>2. CASE R(o) # None
    <3>1. PICK ok \in SendOutcomes : Emit(Single(R(o)), ok) /\ AfterSend(ok)
      BY <1>7, <2>2
    <3>2. ok \in BOOLEAN
      BY FlagsAssumption DEF SendOutcomes
    <3>. QED  BY <1>9, <2>2, <3>1, <3>2, EmitType, AfterSendType DEF TypeOK
  <2>. QED  BY <2>1, <2>2
<1>. QED  BY <1>2, <1>10, <1>11, <1>12 DEF FrameSingle, TypeOK

(* A non-empty array starts the batch loop with its elements. *)
LEMMA TypeFrameBatchStart ==
  ASSUME TypeOK, FrameBatchStart
  PROVE  TypeOK'
<1>1. inbound \in Seq(Byte) /\ LFs(inbound) # {}
  BY DEF FrameBatchStart, IsMessage, TypeOK
<1>2. /\ CurLine \in Seq(Byte)
      /\ \A i \in 1..Len(CurLine) : CurLine[i] # LF
      /\ Consume(inbound, NewlineIndex) \in Seq(Byte)
  BY <1>1, CurLineType
<1>. DEFINE v == Parse(CurLine)
<1>3. v \in TopValue /\ v.type = "array"
  BY <1>2, ParseType, JsonTextsAssumption DEF FrameBatchStart
<1>4. v.elems \in Seq(Element)
  BY <1>3, ValueByType DEF Batch
<1>5. work' \in Work
  BY <1>2, <1>4 DEF FrameBatchStart, Work
<1>. QED  BY <1>2, <1>5 DEF FrameBatchStart, TypeOK

(* One element of the batch loop; the end of the batch. *)
LEMMA TypeBatch ==
  ASSUME TypeOK, BatchItem \/ BatchEndSilent \/ BatchEndSend
  PROVE  TypeOK'
<1>1. CASE BatchItem
  <2>. DEFINE e == work.elems[work.idx]
  <2>1. work.idx <= Len(work.elems)
    BY <1>1, Zenon DEF BatchItem
  <2>2. work.elems \in Seq(Element) /\ work.idx \in 1..Len(work.elems)
    BY <2>1 DEF TypeOK, Work
  <2>3. e \in Element
    BY <2>2
  <2>4. NotifyCalls(e) \in Seq(Methods) /\ Outcomes(e) \subseteq Outcome
    BY <2>3, CallTypes
  <2>5. PICK o \in Outcomes(e) :
          /\ work' = [work EXCEPT !.idx = @ + 1,
                                  !.acc = IF ProcessObject(e, o) = None THEN @
                                          ELSE Append(@, ProcessObject(e, o))]
          /\ notified' = notified \o NotifyCalls(e)
    BY <1>1 DEF BatchItem
  <2>. DEFINE acc1 == IF ProcessObject(e, o) = None THEN work.acc
                       ELSE Append(work.acc, ProcessObject(e, o))
  <2>6. acc1 \in Seq(Resp)
    <3>1. ProcessObject(e, o) \in Resp \cup {None}
      BY <2>4, RespTypes
    <3>. QED  BY <3>1 DEF TypeOK, Work
  <2>7. work' = [line |-> work.line, elems |-> work.elems, idx |-> work.idx + 1,
                 acc |-> acc1]
    BY <2>5, Zenon DEF TypeOK, Work
  <2>8. work' \in Work
    BY <2>2, <2>6, <2>7 DEF TypeOK, Work
  <2>9. notified' \in Seq(Methods)
    <3>1. notified' = notified \o NotifyCalls(e)
      BY <2>5
    <3>. QED  BY <2>4, <3>1 DEF TypeOK
  <2>. QED  BY <1>1, <2>8, <2>9 DEF BatchItem, TypeOK
<1>2. BatchValue \in TopValue
  BY DEF BatchValue, TypeOK, Work, TopValue, Batch
<1>3. CASE BatchEndSilent
  <2>1. [line |-> work.line, value |-> BatchValue, reply |-> None] \in Frame
    BY <1>2 DEF TypeOK, Work, Frame
  <2>2. /\ served' = Append(served, [line |-> work.line, value |-> BatchValue,
                                     reply |-> None])
        /\ pc' = "frame"
    BY <1>3, Zenon DEF BatchEndSilent
  <2>3. served' \in Seq(Frame)
    BY <2>1, <2>2 DEF TypeOK
  <2>. QED  BY <1>3, <2>2, <2>3 DEF BatchEndSilent, TypeOK
<1>4. CASE BatchEndSend
  <2>1. BatchOf(work.acc) \in Wire
    BY WireTypes DEF TypeOK, Work
  <2>2. [line |-> work.line, value |-> BatchValue, reply |-> BatchOf(work.acc)] \in Frame
    BY <1>2, <2>1 DEF TypeOK, Work, Frame
  <2>3. PICK ok \in SendOutcomes : Emit(BatchOf(work.acc), ok) /\ AfterSend(ok)
    BY <1>4 DEF BatchEndSend
  <2>4. ok \in BOOLEAN
    BY FlagsAssumption DEF SendOutcomes
  <2>5. /\ out' \in Seq(Wire)
        /\ pc' \in {"idle", "frame", "batch"}
        /\ transport' \in {"open", "closing"}
    BY <2>1, <2>3, <2>4, EmitType, AfterSendType DEF TypeOK
  <2>6. /\ served' = Append(served, [line |-> work.line, value |-> BatchValue,
                                     reply |-> BatchOf(work.acc)])
        /\ UNCHANGED <<phase, inbound, work, closed, notified, opened, closes,
                       fed, accepted, rejected>>
    BY <1>4, Zenon DEF BatchEndSend
  <2>7. served' \in Seq(Frame)
    BY <2>2, <2>6 DEF TypeOK
  <2>. QED  BY <2>5, <2>6, <2>7 DEF TypeOK
<1>. QED  BY <1>1, <1>3, <1>4

(* The lifecycle and the transport's own close. *)
LEMMA TypeLifecycle ==
  ASSUME TypeOK, ConnNew \/ TransportClose \/ ConnFree
  PROVE  TypeOK'
<1>1. CASE ConnNew
  <2>1. opened' \in Nat
    BY <1>1 DEF ConnNew, TypeOK
  <2>. QED  BY <1>1, <2>1 DEF ConnNew, TypeOK
<1>2. CASE TransportClose
  BY <1>2 DEF TransportClose, TypeOK
<1>3. CASE ConnFree
  <2>1. closes' \in Nat
    BY <1>3 DEF ConnFree, TypeOK
  <2>. QED  BY <1>3, <2>1 DEF ConnFree, TypeOK
<1>. QED  BY <1>1, <1>2, <1>3

(* jsonrpc_conn_send_result and jsonrpc_conn_send_error. *)
LEMMA TypeSendOutOfBand ==
  ASSUME TypeOK, NEW r \in Resp, SendOutOfBand(r)
  PROVE  TypeOK'
<1>1. PICK ok \in SendOutcomes : Emit(Single(r), ok)
  BY DEF SendOutOfBand
<1>2. out' \in Seq(Wire)
  BY <1>1, FlagsAssumption, WireTypes, EmitType DEF SendOutcomes, TypeOK
<1>. QED  BY <1>2 DEF SendOutOfBand, TypeOK

LEMMA TypeSends ==
  ASSUME TypeOK,
         \/ \E id \in OobIds : SendResult(id)
         \/ \E id \in OobIds, code \in HandlerCodes : SendError(id, code)
  PROVE  TypeOK'
<1>1. HandlerCodes \subseteq Int
  BY HandlerCodesAssumption
<1>. QED  BY <1>1, RespTypes, TypeSendOutOfBand DEF SendResult, SendError

(* Every step of Next keeps the type. *)
LEMMA TypeNext == TypeOK /\ [Next]_vars => TypeOK'
<1>. SUFFICES ASSUME TypeOK, [Next]_vars PROVE TypeOK'
  OBVIOUS
<1>1. CASE UNCHANGED vars
  BY <1>1 DEF vars, TypeOK
<1>. QED  BY <1>1, TypeFeed, TypeFrame, TypeFrameSingle, TypeFrameBatchStart,
            TypeBatch, TypeLifecycle, TypeSends DEF Next, Loop

(* The type invariant of a jsonrpc_conn_t: every reachable state has its *)
(* buffer a byte string, every dispatched value a JSON value and every   *)
(* line handed to send_raw a response or a batch of responses.           *)
THEOREM TypeCorrect == Spec => []TypeOK
BY TypeInit, TypeNext, PTL DEF Spec

-----------------------------------------------------------------------------
(* NoPendingLineWhenIdle is not inductive alone: jsonrpc_conn_new must   *)
(* find an empty buffer and a feed loop that is not running.             *)
UnbornIdle == phase = "unborn" => pc = "idle" /\ inbound = <<>>
IInv == TypeOK /\ UnbornIdle /\ NoPendingLineWhenIdle

(* A step that leaves the loop after a reply has closed the transport. *)
LEMMA AfterSendLeaves ==
  ASSUME NEW ok, AfterSend(ok)
  PROVE  pc' = "idle" => transport' = "closing"
BY DEF AfterSend

LEMMA PendingInit == Init => IInv
BY TypeInit DEF Init, IInv, UnbornIdle, NoPendingLineWhenIdle

(* The feed loop leaves an open transport only when no LF is left. *)
LEMMA PendingLoop ==
  ASSUME IInv, Loop
  PROVE  IInv'
<1>1. TypeOK'
  BY TypeFrame, TypeFrameSingle, TypeFrameBatchStart, TypeBatch DEF IInv, Loop
<1>2. pc \in {"frame", "batch"} /\ phase' = phase
  BY Zenon DEF Loop, FrameNoLine, FrameEmptyLine, FrameTooLarge, FrameParseError,
     IsMessage, FrameSingle, FrameBatchStart, BatchItem, BatchEndSilent, BatchEndSend
<1>3. UnbornIdle'
  BY <1>2 DEF IInv, UnbornIdle
<1>4. pc' = "idle" /\ transport' = "open" /\ HasClose => LFs(inbound') = {}
  <2>1. CASE FrameNoLine
    BY <2>1 DEF FrameNoLine
  <2>2. CASE FrameTooLarge
    BY <2>2, FlagsAssumption DEF FrameTooLarge, CloseTransport
  <2>3. CASE FrameParseError
    <3>1. PICK ok \in SendOutcomes : AfterSend(ok)
      BY <2>3 DEF FrameParseError
    <3>. QED  BY <3>1, AfterSendLeaves
  <2>4. CASE FrameSingle
    <3>1. pc' = "frame" \/ \E ok \in SendOutcomes : AfterSend(ok)
      BY <2>4 DEF FrameSingle
    <3>. QED  BY <3>1, AfterSendLeaves
  <2>5. CASE BatchEndSend
    <3>1. PICK ok \in SendOutcomes : AfterSend(ok)
      BY <2>5 DEF BatchEndSend
    <3>. QED  BY <3>1, AfterSendLeaves
  <2>6. CASE FrameEmptyLine \/ FrameBatchStart \/ BatchItem \/ BatchEndSilent
    BY <2>6, Zenon DEF FrameEmptyLine, FrameBatchStart, BatchItem, BatchEndSilent
  <2>. QED  BY <2>1, <2>2, <2>3, <2>4, <2>5, <2>6 DEF Loop
<1>. QED  BY <1>1, <1>3, <1>4 DEF IInv, NoPendingLineWhenIdle

(* The steps outside the loop: a refused feed closes, an accepted one  *)
(* enters the loop, jsonrpc_conn_new starts from an empty buffer.      *)
LEMMA PendingOther ==
  ASSUME IInv,
         \/ ConnNew \/ TransportClose \/ ConnFree
         \/ \E chunk \in Chunks : FeedTooLarge(chunk) \/ FeedAppend(chunk)
         \/ \E id \in OobIds : SendResult(id)
         \/ \E id \in OobIds, code \in HandlerCodes : SendError(id, code)
  PROVE  IInv'
<1>1. TypeOK'
  BY TypeLifecycle, TypeFeed, TypeSends DEF IInv
<1>2. CASE ConnNew
  <2>1. inbound' = <<>> /\ phase' = "live"
    BY <1>2 DEF ConnNew, IInv, UnbornIdle
  <2>. QED  BY <1>1, <2>1 DEF IInv, UnbornIdle, NoPendingLineWhenIdle, LFs
<1>3. CASE TransportClose \/ ConnFree
  BY <1>1, <1>3 DEF TransportClose, ConnFree, IInv, UnbornIdle, NoPendingLineWhenIdle
<1>4. ASSUME NEW chunk \in Chunks, FeedTooLarge(chunk) PROVE IInv'
  BY <1>1, <1>4, FlagsAssumption
  DEF FeedTooLarge, CanFeed, CloseTransport, IInv, UnbornIdle, NoPendingLineWhenIdle
<1>5. ASSUME NEW chunk \in Chunks, FeedAppend(chunk) PROVE IInv'
  BY <1>1, <1>5 DEF FeedAppend, CanFeed, IInv, UnbornIdle, NoPendingLineWhenIdle
<1>6. ASSUME NEW r, SendOutOfBand(r) PROVE IInv'
  BY <1>1, <1>6 DEF SendOutOfBand, IInv, UnbornIdle, NoPendingLineWhenIdle
<1>. QED  BY <1>2, <1>3, <1>4, <1>5, <1>6 DEF SendResult, SendError

LEMMA PendingNext == IInv /\ [Next]_vars => IInv'
<1>. SUFFICES ASSUME IInv, [Next]_vars PROVE IInv'
  OBVIOUS
<1>1. CASE UNCHANGED vars
  BY <1>1 DEF vars, IInv, TypeOK, UnbornIdle, NoPendingLineWhenIdle, LFs
<1>. QED  BY <1>1, PendingLoop, PendingOther DEF Next

(* The framer's contract: whenever jsonrpc_conn_feed has returned on an *)
(* open transport (one whose close works), every complete line of the  *)
(* input has been taken out of the inbound buffer and dispatched.      *)
THEOREM NoPendingLine == Spec => []NoPendingLineWhenIdle
<1>1. IInv => NoPendingLineWhenIdle
  BY DEF IInv
<1>. QED  BY PendingInit, PendingNext, <1>1, PTL DEF Spec
=============================================================================
