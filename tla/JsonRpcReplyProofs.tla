------------------------- MODULE JsonRpcReplyProofs -------------------------
(***************************************************************************)
(* Proof that every frame jsonrpc_conn_feed dispatches gets the reply      *)
(* JSON-RPC 2.0 asks for (RepliesConform), for every value of the          *)
(* constants: every set of methods, ids, callbacks and handler outcomes.   *)
(***************************************************************************)
EXTENDS JsonRpcConnProofs

USE IdValsAssumption, MethodsAssumption

-----------------------------------------------------------------------------
(* jsonrpc_copy_id keeps the id of a well-formed request. *)
LEMMA CopyIdKeeps ==
  ASSUME NEW id \in IdVals \cup {JNull}
  PROVE  CopyId(id) = id
BY DEF CopyId, JNull, Absent, BadId, None

(* The validator of jsonrpc_process_object rejects exactly the elements   *)
(* that are not well-formed requests.                                      *)
LEMMA InvalidIffIllFormed ==
  ASSUME NEW e \in Element
  PROVE  InvalidRequest(e) <=> ~WellFormed(e)
<1>1. CASE e \in Object
  BY <1>1 DEF InvalidRequest, WellFormed, IdIsValid, Object
<1>2. CASE e \in Other
  BY <1>2 DEF InvalidRequest, WellFormed, Other
<1>. QED  BY <1>1, <1>2 DEF Element

(* jsonrpc_process_object answers an element exactly when it is not a      *)
(* notification, and then with the id and the code JSON-RPC 2.0 asks for.  *)
LEMMA ObjectAnswer ==
  ASSUME NEW e \in Element, NEW o \in Outcome
  PROVE  /\ ProcessObject(e, o) = None <=> IsNotification(e)
         /\ ProcessObject(e, o) # None => Answers(ProcessObject(e, o), e)
<1>. DEFINE r == ProcessObject(e, o)
<1>1. CASE InvalidRequest(e)
  <2>1. ~WellFormed(e)
    BY <1>1, InvalidIffIllFormed
  <2>2. r = [id |-> JNull, code |-> ERR_INVALID_REQUEST]
    BY <1>1 DEF ProcessObject, BuildError, CopyId, Absent, JNull
  <2>. QED  BY <2>1, <2>2 DEF IsNotification, Answers, ReplyId, None
<1>2. CASE ~InvalidRequest(e)
  <2>1. WellFormed(e) /\ e \in Object
    BY <1>2, InvalidIffIllFormed DEF InvalidRequest, Element, Other
  <2>2. e.id # Absent => CopyId(e.id) = e.id
    BY <2>1, CopyIdKeeps DEF WellFormed
  <2>3. ReplyId(e) = e.id
    BY <2>1 DEF ReplyId
  <2>4. CASE ~ParamsIsValid(e.params)
    <3>1. CASE e.id = Absent
      BY <1>2, <2>1, <2>4, <3>1 DEF ProcessObject, IsNotification
    <3>2. CASE e.id # Absent
      <4>1. r = [id |-> e.id, code |-> ERR_INVALID_PARAMS]
        BY <1>2, <2>2, <2>4, <3>2 DEF ProcessObject, BuildError
      <4>. QED  BY <2>1, <2>3, <3>2, <4>1 DEF IsNotification, Answers, None
    <3>. QED  BY <3>1, <3>2
  <2>5. CASE ParamsIsValid(e.params)
    <3>1. e.params # "scalar"
      BY <2>5 DEF ParamsIsValid, Absent
    <3>2. CASE e.id = Absent
      BY <1>2, <2>1, <2>5, <3>2 DEF ProcessObject, IsNotification
    <3>3. CASE e.id # Absent
      <4>1. r.id = e.id /\ r # None
        <5>1. CASE "on_request" \notin Callbacks
          BY <1>2, <2>2, <2>5, <3>3, <5>1 DEF ProcessObject, BuildError, None
        <5>2. CASE "on_request" \in Callbacks
          <6>1. r = HandlerReply(e.id, o)
            BY <1>2, <2>5, <3>3, <5>2 DEF ProcessObject
          <6>2. HandlerReply(e.id, o).id = e.id /\ HandlerReply(e.id, o) # None
            BY <2>2, <3>3 DEF HandlerReply, BuildError, BuildResult, None, Outcome
          <6>. QED  BY <6>1, <6>2
        <5>. QED  BY <5>1, <5>2
      <4>. QED  BY <2>1, <2>3, <3>1, <3>3, <4>1 DEF IsNotification, Answers
    <3>. QED  BY <3>2, <3>3
  <2>. QED  BY <2>4, <2>5
<1>. QED  BY <1>1, <1>2

-----------------------------------------------------------------------------
(* No response answers the requests among no elements. *)
LEMMA AnswersNone ==
  ASSUME NEW es
  PROVE  AnswersFirst(<<>>, es, 0)
<1>1. Len(<<>>) = 0
  OBVIOUS
<1>2. SUFFICES \E g \in [1..0 -> 1..0] :
                 /\ \A i, j \in 1..0 : i < j => g[i] < g[j]
                 /\ {g[i] : i \in 1..0} = {k \in 1..0 : ~IsNotification(es[k])}
                 /\ \A i \in 1..0 : Answers(<<>>[i], es[g[i]])
  BY <1>1, Zenon DEF AnswersFirst
<1>. WITNESS [i \in 1..0 |-> 1] \in [1..0 -> 1..0]
<1>. QED  OBVIOUS

(* One more element through jsonrpc_process_object: a notification adds   *)
(* no response; a request appends its answer, and is the next request.   *)
LEMMA AnswersStep ==
  ASSUME NEW rs \in Seq(Resp), NEW es \in Seq(Element), NEW n \in 0..Len(es) - 1,
         AnswersFirst(rs, es, n), NEW r,
         r = None <=> IsNotification(es[n + 1]),
         r # None => Answers(r, es[n + 1])
  PROVE  AnswersFirst(IF r = None THEN rs ELSE Append(rs, r), es, n + 1)
<1>1. PICK g \in [1..Len(rs) -> 1..n] :
        /\ \A i, j \in 1..Len(rs) : i < j => g[i] < g[j]
        /\ {g[i] : i \in 1..Len(rs)} = {k \in 1..n : ~IsNotification(es[k])}
        /\ \A i \in 1..Len(rs) : Answers(rs[i], es[g[i]])
  BY DEF AnswersFirst
<1>2. CASE r = None
  <2>1. {k \in 1..n + 1 : ~IsNotification(es[k])} = {k \in 1..n : ~IsNotification(es[k])}
    BY <1>2
  <2>2. g \in [1..Len(rs) -> 1..n + 1]
    BY <1>1
  <2>. QED  BY <1>1, <1>2, <2>1, <2>2 DEF AnswersFirst
<1>3. CASE r # None
  <2>. DEFINE h == [i \in 1..Len(rs) + 1 |-> IF i <= Len(rs) THEN g[i] ELSE n + 1]
              rs1 == Append(rs, r)
  <2>1. Len(rs1) = Len(rs) + 1
    BY DEF rs1
  <2>2. h \in [1..Len(rs1) -> 1..n + 1]
    BY <1>1, <2>1
  <2>3. \A i, j \in 1..Len(rs1) : i < j => h[i] < h[j]
    BY <1>1, <2>1
  <2>4. {h[i] : i \in 1..Len(rs1)} = {k \in 1..n + 1 : ~IsNotification(es[k])}
    <3>1. {h[i] : i \in 1..Len(rs1)} = {g[i] : i \in 1..Len(rs)} \cup {n + 1}
      BY <2>1
    <3>2. ~IsNotification(es[n + 1])
      BY <1>3
    <3>3. {k \in 1..n + 1 : ~IsNotification(es[k])}
            = {k \in 1..n : ~IsNotification(es[k])} \cup {n + 1}
      BY <3>2
    <3>. QED  BY <1>1, <3>1, <3>3
  <2>5. \A i \in 1..Len(rs1) : Answers(rs1[i], es[h[i]])
    <3>1. \A i \in 1..Len(rs) : rs1[i] = rs[i] /\ h[i] = g[i]
      BY DEF rs1
    <3>2. rs1[Len(rs) + 1] = r /\ h[Len(rs) + 1] = n + 1
      BY DEF rs1
    <3>. QED  BY <1>1, <1>3, <2>1, <3>1, <3>2
  <2>. QED  BY <1>3, <2>2, <2>3, <2>4, <2>5 DEF AnswersFirst
<1>. QED  BY <1>2, <1>3

(* At the end of a batch: no response at all means every element was a     *)
(* notification; a response means some element was a request.             *)
LEMMA AnswersEnd ==
  ASSUME NEW rs \in Seq(Resp), NEW es \in Seq(Element), AnswersFirst(rs, es, Len(es))
  PROVE  (\A k \in 1..Len(es) : IsNotification(es[k])) <=> rs = <<>>
<1>1. PICK g \in [1..Len(rs) -> 1..Len(es)] :
        {g[i] : i \in 1..Len(rs)} = {k \in 1..Len(es) : ~IsNotification(es[k])}
  BY DEF AnswersFirst
<1>2. rs = <<>> <=> Len(rs) = 0
  BY EmptySeq
<1>3. CASE Len(rs) = 0
  BY <1>1, <1>2, <1>3
<1>4. CASE Len(rs) # 0
  <2>1. 1 \in 1..Len(rs)
    BY <1>4
  <2>2. g[1] \in 1..Len(es) /\ ~IsNotification(es[g[1]])
    BY <1>1, <2>1
  <2>. QED  BY <1>2, <1>4, <2>2
<1>. QED  BY <1>3, <1>4

-----------------------------------------------------------------------------
(* Frame by frame: the reply of each kind of line conforms.                 *)

(* The reply FrameSingle computes for a value v, o what on_request gave. *)
SingleReply(v, o) ==
  IF v.type = "array" THEN BuildError(Absent, ERR_INVALID_REQUEST)
  ELSE ProcessObject(v, o)

(* "Parse error" is sent with a null id. *)
LEMMA ParseErrorConforms ==
  ASSUME NEW l
  PROVE  ReplyConforms([line |-> l, value |-> ParseError,
                        reply |-> Single(BuildError(Absent, ERR_PARSE))])
<1>1. BuildError(Absent, ERR_PARSE) = [id |-> JNull, code |-> ERR_PARSE]
  BY DEF BuildError, CopyId, Absent, JNull
<1>. QED  BY <1>1 DEF ReplyConforms

(* A value that is not a non-empty batch: a scalar or an empty array gets  *)
(* "Invalid Request" with a null id, an object its answer or nothing.      *)
LEMMA SingleConforms ==
  ASSUME NEW l, NEW v \in TopValue, NEW o \in Outcome,
         v.type = "array" => v.elems = <<>>
  PROVE  ReplyConforms([line |-> l, value |-> v,
                        reply |-> IF SingleReply(v, o) = None THEN None
                                  ELSE Single(SingleReply(v, o))])
<1>. DEFINE R == SingleReply(v, o)
            f == [line |-> l, value |-> v, reply |-> IF R = None THEN None ELSE Single(R)]
<1>1. v # ParseError /\ v.type \in {"object", "scalar", "array"}
  BY DEF TopValue, Object, Batch, ParseError
<1>2. f.value = v /\ f.reply = IF R = None THEN None ELSE Single(R)
  OBVIOUS
<1>3. CASE v.type # "object"
  <2>1. R = [id |-> JNull, code |-> ERR_INVALID_REQUEST]
    BY <1>3 DEF SingleReply, ProcessObject, InvalidRequest, BuildError, CopyId,
       Absent, JNull
  <2>2. R # None
    BY <2>1 DEF None
  <2>3. ~(v.type = "array" /\ v.elems # <<>>)
    OBVIOUS
  <2>. QED  BY <1>1, <1>2, <1>3, <2>1, <2>2, <2>3 DEF ReplyConforms
<1>4. CASE v.type = "object"
  <2>1. v \in Element
    BY <1>4, ValueByType DEF Element
  <2>2. R = ProcessObject(v, o)
    BY <1>4 DEF SingleReply
  <2>3. /\ R = None <=> IsNotification(v)
        /\ R # None => Answers(R, v)
    BY <2>1, <2>2, ObjectAnswer
  <2>4. CASE IsNotification(v)
    BY <1>1, <1>2, <1>4, <2>3, <2>4 DEF ReplyConforms
  <2>5. CASE ~IsNotification(v)
    <3>1. f.reply # None /\ f.reply.kind = "single" /\ f.reply.resp = R
      BY <2>3, <2>5 DEF Single, None
    <3>. QED  BY <1>1, <1>2, <1>4, <2>3, <2>5, <3>1 DEF ReplyConforms
  <2>. QED  BY <2>4, <2>5
<1>. QED  BY <1>3, <1>4

(* A non-empty batch, once its loop has answered every element. *)
LEMMA BatchConforms ==
  ASSUME NEW l, NEW es \in Seq(Element), es # <<>>,
         NEW rs \in Seq(Resp), AnswersFirst(rs, es, Len(es))
  PROVE  ReplyConforms([line |-> l, value |-> [type |-> "array", elems |-> es],
                        reply |-> IF rs = <<>> THEN None ELSE BatchOf(rs)])
<1>1. (\A k \in 1..Len(es) : IsNotification(es[k])) <=> rs = <<>>
  BY AnswersEnd
<1>2. [type |-> "array", elems |-> es] # ParseError
  BY DEF ParseError
<1>3. CASE rs = <<>>
  BY <1>1, <1>2, <1>3 DEF ReplyConforms
<1>4. CASE rs # <<>>
  <2>1. BatchOf(rs) # None /\ BatchOf(rs).kind = "batch" /\ BatchOf(rs).resps = rs
    BY DEF BatchOf, None
  <2>. QED  BY <1>1, <1>2, <1>4, <2>1 DEF ReplyConforms
<1>. QED  BY <1>3, <1>4

(* Appending a conforming frame keeps every frame conforming. *)
LEMMA ServedAppend ==
  ASSUME RepliesConform, served \in Seq(Frame), NEW f,
         served' = Append(served, f), ReplyConforms(f)
  PROVE  RepliesConform'
BY DEF RepliesConform

-----------------------------------------------------------------------------
(* RepliesConform is not inductive: a batch is answered element by element *)
(* in work.acc before its frame is served.  BatchAnswered (JsonRpcConn),   *)
(* which conn_dispatch checks, says what the loop has gathered so far.     *)
RepInv == TypeOK /\ RepliesConform /\ BatchAnswered

LEMMA RepInit == Init => RepInv
<1>. SUFFICES ASSUME Init PROVE RepInv
  OBVIOUS
<1>1. TypeOK
  BY TypeInit
<1>2. RepliesConform /\ BatchAnswered
  BY DEF Init, RepliesConform, BatchAnswered
<1>. QED  BY <1>1, <1>2 DEF RepInv

(* After a reply is sent, the loop is not in a batch. *)
LEMMA AfterSendNotBatch ==
  ASSUME NEW ok, AfterSend(ok)
  PROVE  pc' # "batch"
BY DEF AfterSend

(* Loop: a line that does not parse, or a single value. *)
LEMMA RepFrame ==
  ASSUME RepInv, FrameParseError \/ FrameSingle
  PROVE  RepliesConform' /\ BatchAnswered'
<1>1. inbound \in Seq(Byte) /\ LFs(inbound) # {} /\ served \in Seq(Frame)
  BY DEF FrameParseError, FrameSingle, IsMessage, RepInv, TypeOK
<1>2. CASE FrameParseError
  <2>1. PICK ok \in SendOutcomes : AfterSend(ok)
    BY <1>2 DEF FrameParseError
  <2>2. pc' # "batch"
    BY <2>1, AfterSendNotBatch
  <2>3. RepliesConform'
    BY <1>1, <1>2, ParseErrorConforms, ServedAppend DEF FrameParseError, RepInv
  <2>. QED  BY <2>2, <2>3 DEF BatchAnswered
<1>3. CASE FrameSingle
  <2>1. /\ CurLine \in Seq(Byte)
        /\ \A i \in 1..Len(CurLine) : CurLine[i] # LF
    BY <1>1, CurLineType
  <2>. DEFINE v == Parse(CurLine)
  <2>2. v \in JsonTexts \cup {ParseError}
    BY <2>1, ParseType
  <2>3. v # ParseError /\ (v.type = "array" => v.elems = <<>>)
    BY <1>3 DEF FrameSingle
  <2>4. v \in TopValue
    BY <2>2, <2>3, JsonTextsAssumption
  <2>5. Outcomes(v) \subseteq Outcome
    BY <2>4, CallTypes
  <2>6. PICK o \in Outcomes(v) :
          /\ served' = Append(served, [line |-> CurLine, value |-> v,
                                       reply |-> IF SingleReply(v, o) = None THEN None
                                                 ELSE Single(SingleReply(v, o))])
          /\ IF SingleReply(v, o) = None
             THEN pc' = "frame"
             ELSE \E ok \in SendOutcomes : AfterSend(ok)
    BY <1>3 DEF FrameSingle, SingleReply
  <2>7. pc' # "batch"
    BY <2>6, AfterSendNotBatch
  <2>8. ReplyConforms([line |-> CurLine, value |-> v,
                       reply |-> IF SingleReply(v, o) = None THEN None
                                 ELSE Single(SingleReply(v, o))])
    BY <2>3, <2>4, <2>5, SingleConforms
  <2>9. RepliesConform'
    BY <1>1, <2>6, <2>8, ServedAppend DEF RepInv
  <2>. QED  BY <2>7, <2>9 DEF BatchAnswered
<1>. QED  BY <1>2, <1>3

(* Loop: a non-empty array starts the batch loop with nothing answered. *)
LEMMA RepBatchStart ==
  ASSUME RepInv, FrameBatchStart
  PROVE  RepliesConform' /\ BatchAnswered'
<1>1. PICK v : /\ v # ParseError /\ v.type = "array" /\ v.elems # <<>>
               /\ work' = [line |-> CurLine, elems |-> v.elems, idx |-> 1, acc |-> <<>>]
  BY DEF FrameBatchStart
<1>2. work'.elems = v.elems /\ work'.idx = 1 /\ work'.acc = <<>>
  BY <1>1
<1>3. AnswersFirst(<<>>, v.elems, 0)
  BY AnswersNone
<1>4. pc' = "batch" /\ served' = served
  BY DEF FrameBatchStart
<1>. QED  BY <1>1, <1>2, <1>3, <1>4 DEF RepInv, RepliesConform, BatchAnswered

(* Batch loop: one more element is answered, or passed over if it is a   *)
(* notification.                                                          *)
LEMMA RepBatchItem ==
  ASSUME RepInv, BatchItem
  PROVE  RepliesConform' /\ BatchAnswered'
<1>1. /\ work.elems \in Seq(Element) /\ work.acc \in Seq(Resp)
      /\ work.idx \in 1..Len(work.elems)
      /\ AnswersFirst(work.acc, work.elems, work.idx - 1)
      /\ work.elems # <<>>
  BY DEF BatchItem, RepInv, TypeOK, Work, BatchAnswered
<1>. DEFINE e == work.elems[work.idx]
<1>2. e \in Element
  BY <1>1
<1>3. Outcomes(e) \subseteq Outcome
  BY <1>2, CallTypes
<1>4. PICK o \in Outcomes(e) :
        work' = [work EXCEPT !.idx = @ + 1,
                             !.acc = IF ProcessObject(e, o) = None THEN @
                                     ELSE Append(@, ProcessObject(e, o))]
  BY DEF BatchItem
<1>. DEFINE r == ProcessObject(e, o)
<1>5. /\ work'.elems = work.elems
      /\ work'.idx = work.idx + 1
      /\ work'.acc = IF r = None THEN work.acc ELSE Append(work.acc, r)
  BY <1>4 DEF RepInv, TypeOK, Work
<1>6. /\ r = None <=> IsNotification(e)
      /\ r # None => Answers(r, e)
  BY <1>2, <1>3, ObjectAnswer
<1>7. AnswersFirst(IF r = None THEN work.acc ELSE Append(work.acc, r),
                   work.elems, (work.idx - 1) + 1)
  <2>1. work.idx - 1 \in 0..Len(work.elems) - 1 /\ (work.idx - 1) + 1 = work.idx
    BY <1>1
  <2>. QED  BY <1>1, <1>6, <2>1, AnswersStep
<1>8. (work.idx - 1) + 1 = work'.idx - 1 /\ work'.idx \in 1..Len(work'.elems) + 1
  <2>1. work.idx \in Nat /\ Len(work.elems) \in Nat /\ work.idx <= Len(work.elems)
    BY <1>1
  <2>2. work'.idx = work.idx + 1 /\ Len(work'.elems) = Len(work.elems)
    BY <1>5
  <2>. QED  BY <2>1, <2>2
<1>9. pc' = "batch" /\ served' = served
  BY DEF BatchItem
<1>. QED  BY <1>1, <1>5, <1>7, <1>8, <1>9 DEF RepInv, RepliesConform, BatchAnswered

(* Batch loop done: the frame of the batch is served with its responses. *)
LEMMA RepBatchEnd ==
  ASSUME RepInv, BatchEndSilent \/ BatchEndSend
  PROVE  RepliesConform' /\ BatchAnswered'
<1>1. /\ pc = "batch" /\ work.idx > Len(work.elems)
      /\ served \in Seq(Frame)
      /\ work.elems \in Seq(Element) /\ work.acc \in Seq(Resp)
  BY DEF BatchEndSilent, BatchEndSend, RepInv, TypeOK, Work
<1>2. work.elems # <<>> /\ AnswersFirst(work.acc, work.elems, Len(work.elems))
  <2>1. work.idx = Len(work.elems) + 1
    BY <1>1 DEF RepInv, BatchAnswered
  <2>. QED  BY <1>1, <2>1 DEF RepInv, BatchAnswered
<1>3. ReplyConforms([line |-> work.line, value |-> BatchValue,
                     reply |-> IF work.acc = <<>> THEN None ELSE BatchOf(work.acc)])
  BY <1>1, <1>2, BatchConforms DEF BatchValue
<1>4. CASE BatchEndSilent
  <2>1. served' = Append(served, [line |-> work.line, value |-> BatchValue,
                                  reply |-> IF work.acc = <<>> THEN None
                                            ELSE BatchOf(work.acc)])
    BY <1>4 DEF BatchEndSilent
  <2>2. pc' # "batch"
    BY <1>4 DEF BatchEndSilent
  <2>. QED  BY <1>1, <1>3, <2>1, <2>2, ServedAppend DEF RepInv, BatchAnswered
<1>5. CASE BatchEndSend
  <2>1. served' = Append(served, [line |-> work.line, value |-> BatchValue,
                                  reply |-> IF work.acc = <<>> THEN None
                                            ELSE BatchOf(work.acc)])
    BY <1>5 DEF BatchEndSend
  <2>2. PICK ok \in SendOutcomes : AfterSend(ok)
    BY <1>5 DEF BatchEndSend
  <2>3. pc' # "batch"
    BY <2>2, AfterSendNotBatch
  <2>. QED  BY <1>1, <1>3, <2>1, <2>3, ServedAppend DEF RepInv, BatchAnswered
<1>. QED  BY <1>4, <1>5

(* The other steps serve no frame and leave the batch loop alone, or end *)
(* the call outside it.                                                  *)
LEMMA RepOther ==
  ASSUME RepInv,
         \/ ConnNew \/ TransportClose \/ ConnFree
         \/ \E chunk \in Chunks : FeedTooLarge(chunk) \/ FeedAppend(chunk)
         \/ FrameNoLine \/ FrameEmptyLine \/ FrameTooLarge
         \/ \E id \in OobIds : SendResult(id)
         \/ \E id \in OobIds, code \in HandlerCodes : SendError(id, code)
  PROVE  RepliesConform' /\ BatchAnswered'
<1>1. served' = served
  BY DEF ConnNew, TransportClose, ConnFree, FeedTooLarge, FeedAppend,
         FrameNoLine, FrameEmptyLine, FrameTooLarge, SendResult, SendError,
         SendOutOfBand
<1>2. (pc' = pc /\ work' = work) \/ pc' # "batch"
  BY DEF ConnNew, TransportClose, ConnFree, FeedTooLarge, FeedAppend,
         FrameNoLine, FrameEmptyLine, FrameTooLarge, SendResult, SendError,
         SendOutOfBand
<1>. QED  BY <1>1, <1>2 DEF RepInv, RepliesConform, BatchAnswered

LEMMA RepNext == RepInv /\ [Next]_vars => RepInv'
<1>. SUFFICES ASSUME RepInv, [Next]_vars PROVE RepInv'
  OBVIOUS
<1>1. TypeOK'
  BY TypeNext DEF RepInv
<1>2. CASE UNCHANGED vars
  <2>1. served' = served /\ pc' = pc /\ work' = work
    BY <1>2 DEF vars
  <2>. QED  BY <1>1, <2>1 DEF RepInv, RepliesConform, BatchAnswered
<1>3. CASE Next
  <2>. RepliesConform' /\ BatchAnswered'
    BY <1>3, RepFrame, RepBatchStart, RepBatchItem, RepBatchEnd, RepOther
    DEF Next, Loop
  <2>. QED  BY <1>1 DEF RepInv
<1>. QED  BY <1>1, <1>2, <1>3 DEF RepInv

(* jsonrpc_conn_feed answers every frame the way JSON-RPC 2.0 asks: a     *)
(* parse error with a null id; a non-empty batch with nothing when it     *)
(* holds only notifications, else one response per request in request    *)
(* order, each with its id and the error its validation or its params     *)
(* call for; any other non-object with "Invalid Request"; a notification  *)
(* with nothing and a request with its answer.  For every set of methods, *)
(* ids, callbacks and on_request outcomes.                                *)
THEOREM RepliesSafe == Spec => []RepliesConform
<1>1. Init => RepInv
  BY RepInit
<1>2. RepInv /\ [Next]_vars => RepInv'
  BY RepNext
<1>3. RepInv => RepliesConform
  BY DEF RepInv
<1>. QED  BY <1>1, <1>2, <1>3, PTL DEF Spec
====
