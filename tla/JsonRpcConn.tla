----------------------------- MODULE JsonRpcConn -----------------------------
(***************************************************************************)
(* One jsonrpc_conn_t of src/src/jsonrpc.c: its inbound buffer, the line   *)
(* framer of jsonrpc_conn_feed, the batch loop of jsonrpc_process_value,   *)
(* the responses written through transport.send_raw, the transport close  *)
(* the core requests, and the lifecycle jsonrpc_conn_new/jsonrpc_conn_free.*)
(*                                                                         *)
(* Bytes: LF, CR, and JSON texts. A JSON text stands for all the bytes of  *)
(* one complete JSON value and counts as one byte, so a line of k texts    *)
(* has length k; MaxMessage and MaxBuffer are scaled to that unit.         *)
(*                                                                         *)
(* One iteration of the while loop of jsonrpc_conn_feed is one step (the   *)
(* steps of one feed run back to back: pc # "idle" until it returns); one  *)
(* element of a batch is one step, since it runs the user's on_request or  *)
(* on_notification callback.                                               *)
(***************************************************************************)
EXTENDS JsonRpcDispatch

CONSTANTS
  JsonTexts,       \* the JSON values a peer may send, one "byte" each
  Chunks,          \* the byte strings a caller may pass to jsonrpc_conn_feed
  MaxMessage,      \* MAX_MESSAGE_BYTES
  MaxBuffer,       \* MAX_BUFFER_BYTES
  MaxInput,        \* bound: bytes offered to jsonrpc_conn_feed in a run
  MaxOut,          \* bound: lines on the wire before out-of-band sends stop
  SendCanFail,     \* jsonrpc_send_value may return false
  HasClose,        \* transport.close is non-null
  FeedAfterClose   \* the transport may still deliver bytes after close

LF == [type |-> "LF"]   \* the byte '\n'
CR == [type |-> "CR"]   \* the byte '\r'
Byte == {LF, CR} \cup JsonTexts
ParseError == [type |-> "parse_error"]   \* json_parse_string returned NULL

Wire == [kind: {"single"}, resp: Resp] \cup [kind: {"batch"}, resps: Seq(Resp)]
Single(r) == [kind |-> "single", resp |-> r]
BatchOf(rs) == [kind |-> "batch", resps |-> rs]

ASSUME JsonTextsAssumption == JsonTexts \subseteq TopValue
ASSUME ChunksAssumption == Chunks \subseteq Seq(Byte) \ {<<>>}
ASSUME BoundsAssumption ==
  /\ MaxMessage \in Nat \ {0} /\ MaxBuffer \in Nat
  /\ MaxInput \in Nat /\ MaxOut \in Nat
ASSUME FlagsAssumption ==
  {SendCanFail, HasClose, FeedAfterClose} \subseteq BOOLEAN

VARIABLES
  phase,      \* "unborn", "live" (jsonrpc_conn_new returned), "freed"
  pc,         \* "idle", "frame" (in the feed loop), "batch" (in a batch)
  inbound,    \* conn->inbound.data[0 .. len-1]
  work,       \* locals of the batch loop: line, elements, index, responses
  transport,  \* "open", or "closing" once transport.close was called
  closed,     \* conn->closed
  out,        \* the lines handed to transport.send_raw, in order
  notified,   \* methods passed to on_notification, in order
  opened,     \* number of on_open calls
  closes,     \* number of on_close calls
  fed,        \* history: every byte passed to jsonrpc_conn_feed
  accepted,   \* history: every byte appended to the inbound buffer
  served,     \* history: each frame parsed, with its reply
  rejected    \* history: "Request too large" was raised

vars == <<phase, pc, inbound, work, transport, closed, out, notified,
          opened, closes, fed, accepted, served, rejected>>

Frame == [line: Seq(Byte), value: TopValue \cup {ParseError}, reply: Wire \cup {None}]
Work  == [line: Seq(Byte), elems: Seq(Element), idx: Nat \ {0}, acc: Seq(Resp)]

TypeOK ==
  /\ phase \in {"unborn", "live", "freed"}
  /\ pc \in {"idle", "frame", "batch"}
  /\ inbound \in Seq(Byte)
  /\ work \in Work
  /\ transport \in {"open", "closing"}
  /\ closed \in BOOLEAN
  /\ out \in Seq(Wire)
  /\ notified \in Seq(Methods)
  /\ opened \in Nat /\ closes \in Nat
  /\ fed \in Seq(Byte) /\ accepted \in Seq(Byte)
  /\ served \in Seq(Frame)
  /\ rejected \in BOOLEAN

-----------------------------------------------------------------------------
(* json_parse_string on a line: CR is JSON whitespace; a line holding       *)
(* exactly one JSON text parses to it, anything else is a parse error.      *)
NonBlank(l) == {i \in 1..Len(l) : l[i] # CR}
Parse(l) ==
  IF \E i \in NonBlank(l) : NonBlank(l) = {i}
  THEN l[CHOOSE i \in NonBlank(l) : TRUE] ELSE ParseError

(* memchr for '\n', the CR strip and rpc_buffer_consume. *)
LFs(b) == {i \in 1..Len(b) : b[i] = LF}
NewlineIndex == CHOOSE i \in LFs(inbound) : \A j \in LFs(inbound) : i <= j
LineLen(i) == IF i > 1 /\ inbound[i - 1] = CR THEN i - 2 ELSE i - 1
Consume(b, k) == SubSeq(b, k + 1, Len(b))

(* jsonrpc_send_value either hands the line to send_raw or fails. *)
SendOutcomes == IF SendCanFail THEN BOOLEAN ELSE {TRUE}
Emit(w, ok) == out' = IF ok THEN Append(out, w) ELSE out

(* transport.close, when the transport has one. *)
CloseTransport == transport' = IF HasClose THEN "closing" ELSE transport

(* After a reply: a failed send closes and leaves the loop, if it can. *)
AfterSend(ok) ==
  /\ pc' = IF ~ok /\ HasClose THEN "idle" ELSE "frame"
  /\ transport' = IF ~ok /\ HasClose THEN "closing" ELSE transport

(* The outcomes on_request may give if jsonrpc_process_object calls it. *)
NoCall == [handled |-> FALSE, result |-> FALSE, code |-> 0]
Outcomes(v) == IF CallsOnRequest(v) THEN OnRequest(v.method, v.params) ELSE {NoCall}

-----------------------------------------------------------------------------
Init ==
  /\ phase = "unborn"
  /\ pc = "idle"
  /\ inbound = <<>>
  /\ work = [line |-> <<>>, elems |-> <<>>, idx |-> 1, acc |-> <<>>]
  /\ transport = "open"
  /\ closed = FALSE
  /\ out = <<>> /\ notified = <<>>
  /\ opened = 0 /\ closes = 0
  /\ fed = <<>> /\ accepted = <<>> /\ served = <<>>
  /\ rejected = FALSE

(* jsonrpc_conn_new: set up the connection, then on_open. *)
ConnNew ==
  /\ phase = "unborn"
  /\ phase' = "live"
  /\ closed' = FALSE
  /\ opened' = IF "on_open" \in Callbacks THEN opened + 1 ELSE opened
  /\ UNCHANGED <<pc, inbound, work, transport, out, notified, closes,
                 fed, accepted, served, rejected>>

(* The guard of jsonrpc_conn_feed; a closed transport delivers no bytes *)
(* unless FeedAfterClose.                                               *)
CanFeed(chunk) ==
  /\ phase = "live" /\ pc = "idle" /\ ~closed
  /\ transport = "open" \/ FeedAfterClose
  /\ Len(fed) + Len(chunk) <= MaxInput

(* jsonrpc_conn_feed, rpc_buffer_append refused: "Request too large",  *)
(* then transport.close.                                                *)
FeedTooLarge(chunk) ==
  /\ CanFeed(chunk)
  /\ Len(inbound) + Len(chunk) > MaxBuffer
  /\ fed' = fed \o chunk
  /\ \E ok \in SendOutcomes : Emit(Single(BuildError(Absent, ERR_INVALID_REQUEST)), ok)
  /\ CloseTransport
  /\ rejected' = TRUE
  /\ UNCHANGED <<phase, pc, inbound, work, closed, notified, opened, closes,
                 accepted, served>>

(* jsonrpc_conn_feed, rpc_buffer_append accepted: enter the loop. *)
FeedAppend(chunk) ==
  /\ CanFeed(chunk)
  /\ Len(inbound) + Len(chunk) <= MaxBuffer
  /\ inbound' = inbound \o chunk
  /\ fed' = fed \o chunk
  /\ accepted' = accepted \o chunk
  /\ pc' = "frame"
  /\ UNCHANGED <<phase, work, transport, closed, out, notified, opened, closes,
                 served, rejected>>

(* Loop: no '\n' in the buffer, jsonrpc_conn_feed returns. *)
FrameNoLine ==
  /\ pc = "frame" /\ LFs(inbound) = {}
  /\ pc' = "idle"
  /\ UNCHANGED <<phase, inbound, work, transport, closed, out, notified,
                 opened, closes, fed, accepted, served, rejected>>

(* Mutant of FrameEmptyLine: the empty line is skipped without being *)
(* consumed.                                                         *)
FrameEmptyLineKept ==
  /\ pc = "frame" /\ LFs(inbound) # {}
  /\ LineLen(NewlineIndex) = 0
  /\ UNCHANGED vars

(* Loop: an empty (or lone CR) line is consumed silently. *)
FrameEmptyLine ==
  /\ pc = "frame" /\ LFs(inbound) # {}
  /\ LineLen(NewlineIndex) = 0
  /\ inbound' = Consume(inbound, NewlineIndex)
  /\ UNCHANGED <<phase, pc, work, transport, closed, out, notified,
                 opened, closes, fed, accepted, served, rejected>>

(* Loop: a line over MAX_MESSAGE_BYTES: "Request too large", close, return; *)
(* the line is left in the buffer.                                          *)
FrameTooLarge ==
  /\ pc = "frame" /\ LFs(inbound) # {}
  /\ LineLen(NewlineIndex) > MaxMessage
  /\ \E ok \in SendOutcomes : Emit(Single(BuildError(Absent, ERR_INVALID_REQUEST)), ok)
  /\ CloseTransport
  /\ pc' = "idle"
  /\ rejected' = TRUE
  /\ UNCHANGED <<phase, inbound, work, closed, notified, opened, closes,
                 fed, accepted, served>>

(* The line of the current iteration, when it is to be parsed. *)
IsMessage ==
  /\ pc = "frame" /\ LFs(inbound) # {}
  /\ LineLen(NewlineIndex) \in 1..MaxMessage
CurLine == SubSeq(inbound, 1, LineLen(NewlineIndex))

(* Loop: copy and consume the line, parse fails: "Parse error". *)
FrameParseError ==
  /\ IsMessage
  /\ Parse(CurLine) = ParseError
  /\ inbound' = Consume(inbound, NewlineIndex)
  /\ \E ok \in SendOutcomes :
       /\ Emit(Single(BuildError(Absent, ERR_PARSE)), ok)
       /\ AfterSend(ok)
  /\ served' = Append(served, [line |-> CurLine, value |-> ParseError,
                               reply |-> Single(BuildError(Absent, ERR_PARSE))])
  /\ UNCHANGED <<phase, work, closed, notified, opened, closes, fed, accepted,
                 rejected>>

(* Loop: a parsed value that is not a non-empty array goes through         *)
(* jsonrpc_process_value; a response, if any, is sent.                     *)
FrameSingle ==
  /\ IsMessage
  /\ LET v == Parse(CurLine) IN
     /\ v # ParseError
     /\ v.type = "array" => v.elems = <<>>
     /\ inbound' = Consume(inbound, NewlineIndex)
     /\ \E o \in Outcomes(v) :
          LET r == IF v.type = "array" THEN BuildError(Absent, ERR_INVALID_REQUEST)
                   ELSE ProcessObject(v, o)
          IN /\ notified' = notified \o NotifyCalls(v)
             /\ served' = Append(served, [line |-> CurLine, value |-> v,
                                          reply |-> IF r = None THEN None ELSE Single(r)])
             /\ IF r = None
                THEN /\ pc' = "frame"
                     /\ UNCHANGED <<out, transport>>
                ELSE \E ok \in SendOutcomes : Emit(Single(r), ok) /\ AfterSend(ok)
  /\ UNCHANGED <<phase, work, closed, opened, closes, fed, accepted, rejected>>

(* Loop: a non-empty array starts the batch loop of jsonrpc_process_value. *)
FrameBatchStart ==
  /\ IsMessage
  /\ LET v == Parse(CurLine) IN
     /\ v # ParseError
     /\ v.type = "array" /\ v.elems # <<>>
     /\ work' = [line |-> CurLine, elems |-> v.elems, idx |-> 1, acc |-> <<>>]
  /\ inbound' = Consume(inbound, NewlineIndex)
  /\ pc' = "batch"
  /\ UNCHANGED <<phase, transport, closed, out, notified, opened, closes,
                 fed, accepted, served, rejected>>

(* Mutant of BatchItem: the response is put in front of the array. *)
BatchItemPrepend ==
  /\ pc = "batch" /\ work.idx <= Len(work.elems)
  /\ LET e == work.elems[work.idx] IN
     \E o \in Outcomes(e) :
       LET r == ProcessObject(e, o) IN
       /\ work' = [work EXCEPT !.idx = @ + 1,
                               !.acc = IF r = None THEN @ ELSE <<r>> \o @]
       /\ notified' = notified \o NotifyCalls(e)
  /\ UNCHANGED <<phase, pc, inbound, transport, closed, out, opened, closes,
                 fed, accepted, served, rejected>>

(* Batch loop: one element through jsonrpc_process_object; a response is *)
(* appended to the response array.                                       *)
BatchItem ==
  /\ pc = "batch" /\ work.idx <= Len(work.elems)
  /\ LET e == work.elems[work.idx] IN
     \E o \in Outcomes(e) :
       LET r == ProcessObject(e, o) IN
       /\ work' = [work EXCEPT !.idx = @ + 1,
                               !.acc = IF r = None THEN @ ELSE Append(@, r)]
       /\ notified' = notified \o NotifyCalls(e)
  /\ UNCHANGED <<phase, pc, inbound, transport, closed, out, opened, closes,
                 fed, accepted, served, rejected>>

BatchValue == [type |-> "array", elems |-> work.elems]

(* Mutant of BatchEndSilent: the empty response array is sent anyway. *)
BatchEndSendEmpty ==
  /\ pc = "batch" /\ work.idx > Len(work.elems)
  /\ work.acc = <<>>
  /\ Emit(BatchOf(<<>>), TRUE)
  /\ pc' = "frame"
  /\ served' = Append(served, [line |-> work.line, value |-> BatchValue,
                               reply |-> BatchOf(<<>>)])
  /\ UNCHANGED <<phase, inbound, work, transport, closed, notified,
                 opened, closes, fed, accepted, rejected>>

(* Batch loop done, no response in the array: nothing is sent. *)
BatchEndSilent ==
  /\ pc = "batch" /\ work.idx > Len(work.elems)
  /\ work.acc = <<>>
  /\ pc' = "frame"
  /\ served' = Append(served, [line |-> work.line, value |-> BatchValue, reply |-> None])
  /\ UNCHANGED <<phase, inbound, work, transport, closed, out, notified,
                 opened, closes, fed, accepted, rejected>>

(* Batch loop done: the response array is sent. *)
BatchEndSend ==
  /\ pc = "batch" /\ work.idx > Len(work.elems)
  /\ work.acc # <<>>
  /\ \E ok \in SendOutcomes : Emit(BatchOf(work.acc), ok) /\ AfterSend(ok)
  /\ served' = Append(served, [line |-> work.line, value |-> BatchValue,
                               reply |-> BatchOf(work.acc)])
  /\ UNCHANGED <<phase, inbound, work, closed, notified, opened, closes,
                 fed, accepted, rejected>>

(* jsonrpc_conn_send_result / jsonrpc_conn_send_error, called by the      *)
(* application between feeds.                                            *)
SendOutOfBand(r) ==
  /\ phase = "live" /\ pc = "idle"
  /\ Len(out) < MaxOut
  /\ \E ok \in SendOutcomes : Emit(Single(r), ok)
  /\ UNCHANGED <<phase, pc, inbound, work, transport, closed, notified,
                 opened, closes, fed, accepted, served, rejected>>

SendResult(id) == SendOutOfBand(BuildResult(id))
SendError(id, code) == SendOutOfBand(BuildError(id, code))

(* The transport closes on its own (peer hangup: on_uv_read, nread < 0). *)
TransportClose ==
  /\ phase = "live" /\ pc = "idle" /\ transport = "open"
  /\ transport' = "closing"
  /\ UNCHANGED <<phase, pc, inbound, work, closed, out, notified, opened,
                 closes, fed, accepted, served, rejected>>

(* jsonrpc_conn_free: on_close unless closed, then release. *)
ConnFree ==
  /\ phase = "live" /\ pc = "idle"
  /\ closes' = IF ~closed /\ "on_close" \in Callbacks THEN closes + 1 ELSE closes
  /\ closed' = TRUE
  /\ inbound' = <<>>
  /\ phase' = "freed"
  /\ UNCHANGED <<pc, work, transport, out, notified, opened, fed, accepted,
                 served, rejected>>

(* The steps of the loop of one jsonrpc_conn_feed call. *)
Loop ==
  \/ FrameNoLine \/ FrameEmptyLine \/ FrameTooLarge
  \/ FrameParseError \/ FrameSingle \/ FrameBatchStart
  \/ BatchItem \/ BatchEndSilent \/ BatchEndSend

OobIds == IdVals \cup {JNull, Absent}

Next ==
  \/ ConnNew
  \/ \E chunk \in Chunks : FeedTooLarge(chunk) \/ FeedAppend(chunk)
  \/ Loop
  \/ \E id \in OobIds : SendResult(id)
  \/ \E id \in OobIds, code \in HandlerCodes : SendError(id, code)
  \/ TransportClose
  \/ ConnFree

Spec == Init /\ [][Next]_vars

(* The feed loop runs to completion: it is straight-line code. *)
FairSpec == Spec /\ WF_vars(Loop)

-----------------------------------------------------------------------------
(* After jsonrpc_conn_feed returns on an open transport whose close works, *)
(* no complete line is left in the inbound buffer: every '\n'-terminated   *)
(* prefix has been dispatched and removed (the framer's contract).         *)
NoPendingLineWhenIdle ==
  (phase = "live" /\ pc = "idle" /\ transport = "open" /\ HasClose)
    => LFs(inbound) = {}

(* What JSON-RPC 2.0 asks of the reply to a frame f: "Parse error" with a  *)
(* null id; for a non-empty batch, nothing if it holds only notifications, *)
(* else one response per request in request order; "Invalid Request" for  *)
(* any other non-object; for an object, nothing if it is a notification,  *)
(* else its answer.                                                       *)
ReplyConforms(f) ==
  IF f.value = ParseError
  THEN f.reply = Single([id |-> JNull, code |-> ERR_PARSE])
  ELSE IF f.value.type = "array" /\ f.value.elems # <<>>
  THEN IF \A k \in 1..Len(f.value.elems) : IsNotification(f.value.elems[k])
       THEN f.reply = None
       ELSE /\ f.reply # None /\ f.reply.kind = "batch"
            /\ AnswersFirst(f.reply.resps, f.value.elems, Len(f.value.elems))
  ELSE IF f.value.type # "object"
  THEN f.reply = Single([id |-> JNull, code |-> ERR_INVALID_REQUEST])
  ELSE IF IsNotification(f.value) THEN f.reply = None
  ELSE f.reply # None /\ f.reply.kind = "single" /\ Answers(f.reply.resp, f.value)

(* Dispatch: every parsed frame got the reply JSON-RPC 2.0 asks for:      *)
(* nothing for a notification or an all-notification batch, otherwise    *)
(* one response per request in request order, echoing each well-formed   *)
(* request's id and null for the rest (jsonrpc_process_value,             *)
(* jsonrpc_process_object, jsonrpc_copy_id).                              *)
RepliesConform == \A k \in 1..Len(served) : ReplyConforms(served[k])

(* While the batch loop of jsonrpc_process_value runs, the response array *)
(* answers, in request order, exactly the requests among the elements    *)
(* processed so far; the loop index never passes one beyond the array.   *)
BatchAnswered ==
  pc = "batch" =>
    /\ work.elems # <<>>
    /\ work.idx \in 1..Len(work.elems) + 1
    /\ AnswersFirst(work.acc, work.elems, work.idx - 1)

(* The elements a frame's value holds: those of a batch, the value itself *)
(* otherwise, none for a parse error.                                     *)
ElemsOf(v) ==
  IF v = ParseError THEN <<>> ELSE IF v.type = "array" THEN v.elems ELSE <<v>>
ServedElems == [k \in 1..Len(served) |-> ElemsOf(served[k].value)]

(* Dispatch: between frames, on_notification has been called exactly for *)
(* the well-formed notifications with valid params, in the order they    *)
(* appeared, batches included (jsonrpc_process_value and                 *)
(* jsonrpc_process_object: the params check comes before the call).      *)
NotificationsDelivered == pc # "batch" => ListsDelivered(notified, ServedElems)

(* Inside the batch loop of jsonrpc_process_value, on_notification has    *)
(* been called, in order, for the notifications of the served frames and *)
(* of the batch elements processed so far, and for no other.              *)
BatchNotified ==
  pc = "batch" =>
    ListsDelivered(notified, Append(ServedElems, SubSeq(work.elems, 1, work.idx - 1)))
=============================================================================
