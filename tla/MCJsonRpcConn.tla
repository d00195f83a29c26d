---------------------------- MODULE MCJsonRpcConn ----------------------------
(***************************************************************************)
(* Model-checking instances of JsonRpcConn driven by the example           *)
(* application of main.c, and the reference definitions the properties    *)
(* compare the model with: the lines of a byte stream and what JSON-RPC    *)
(* 2.0 requires of the reply to each line.                                 *)
(***************************************************************************)
EXTENDS JsonRpcConn, AppHandler, SequencesExt, FiniteSets

(* The id the runs use: a model value standing for a string or number. *)
Id1 == CHOOSE i \in IdVals : TRUE

Req(m, id, p) == [type |-> "object", jsonrpc |-> "2.0", method |-> m, id |-> id, params |-> p]

(* Framing runs: a request and a notification are the only JSON texts. *)
FramingTexts == {Req("ping", Id1, Absent), Req("echo", Absent, "array")}
FramingChunks == UNION {[1..n -> Byte] : n \in 1..3}

(* Dispatch runs: every object shape, and batches of representative *)
(* elements, each sent as one line.                                 *)
BatchElems ==
  { Req("ping", Id1, Absent), Req("add", JNull, "array"), Req("nosuch", Id1, "object"),
    Req("echo", Id1, "scalar"), Req("echo", Absent, "numbers"), Req("ping", Absent, "scalar"),
    [type |-> "object", jsonrpc |-> "1.0", method |-> "ping", id |-> Id1, params |-> Absent],
    [type |-> "scalar"], [type |-> "array"] }
DispatchTexts ==
  Object \cup {[type |-> "scalar"]} \cup
  {[type |-> "array", elems |-> s] : s \in UNION {[1..n -> BatchElems] : n \in 0..3}}
DispatchChunks == {<<t, LF>> : t \in DispatchTexts}

-----------------------------------------------------------------------------
(* Reference: the lines of a byte stream s, split at every LF, a trailing *)
(* CR removed, empty lines dropped; and what follows the last LF.         *)
LFPositions(s) == SetToSortSeq({i \in 1..Len(s) : s[i] = LF}, <)
RawLines(s) ==
  LET p == LFPositions(s)
  IN [j \in 1..Len(p) |-> SubSeq(s, IF j = 1 THEN 1 ELSE p[j - 1] + 1, p[j] - 1)]
StripCR(l) == IF l # <<>> /\ Last(l) = CR THEN Front(l) ELSE l
FramesOf(s) ==
  SelectSeq([j \in DOMAIN RawLines(s) |-> StripCR(RawLines(s)[j])], LAMBDA l : l # <<>>)
PendingOf(s) ==
  LET p == LFPositions(s) IN IF p = <<>> THEN s ELSE SubSeq(s, Last(p) + 1, Len(s))

(* A line of s, or the bytes after its last LF, exceed the limits. *)
HasOversizedPart(s) ==
  \/ \E j \in DOMAIN RawLines(s) : Len(StripCR(RawLines(s)[j])) > MaxMessage
  \/ Len(PendingOf(s)) > MaxBuffer

-----------------------------------------------------------------------------
FeedReturns == pc # "idle" ~> pc = "idle"

(* Spec section 8: the reply stream depends only on the concatenated      *)
(* input, so "Request too large" is raised only when that input has a    *)
(* line over MAX_MESSAGE_BYTES or a partial line over MAX_BUFFER_BYTES.   *)
RejectsOnlyOversizedInput == rejected => HasOversizedPart(fed)

(* The connection under a transport that is only ever closed by the core *)
(* itself (transport.close from jsonrpc_conn_feed), never by a peer       *)
(* hang-up: every step of Next but TransportClose.                        *)
CoreCloseNext ==
  \/ ConnNew
  \/ \E chunk \in Chunks : FeedTooLarge(chunk) \/ FeedAppend(chunk)
  \/ Loop
  \/ \E id \in OobIds : SendResult(id)
  \/ \E id \in OobIds, code \in HandlerCodes : SendError(id, code)
  \/ ConnFree

CoreCloseSpec == Init /\ [][CoreCloseNext]_vars

(* Spec section 5: once the transport is closed, feed calls are no-ops:  *)
(* no frame is dispatched and no callback runs.                          *)
NoDispatchAfterClose ==
  [][transport = "closing" => served' = served /\ notified' = notified]_vars
=============================================================================
