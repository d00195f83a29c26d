--------------------------- MODULE JsonRpcDispatch ---------------------------
(***************************************************************************)
(* Validation and dispatch of one parsed JSON-RPC value, as done by        *)
(* jsonrpc_process_object (src/src/jsonrpc.c) and the response envelopes   *)
(* built by jsonrpc_build_error / jsonrpc_build_result.                    *)
(*                                                                         *)
(* A JSON value is abstracted to what the validator reads: an object is a  *)
(* record of its "jsonrpc", "method", "id" and "params" members, each one  *)
(* either Absent or a representative of the kinds the code tells apart.   *)
(* A response envelope is abstracted to its id and its error code (0 for   *)
(* a "result" envelope); member names and messages are wording.            *)
(***************************************************************************)
EXTENDS Integers, Sequences

CONSTANTS
  Methods,         \* method strings a request may carry
  IdVals,          \* string and number ids a request may carry
  Callbacks,       \* the fields of jsonrpc_callbacks_t that are non-null
  HandlerCodes,    \* error codes an on_request handler may store
  OnRequest(_, _)  \* the outcomes on_request may produce for (method, params)

Absent == "absent"   \* member missing (or not a string where a string is read)
JNull  == "null"     \* the JSON null value
BadId  == "bad_id"   \* an id that is an object, an array or a boolean
None   == [type |-> "none"]   \* no response value (nullptr)

ERR_PARSE            == -32700
ERR_INVALID_REQUEST  == -32600
ERR_METHOD_NOT_FOUND == -32601
ERR_INVALID_PARAMS   == -32602
ERR_INTERNAL         == -32603

CallbackNames == {"on_open", "on_close", "on_request", "on_notification"}

(* "numbers": an array of numbers, "array": an array holding a non-number, *)
(* "scalar": a string, number, boolean or null.                             *)
ParamKinds == {Absent, "numbers", "array", "object", "scalar"}

Object  == [type: {"object"}, jsonrpc: {"2.0", "1.0", Absent},
            method: Methods \cup {Absent},
            id: IdVals \cup {JNull, BadId, Absent}, params: ParamKinds]
Other   == [type: {"scalar", "array"}]       \* a non-object element of a batch
Element == Object \cup Other
Batch   == [type: {"array"}, elems: Seq(Element)]
TopValue == Object \cup [type: {"scalar"}] \cup Batch

(* What on_request leaves in jsonrpc_response_t and returns. *)
Outcome == [handled: BOOLEAN, result: BOOLEAN, code: {0} \cup HandlerCodes]

Resp == [id: IdVals \cup {JNull}, code: Int]

ASSUME CallbacksAssumption == Callbacks \subseteq CallbackNames
ASSUME HandlerCodesAssumption == HandlerCodes \subseteq Int \ {0}
ASSUME IdValsAssumption == {JNull, BadId, Absent, None} \cap IdVals = {}
ASSUME MethodsAssumption == Absent \notin Methods
ASSUME OnRequestAssumption ==
  \A m \in Methods, p \in ParamKinds : OnRequest(m, p) \subseteq Outcome /\ OnRequest(m, p) # {}

-----------------------------------------------------------------------------
(* Mutant of CopyId: the request's id member is copied without the type *)
(* check, so a missing id is not turned into null.                      *)
CopyIdUnchecked(id) == id

(* jsonrpc_copy_id: a missing id or one of the wrong type becomes null. *)
CopyId(id) == IF id \in IdVals THEN id ELSE JNull

(* jsonrpc_build_error and jsonrpc_build_result. *)
BuildError(id, code) == [id |-> CopyId(id), code |-> code]
BuildResult(id) == [id |-> CopyId(id), code |-> 0]

(* jsonrpc_id_is_valid: ids may be strings, numbers or null. *)
IdIsValid(id) == id \in IdVals \cup {JNull}

(* jsonrpc_params_is_valid: params, when present, are an array or object. *)
ParamsIsValid(p) == p \in {Absent, "numbers", "array", "object"}

(* The envelope checks of jsonrpc_process_object, before params. *)
InvalidRequest(v) ==
  \/ v.type # "object"
  \/ v.jsonrpc # "2.0"
  \/ v.method = Absent
  \/ v.id # Absent /\ ~IdIsValid(v.id)

(* The tail of jsonrpc_process_object once on_request has returned. *)
HandlerReply(id, o) ==
  IF ~o.handled THEN BuildError(id, ERR_METHOD_NOT_FOUND)
  ELSE IF o.code # 0 THEN BuildError(id, o.code)
  ELSE IF ~o.result THEN BuildError(id, ERR_INTERNAL)
  ELSE BuildResult(id)

(* jsonrpc_process_object: the response to one element, or None; o is *)
(* what on_request produced if it is called.                            *)
ProcessObject(v, o) ==
  IF InvalidRequest(v) THEN BuildError(Absent, ERR_INVALID_REQUEST)
  ELSE IF ~ParamsIsValid(v.params)
       THEN IF v.id = Absent THEN None ELSE BuildError(v.id, ERR_INVALID_PARAMS)
  ELSE IF v.id = Absent THEN None
  ELSE IF "on_request" \notin Callbacks THEN BuildError(v.id, ERR_METHOD_NOT_FOUND)
  ELSE HandlerReply(v.id, o)

(* Mutant of NotifyCalls: on_notification is called before params are *)
(* checked, so a notification with bad params is delivered.          *)
NotifyCallsUnchecked(v) ==
  IF ~InvalidRequest(v) /\ v.id = Absent /\ "on_notification" \in Callbacks
  THEN <<v.method>> ELSE <<>>

(* The on_notification calls jsonrpc_process_object makes for v. *)
NotifyCalls(v) ==
  IF /\ ~InvalidRequest(v) /\ ParamsIsValid(v.params) /\ v.id = Absent
     /\ "on_notification" \in Callbacks
  THEN <<v.method>> ELSE <<>>

(* Whether jsonrpc_process_object calls on_request for v. *)
CallsOnRequest(v) ==
  /\ ~InvalidRequest(v) /\ ParamsIsValid(v.params) /\ v.id # Absent
  /\ "on_request" \in Callbacks
-----------------------------------------------------------------------------
(* Reference: JSON-RPC 2.0.  A well-formed request is answered with its id, *)
(* a notification is not answered, anything else is answered with null.    *)
WellFormed(e) ==
  /\ e.type = "object" /\ e.jsonrpc = "2.0" /\ e.method \in Methods
  /\ e.id \in IdVals \cup {JNull, Absent}
IsNotification(e) == WellFormed(e) /\ e.id = Absent
ReplyId(e) == IF WellFormed(e) THEN e.id ELSE JNull
Answers(r, e) ==
  /\ r.id = ReplyId(e)
  /\ ~WellFormed(e) => r.code = ERR_INVALID_REQUEST
  /\ WellFormed(e) /\ e.params = "scalar" => r.code = ERR_INVALID_PARAMS

(* The responses rs answer the requests among the first n elements of the *)
(* batch es one for one and in order: g maps the i-th response to the     *)
(* i-th of those elements that is not a notification.                     *)
AnswersFirst(rs, es, n) ==
  \E g \in [1..Len(rs) -> 1..n] :
    /\ \A i, j \in 1..Len(rs) : i < j => g[i] < g[j]
    /\ {g[i] : i \in 1..Len(rs)} = {k \in 1..n : ~IsNotification(es[k])}
    /\ \A i \in 1..Len(rs) : Answers(rs[i], es[g[i]])

(* A notification the application must be told of: a well-formed one with *)
(* array or object params, when an on_notification callback is installed. *)
Delivered(e) ==
  IsNotification(e) /\ e.params # "scalar" /\ "on_notification" \in Callbacks

(* The slots of a sequence of element sequences: element i of frame k,    *)
(* ordered frame first, then element.                                     *)
Slots(ess) == UNION {{<<k, i>> : i \in 1..Len(ess[k])} : k \in 1..Len(ess)}
SlotBefore(p, q) == p[1] < q[1] \/ (p[1] = q[1] /\ p[2] < q[2])

(* The methods ns are those of the elements of ess to be delivered, one   *)
(* for one and in order: g maps the i-th method to the i-th such slot.    *)
ListsDelivered(ns, ess) ==
  \E g \in [1..Len(ns) -> Slots(ess)] :
    /\ \A i, j \in 1..Len(ns) : i < j => SlotBefore(g[i], g[j])
    /\ {g[i] : i \in 1..Len(ns)} = {p \in Slots(ess) : Delivered(ess[p[1]][p[2]])}
    /\ \A i \in 1..Len(ns) : ns[i] = ess[g[i][1]][g[i][2]].method
=============================================================================
