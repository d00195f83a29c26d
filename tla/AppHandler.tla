------------------------------ MODULE AppHandler ------------------------------
(***************************************************************************)
(* The example application of src/src/main.c: my_on_request and its       *)
(* helper handle_add, as the set of outcomes they can leave in             *)
(* jsonrpc_response_t. A failed allocation of the result value is one of   *)
(* those outcomes when HandlerOOM is TRUE.                                 *)
(***************************************************************************)
EXTENDS JsonRpcDispatch

CONSTANT HandlerOOM   \* json_value_init_* / json_value_deep_copy may return NULL

AppCodes == {ERR_INVALID_PARAMS, ERR_INTERNAL}

ASSUME HandlerOOMAssumption == HandlerOOM \in BOOLEAN

(* A result value was allocated, or (out of memory) the error it records. *)
Produced ==
  {[handled |-> TRUE, result |-> TRUE, code |-> 0]} \cup
  (IF HandlerOOM THEN {[handled |-> TRUE, result |-> FALSE, code |-> ERR_INTERNAL]} ELSE {})

InvalidParams == {[handled |-> TRUE, result |-> FALSE, code |-> ERR_INVALID_PARAMS]}

(* handle_add: an array whose items are all numbers is summed. *)
HandleAdd(params) == IF params = "numbers" THEN Produced ELSE InvalidParams

(* my_on_request: ping, echo and add are handled, anything else is not. *)
AppOnRequest(method, params) ==
  CASE method = "ping" -> Produced
    [] method = "echo" -> IF params = Absent THEN InvalidParams ELSE Produced
    [] method = "add"  -> HandleAdd(params)
    [] OTHER           -> {[handled |-> FALSE, result |-> FALSE, code |-> 0]}
=============================================================================
