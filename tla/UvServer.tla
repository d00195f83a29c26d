------------------------------ MODULE UvServer ------------------------------
(***************************************************************************)
(* The libuv glue of src/src/server.c: accepting clients, reading into     *)
(* jsonrpc_conn_feed, transport_send_raw and transport_close, the close    *)
(* callback that frees a client, and the shutdown requested by main.c's    *)
(* signal handler.  Each libuv callback is one atomic step.                *)
(*                                                                         *)
(* A client slot k stands for one accepted socket and its client_ctx_t.    *)
(* The JSON-RPC core is seen through the transport: a feed may write one   *)
(* reply through send_raw and may call transport.close (oversize input, a  *)
(* failed serialisation), which is what JsonRpcConn shows it can do.       *)
(***************************************************************************)
EXTENDS Naturals

CONSTANTS
  Clients,        \* client slots
  MaxReads,       \* read callbacks per client
  MaxSends,       \* replies the core sends per client
  AllocCanFail,   \* calloc of the read buffer, the conn or a write can fail
  AcceptCanFail,  \* uv_accept can fail after uv_tcp_init succeeded
  ShutdownCanOccur\* a SIGINT/SIGTERM reaches on_signal

ASSUME ServerAssumption ==
  /\ MaxReads \in Nat /\ MaxSends \in Nat
  /\ AllocCanFail \in BOOLEAN /\ AcceptCanFail \in BOOLEAN
  /\ ShutdownCanOccur \in BOOLEAN

VARIABLES
  loop,      \* "running" (first uv_run), "draining" (after shutdown), "closed"
  listener,  \* g_server: "active", "closing", "closed"
  handle,    \* handle[k]: the uv_tcp_t: "none", "active", "closing", "closed"
  closeCb,   \* closeCb[k]: uv_close was given on_uv_client_closed
  reading,   \* reading[k]: uv_read_start succeeded
  ctx,       \* ctx[k]: client_ctx_t memory: "none", "live", "freed"
  rpc,       \* rpc[k]: ctx->rpc: "none", "live", "freed"
  writes,    \* writes[k]: uv_write requests not yet completed
  opens,     \* opens[k]: on_open calls
  closes,    \* closes[k]: on_close calls
  reads,     \* reads[k]: read callbacks so far (bounded)
  reported,  \* reported[k]: replies the core counted as sent
  queued     \* queued[k]: replies uv_write accepted

vars == <<loop, listener, handle, closeCb, reading, ctx, rpc, writes, opens,
          closes, reads, reported, queued>>

TypeOK ==
  /\ loop \in {"running", "draining", "closed"}
  /\ listener \in {"active", "closing", "closed"}
  /\ handle \in [Clients -> {"none", "active", "closing", "closed"}]
  /\ closeCb \in [Clients -> BOOLEAN]
  /\ reading \in [Clients -> BOOLEAN]
  /\ ctx \in [Clients -> {"none", "live", "freed"}]
  /\ rpc \in [Clients -> {"none", "live", "freed"}]
  /\ writes \in [Clients -> 0..MaxSends]
  /\ opens \in [Clients -> 0..1] /\ closes \in [Clients -> Nat]
  /\ reads \in [Clients -> 0..MaxReads]
  /\ reported \in [Clients -> 0..MaxSends] /\ queued \in [Clients -> 0..MaxSends]

Init ==
  /\ loop = "running" /\ listener = "active"
  /\ handle = [k \in Clients |-> "none"]
  /\ closeCb = [k \in Clients |-> FALSE]
  /\ reading = [k \in Clients |-> FALSE]
  /\ ctx = [k \in Clients |-> "none"]
  /\ rpc = [k \in Clients |-> "none"]
  /\ writes = [k \in Clients |-> 0]
  /\ opens = [k \in Clients |-> 0] /\ closes = [k \in Clients |-> 0]
  /\ reads = [k \in Clients |-> 0]
  /\ reported = [k \in Clients |-> 0] /\ queued = [k \in Clients |-> 0]

Failures(b) == IF b THEN BOOLEAN ELSE {FALSE}

-----------------------------------------------------------------------------
(* Mutant: transport_close passes a null close callback, as close_handle does. *)
TransportCloseNoCb(k) ==
  /\ handle' = [handle EXCEPT ![k] = "closing"]
  /\ closeCb' = [closeCb EXCEPT ![k] = FALSE]

(* transport_close: uv_close with on_uv_client_closed, without checking    *)
(* uv_is_closing.                                                          *)
TransportClose(k) ==
  /\ handle' = [handle EXCEPT ![k] = "closing"]
  /\ closeCb' = [closeCb EXCEPT ![k] = TRUE]

(* transport_send_raw for a reply the core then reports as sent: the       *)
(* write context's calloc may fail, and uv_write fails on a handle that is *)
(* closing (its socket is already closed); both drop the reply silently.   *)
SendRaw(k) ==
  /\ reported[k] < MaxSends
  /\ reported' = [reported EXCEPT ![k] = @ + 1]
  /\ \E allocFails \in Failures(AllocCanFail) :
       IF handle[k] = "active" /\ ~allocFails
       THEN /\ writes' = [writes EXCEPT ![k] = @ + 1]
            /\ queued' = [queued EXCEPT ![k] = @ + 1]
       ELSE UNCHANGED <<writes, queued>>

(* on_new_connection with status >= 0, after calloc of the context and     *)
(* uv_tcp_init succeeded (their failures return with nothing changed).     *)
(* A failed uv_accept frees the context of the initialised handle.         *)
AcceptFails(k) ==
  /\ loop = "running" /\ listener = "active" /\ ctx[k] = "none"
  /\ AcceptCanFail
  /\ handle' = [handle EXCEPT ![k] = "active"]
  /\ ctx' = [ctx EXCEPT ![k] = "freed"]
  /\ UNCHANGED <<loop, listener, closeCb, reading, rpc, writes, opens, closes,
                 reads, reported, queued>>

(* uv_accept succeeded: the read buffer, jsonrpc_conn_new (which calls     *)
(* on_open) and uv_read_start, each of which may fail and then closes the  *)
(* transport.                                                              *)
Accept(k) ==
  /\ loop = "running" /\ listener = "active" /\ ctx[k] = "none"
  /\ ctx' = [ctx EXCEPT ![k] = "live"]
  /\ \E bufFails, connFails, startFails \in Failures(AllocCanFail) :
       \/ /\ bufFails \/ connFails
          /\ TransportClose(k)
          /\ UNCHANGED <<rpc, opens, reading>>
       \/ /\ ~bufFails /\ ~connFails
          /\ rpc' = [rpc EXCEPT ![k] = "live"]
          /\ opens' = [opens EXCEPT ![k] = 1]
          /\ IF startFails
             THEN /\ TransportClose(k)
                  /\ UNCHANGED reading
             ELSE /\ handle' = [handle EXCEPT ![k] = "active"]
                  /\ reading' = [reading EXCEPT ![k] = TRUE]
                  /\ UNCHANGED closeCb
  /\ UNCHANGED <<loop, listener, writes, closes, reads, reported, queued>>

(* Mutant: a hang-up frees the connection and the context at once instead *)
(* of closing the handle first.                                            *)
ReadEofFree(k) ==
  /\ loop = "running" /\ handle[k] = "active" /\ reading[k]
  /\ reads[k] < MaxReads
  /\ reads' = [reads EXCEPT ![k] = @ + 1]
  /\ ctx' = [ctx EXCEPT ![k] = "freed"]
  /\ rpc' = [rpc EXCEPT ![k] = "freed"]
  /\ closes' = [closes EXCEPT ![k] = @ + 1]
  /\ UNCHANGED <<loop, listener, handle, closeCb, reading, writes, opens,
                 reported, queued>>

(* on_uv_read with nread < 0: the peer hung up or the read failed. *)
ReadEof(k) ==
  /\ loop = "running" /\ handle[k] = "active" /\ reading[k]
  /\ reads[k] < MaxReads
  /\ reads' = [reads EXCEPT ![k] = @ + 1]
  /\ TransportClose(k)
  /\ UNCHANGED <<loop, listener, reading, ctx, rpc, writes, opens, closes,
                 reported, queued>>

(* on_uv_read with nread > 0: jsonrpc_conn_feed, which may send a reply    *)
(* and may then call transport.close.                                      *)
ReadFeed(k) ==
  /\ loop = "running" /\ handle[k] = "active" /\ reading[k]
  /\ reads[k] < MaxReads
  /\ reads' = [reads EXCEPT ![k] = @ + 1]
  /\ \/ SendRaw(k)
     \/ UNCHANGED <<reported, writes, queued>>
  /\ \/ TransportClose(k)
     \/ UNCHANGED <<handle, closeCb>>
  /\ UNCHANGED <<loop, listener, reading, ctx, rpc, opens, closes>>

(* The application replies out of band (jsonrpc_conn_send_result) on a    *)
(* connection it still holds, i.e. one whose on_close has not run.         *)
SendOutOfBand(k) ==
  /\ loop = "running" /\ rpc[k] = "live"
  /\ SendRaw(k)
  /\ UNCHANGED <<loop, listener, handle, closeCb, reading, ctx, rpc, opens,
                 closes, reads>>

(* Mutant: on_uv_write without its request being outstanding. *)
WriteDoneUnguarded(k) ==
  /\ loop # "closed" /\ handle[k] = "active"
  /\ writes' = [writes EXCEPT ![k] = @ - 1]
  /\ UNCHANGED <<loop, listener, handle, closeCb, reading, ctx, rpc, opens,
                 closes, reads, reported, queued>>

(* on_uv_write: the write finished and its context is freed. *)
WriteDone(k) ==
  /\ loop # "closed" /\ handle[k] = "active" /\ writes[k] > 0
  /\ writes' = [writes EXCEPT ![k] = @ - 1]
  /\ UNCHANGED <<loop, listener, handle, closeCb, reading, ctx, rpc, opens,
                 closes, reads, reported, queued>>

(* Mutant: on_uv_client_closed frees the context but not the connection. *)
CloseDoneNoConnFree(k) ==
  /\ loop # "closed" /\ handle[k] = "closing"
  /\ handle' = [handle EXCEPT ![k] = "closed"]
  /\ writes' = [writes EXCEPT ![k] = 0]
  /\ ctx' = [ctx EXCEPT ![k] = IF closeCb[k] THEN "freed" ELSE @]
  /\ UNCHANGED <<loop, listener, closeCb, reading, rpc, closes, opens, reads,
                 reported, queued>>

(* The loop finishes closing a client handle: pending writes are cancelled *)
(* (on_uv_write frees them), then the close callback, if any, runs:        *)
(* on_uv_client_closed calls jsonrpc_conn_free (on_close) and frees ctx.   *)
CloseDone(k) ==
  /\ loop # "closed" /\ handle[k] = "closing"
  /\ handle' = [handle EXCEPT ![k] = "closed"]
  /\ writes' = [writes EXCEPT ![k] = 0]
  /\ IF closeCb[k]
     THEN /\ ctx' = [ctx EXCEPT ![k] = "freed"]
          /\ rpc' = [rpc EXCEPT ![k] = IF @ = "live" THEN "freed" ELSE @]
          /\ closes' = [closes EXCEPT ![k] = IF rpc[k] = "live" THEN @ + 1 ELSE @]
     ELSE UNCHANGED <<ctx, rpc, closes>>
  /\ UNCHANGED <<loop, listener, closeCb, reading, opens, reads, reported, queued>>

(* close_handle: uv_close with a null callback, unless already closing. *)
CloseHandle(h) == IF h = "active" THEN "closing" ELSE h

(* server_request_shutdown: uv_stop, then uv_walk applies close_handle to  *)
(* every handle; start_jsonrpc_server then runs the loop again to drain.   *)
RequestShutdown ==
  /\ loop = "running"
  /\ loop' = "draining"
  /\ listener' = CloseHandle(listener)
  /\ handle' = [k \in Clients |-> CloseHandle(handle[k])]
  /\ closeCb' = [k \in Clients |-> IF handle[k] = "active" THEN FALSE ELSE closeCb[k]]
  /\ UNCHANGED <<reading, ctx, rpc, writes, opens, closes, reads, reported, queued>>

(* main.c on_signal: SIGINT or SIGTERM stops and closes its own signal     *)
(* handle (not modelled) and requests the shutdown.                        *)
Shutdown ==
  /\ ShutdownCanOccur
  /\ RequestShutdown

(* The listening socket's close completes. *)
ListenerClosed ==
  /\ listener = "closing"
  /\ listener' = "closed"
  /\ UNCHANGED <<loop, handle, closeCb, reading, ctx, rpc, writes, opens,
                 closes, reads, reported, queued>>

(* The second uv_run returns when nothing is left closing; uv_loop_close. *)
LoopExit ==
  /\ loop = "draining" /\ listener = "closed"
  /\ \A k \in Clients : handle[k] # "closing"
  /\ loop' = "closed"
  /\ UNCHANGED <<listener, handle, closeCb, reading, ctx, rpc, writes, opens,
                 closes, reads, reported, queued>>

Next ==
  \/ \E k \in Clients :
       \/ Accept(k) \/ AcceptFails(k) \/ ReadEof(k) \/ ReadFeed(k)
       \/ SendOutOfBand(k) \/ WriteDone(k) \/ CloseDone(k)
  \/ Shutdown \/ ListenerClosed \/ LoopExit

Spec == Init /\ [][Next]_vars

(* libuv runs every pending close and write callback on each loop          *)
(* iteration, and the drain loop runs until nothing is closing.  The peer, *)
(* the application and the signal are not assumed to act.                  *)
FairSpec ==
  /\ Spec
  /\ \A k \in Clients : WF_vars(CloseDone(k)) /\ WF_vars(WriteDone(k))
  /\ WF_vars(ListenerClosed) /\ WF_vars(LoopExit)

-----------------------------------------------------------------------------
(* A client_ctx_t (which embeds the uv_tcp_t) is freed only once libuv is  *)
(* done with its handle: libuv requires uv_close, and its callback, before *)
(* the memory of an initialised handle is released.                        *)
NoFreeWhileRegistered ==
  \A k \in Clients : ctx[k] = "freed" => handle[k] \in {"none", "closed"}

(* on_close runs at most once per connection, never without on_open, and   *)
(* exactly once by the time the client's context is freed (spec 3, 5).     *)
OnCloseBalanced ==
  \A k \in Clients :
    /\ closes[k] <= opens[k]
    /\ ctx[k] = "freed" => closes[k] = opens[k]

(* Every transport close leads to the client being freed: conn_free (and   *)
(* on_close) and the context release happen in the close callback.         *)
ClosedClientsReleased ==
  \A k \in Clients : handle[k] = "closing" ~> ctx[k] = "freed"

(* After shutdown, by the time the loop is closed, every opened connection *)
(* has had on_close and its context freed, as the comment before the drain *)
(* run in start_jsonrpc_server says ("free contexts before exit").          *)
ShutdownReleasesClients ==
  loop = "closed" => \A k \in Clients : ctx[k] # "live" /\ closes[k] = opens[k]

(* A reply the core counts as sent (jsonrpc_send_value returned true) was  *)
(* handed to uv_write: spec 4.4, send "returns success iff the transport   *)
(* call succeeded".                                                        *)
ReportedSendsQueued ==
  \A k \in Clients : reported[k] = queued[k]
=============================================================================
