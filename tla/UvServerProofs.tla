--------------------------- MODULE UvServerProofs ---------------------------
(***************************************************************************)
(* Proofs about the libuv server glue, for every number of clients and     *)
(* every bound, with or without failures and shutdown.                     *)
(***************************************************************************)
EXTENDS UvServer, TLAPS

USE ServerAssumption

(* What each client's connection state says of its callbacks and writes:   *)
(* on_open ran exactly when jsonrpc_conn_new succeeded, on_close exactly   *)
(* when jsonrpc_conn_free ran; a context not yet accepted has no           *)
(* connection, a freed one has no live connection; and every outstanding   *)
(* write was queued by a send the core counted.                           *)
ClientInv(k) ==
  /\ rpc[k] = "none"  => opens[k] = 0 /\ closes[k] = 0
  /\ rpc[k] = "live"  => opens[k] = 1 /\ closes[k] = 0
  /\ rpc[k] = "freed" => opens[k] = 1 /\ closes[k] = 1
  /\ ctx[k] = "none"  => rpc[k] = "none"
  /\ ctx[k] = "freed" => rpc[k] # "live"
  /\ writes[k] <= queued[k] /\ queued[k] <= reported[k]

IInv == TypeOK /\ \A k \in Clients : ClientInv(k)

(* Init establishes the inductive invariant. *)
LEMMA InitIInv == Init => IInv
BY DEF Init, IInv, TypeOK, ClientInv

(* Each action keeps the invariant: first the types, then the invariant of *)
(* every client, the one the action is about and the others it leaves be.  *)
(* on_new_connection after a successful uv_accept: the connection is      *)
(* created, or the transport closed, as the three failure outcomes say.    *)
LEMMA AcceptEffect ==
  ASSUME NEW k \in Clients, Accept(k)
  PROVE  /\ ctx[k] = "none" /\ ctx' = [ctx EXCEPT ![k] = "live"]
         /\ \/ /\ handle' = [handle EXCEPT ![k] = "closing"]
               /\ closeCb' = [closeCb EXCEPT ![k] = TRUE]
               /\ UNCHANGED <<rpc, opens, reading>>
            \/ /\ rpc' = [rpc EXCEPT ![k] = "live"]
               /\ opens' = [opens EXCEPT ![k] = 1]
               /\ handle' = [handle EXCEPT ![k] = "closing"]
               /\ closeCb' = [closeCb EXCEPT ![k] = TRUE]
               /\ UNCHANGED reading
            \/ /\ rpc' = [rpc EXCEPT ![k] = "live"]
               /\ opens' = [opens EXCEPT ![k] = 1]
               /\ handle' = [handle EXCEPT ![k] = "active"]
               /\ reading' = [reading EXCEPT ![k] = TRUE]
               /\ UNCHANGED closeCb
         /\ UNCHANGED <<loop, listener, writes, closes, reads, reported, queued>>
<1>1. PICK bufFails, connFails, startFails \in Failures(AllocCanFail) :
        \/ /\ bufFails \/ connFails
           /\ TransportClose(k)
           /\ UNCHANGED <<rpc, opens, reading>>
        \/ /\ ~bufFails /\ ~connFails
           /\ rpc' = [rpc EXCEPT ![k] = "live"]
           /\ opens' = [opens EXCEPT ![k] = 1]
           /\ IF startFails
              THEN /\ TransportClose(k)
                   /\ UNCHANGED reading
              ELSE /\ handle' = [handle EXCEPT ![k] = "active"]
                   /\ reading' = [reading EXCEPT ![k] = TRUE]
                   /\ UNCHANGED closeCb
  BY Zenon DEF Accept
<1>2. /\ ctx[k] = "none" /\ ctx' = [ctx EXCEPT ![k] = "live"]
      /\ UNCHANGED <<loop, listener, writes, closes, reads, reported, queued>>
  BY Zenon DEF Accept
<1>. QED  BY <1>1, <1>2, Zenon DEF TransportClose

LEMMA AcceptIInv ==
  ASSUME IInv, NEW k \in Clients, Accept(k)
  PROVE  IInv'
<1>1. TypeOK'
  <2>1. /\ ctx' = [ctx EXCEPT ![k] = "live"]
        /\ UNCHANGED <<loop, listener, writes, closes, reads, reported, queued>>
    BY AcceptEffect
  <2>2. CASE /\ handle' = [handle EXCEPT ![k] = "closing"]
             /\ closeCb' = [closeCb EXCEPT ![k] = TRUE]
             /\ UNCHANGED <<rpc, opens, reading>>
    BY <2>1, <2>2 DEF IInv, TypeOK
  <2>3. CASE /\ rpc' = [rpc EXCEPT ![k] = "live"]
             /\ opens' = [opens EXCEPT ![k] = 1]
             /\ handle' = [handle EXCEPT ![k] = "closing"]
             /\ closeCb' = [closeCb EXCEPT ![k] = TRUE]
             /\ UNCHANGED reading
    BY <2>1, <2>3 DEF IInv, TypeOK
  <2>4. CASE /\ rpc' = [rpc EXCEPT ![k] = "live"]
             /\ opens' = [opens EXCEPT ![k] = 1]
             /\ handle' = [handle EXCEPT ![k] = "active"]
             /\ reading' = [reading EXCEPT ![k] = TRUE]
             /\ UNCHANGED closeCb
    BY <2>1, <2>4 DEF IInv, TypeOK
  <2>. QED  BY <2>2, <2>3, <2>4, AcceptEffect
<1>2. ASSUME NEW j \in Clients
      PROVE  ClientInv(j)'
  <2>1. ClientInv(j) /\ TypeOK
    BY DEF IInv
  <2>. QED  BY <2>1, AcceptEffect DEF TypeOK, ClientInv
<1>. QED  BY <1>1, <1>2 DEF IInv

LEMMA AcceptFailsIInv ==
  ASSUME IInv, NEW k \in Clients, AcceptFails(k)
  PROVE  IInv'
<1>1. TypeOK'
  BY DEF AcceptFails, IInv, TypeOK
<1>2. ASSUME NEW j \in Clients
      PROVE  ClientInv(j)'
  <2>1. ClientInv(j) /\ TypeOK
    BY DEF IInv
  <2>. QED  BY <2>1 DEF AcceptFails, TypeOK, ClientInv
<1>. QED  BY <1>1, <1>2 DEF IInv

LEMMA ReadEofIInv ==
  ASSUME IInv, NEW k \in Clients, ReadEof(k)
  PROVE  IInv'
<1>1. TypeOK'
  BY DEF ReadEof, TransportClose, IInv, TypeOK
<1>2. ASSUME NEW j \in Clients
      PROVE  ClientInv(j)'
  <2>1. ClientInv(j) /\ TypeOK
    BY DEF IInv
  <2>. QED  BY <2>1 DEF ReadEof, TransportClose, TypeOK, ClientInv
<1>. QED  BY <1>1, <1>2 DEF IInv

(* transport_send_raw as the core sees it: the reply is counted, and either *)
(* queued with uv_write or dropped.                                        *)
LEMMA SendRawEffect ==
  ASSUME NEW k \in Clients, SendRaw(k)
  PROVE  /\ reported[k] < MaxSends
         /\ reported' = [reported EXCEPT ![k] = @ + 1]
         /\ \/ /\ writes' = [writes EXCEPT ![k] = @ + 1]
               /\ queued' = [queued EXCEPT ![k] = @ + 1]
            \/ UNCHANGED <<writes, queued>>
<1>1. PICK allocFails \in Failures(AllocCanFail) :
        IF handle[k] = "active" /\ ~allocFails
        THEN /\ writes' = [writes EXCEPT ![k] = @ + 1]
             /\ queued' = [queued EXCEPT ![k] = @ + 1]
        ELSE UNCHANGED <<writes, queued>>
  BY Zenon DEF SendRaw
<1>. QED  BY <1>1, Zenon DEF SendRaw

LEMMA ReadFeedIInv ==
  ASSUME IInv, NEW k \in Clients, ReadFeed(k)
  PROVE  IInv'
<1>1. TypeOK'
  <2>1. /\ reads[k] < MaxReads /\ reads' = [reads EXCEPT ![k] = @ + 1]
        /\ loop' = loop /\ listener' = listener /\ reading' = reading
        /\ ctx' = ctx /\ rpc' = rpc /\ opens' = opens /\ closes' = closes
        /\ \/ TransportClose(k)
           \/ UNCHANGED <<handle, closeCb>>
    BY Zenon DEF ReadFeed
  <2>2. \/ SendRaw(k)
        \/ UNCHANGED <<reported, writes, queued>>
    BY Zenon DEF ReadFeed
  <2>3. /\ handle' \in [Clients -> {"none", "active", "closing", "closed"}]
        /\ closeCb' \in [Clients -> BOOLEAN]
    BY <2>1 DEF TransportClose, IInv, TypeOK
  <2>4. /\ writes' \in [Clients -> 0..MaxSends]
        /\ reported' \in [Clients -> 0..MaxSends]
        /\ queued' \in [Clients -> 0..MaxSends]
    <3>1. CASE SendRaw(k)
      BY <3>1, SendRawEffect DEF IInv, TypeOK, ClientInv
    <3>2. CASE UNCHANGED <<reported, writes, queued>>
      BY <3>2 DEF IInv, TypeOK
    <3>. QED  BY <2>2, <3>1, <3>2
  <2>5. reads' \in [Clients -> 0..MaxReads]
    BY <2>1 DEF IInv, TypeOK
  <2>. QED  BY <2>1, <2>3, <2>4, <2>5 DEF IInv, TypeOK
<1>2. ASSUME NEW j \in Clients
      PROVE  ClientInv(j)'
  <2>1. ClientInv(j) /\ TypeOK
    BY DEF IInv
  <2>. QED  BY <2>1, SendRawEffect DEF ReadFeed, TransportClose, TypeOK, ClientInv
<1>. QED  BY <1>1, <1>2 DEF IInv

LEMMA SendOutOfBandIInv ==
  ASSUME IInv, NEW k \in Clients, SendOutOfBand(k)
  PROVE  IInv'
<1>1. TypeOK'
  BY SendRawEffect, SMTT(60) DEF SendOutOfBand, IInv, TypeOK, ClientInv
<1>2. ASSUME NEW j \in Clients
      PROVE  ClientInv(j)'
  <2>1. ClientInv(j) /\ TypeOK
    BY DEF IInv
  <2>. QED  BY <2>1, SendRawEffect DEF SendOutOfBand, TypeOK, ClientInv
<1>. QED  BY <1>1, <1>2 DEF IInv

LEMMA WriteDoneIInv ==
  ASSUME IInv, NEW k \in Clients, WriteDone(k)
  PROVE  IInv'
<1>1. TypeOK'
  BY DEF WriteDone, IInv, TypeOK
<1>2. ASSUME NEW j \in Clients
      PROVE  ClientInv(j)'
  <2>1. ClientInv(j) /\ TypeOK
    BY DEF IInv
  <2>. QED  BY <2>1 DEF WriteDone, TypeOK, ClientInv
<1>. QED  BY <1>1, <1>2 DEF IInv

LEMMA CloseDoneIInv ==
  ASSUME IInv, NEW k \in Clients, CloseDone(k)
  PROVE  IInv'
<1>1. TypeOK'
  BY DEF CloseDone, IInv, TypeOK
<1>2. ASSUME NEW j \in Clients
      PROVE  ClientInv(j)'
  <2>1. ClientInv(j) /\ TypeOK
    BY DEF IInv
  <2>. QED  BY <2>1 DEF CloseDone, TypeOK, ClientInv
<1>. QED  BY <1>1, <1>2 DEF IInv

LEMMA ShutdownIInv ==
  ASSUME IInv, Shutdown
  PROVE  IInv'
<1>1. TypeOK'
  BY DEF Shutdown, RequestShutdown, CloseHandle, IInv, TypeOK
<1>2. ASSUME NEW j \in Clients
      PROVE  ClientInv(j)'
  <2>1. ClientInv(j) /\ TypeOK
    BY DEF IInv
  <2>. QED  BY <2>1 DEF Shutdown, RequestShutdown, CloseHandle, TypeOK, ClientInv
<1>. QED  BY <1>1, <1>2 DEF IInv

LEMMA ListenerClosedIInv ==
  ASSUME IInv, ListenerClosed
  PROVE  IInv'
<1>1. TypeOK'
  BY DEF ListenerClosed, IInv, TypeOK
<1>2. ASSUME NEW j \in Clients
      PROVE  ClientInv(j)'
  <2>1. ClientInv(j) /\ TypeOK
    BY DEF IInv
  <2>. QED  BY <2>1 DEF ListenerClosed, TypeOK, ClientInv
<1>. QED  BY <1>1, <1>2 DEF IInv

LEMMA LoopExitIInv ==
  ASSUME IInv, LoopExit
  PROVE  IInv'
<1>1. TypeOK'
  BY DEF LoopExit, IInv, TypeOK
<1>2. ASSUME NEW j \in Clients
      PROVE  ClientInv(j)'
  <2>1. ClientInv(j) /\ TypeOK
    BY DEF IInv
  <2>. QED  BY <2>1 DEF LoopExit, TypeOK, ClientInv
<1>. QED  BY <1>1, <1>2 DEF IInv

(* Every step of the server keeps the inductive invariant. *)
LEMMA NextIInv ==
  ASSUME IInv, [Next]_vars
  PROVE  IInv'
<1>1. CASE UNCHANGED vars
  BY <1>1 DEF vars, IInv, TypeOK, ClientInv
<1>2. ASSUME NEW k \in Clients,
             \/ Accept(k) \/ AcceptFails(k) \/ ReadEof(k) \/ ReadFeed(k)
             \/ SendOutOfBand(k) \/ WriteDone(k) \/ CloseDone(k)
      PROVE  IInv'
  BY <1>2, AcceptIInv, AcceptFailsIInv, ReadEofIInv, ReadFeedIInv,
     SendOutOfBandIInv, WriteDoneIInv, CloseDoneIInv
<1>3. CASE Shutdown
  BY <1>3, ShutdownIInv
<1>4. CASE ListenerClosed
  BY <1>4, ListenerClosedIInv
<1>5. CASE LoopExit
  BY <1>5, LoopExitIInv
<1>. QED  BY <1>1, <1>2, <1>3, <1>4, <1>5 DEF Next

(* on_close runs at most once per connection and never without on_open,   *)
(* and a freed client context has had its on_close: through every failure *)
(* path of on_new_connection, reads that close, close callbacks and a      *)
(* shutdown, for any number of clients.                                    *)
THEOREM CloseBalanced == Spec => []OnCloseBalanced
<1>1. Init => IInv
  BY InitIInv
<1>2. IInv /\ [Next]_vars => IInv'
  BY NextIInv
<1>3. IInv => OnCloseBalanced
  <2>. SUFFICES ASSUME IInv, NEW k \in Clients
                PROVE  /\ closes[k] <= opens[k]
                       /\ ctx[k] = "freed" => closes[k] = opens[k]
    BY DEF OnCloseBalanced
  <2>1. ClientInv(k) /\ rpc[k] \in {"none", "live", "freed"}
    BY DEF IInv, TypeOK
  <2>. QED  BY <2>1 DEF ClientInv
<1>. QED  BY <1>1, <1>2, <1>3, PTL DEF Spec

(* The server's per-client state keeps its types through every accept,     *)
(* read, send, write callback, close callback and shutdown: in particular   *)
(* the count of completed writes stays within its bound.                    *)
THEOREM ServerTypeCorrect == Spec => []TypeOK
<1>1. Init => IInv
  BY InitIInv
<1>2. IInv /\ [Next]_vars => IInv'
  BY NextIInv
<1>3. IInv => TypeOK
  BY DEF IInv
<1>. QED  BY <1>1, <1>2, <1>3, PTL DEF Spec

=============================================================================
