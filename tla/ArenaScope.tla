----------------------------- MODULE ArenaScope -----------------------------
(***************************************************************************)
(* The allocator shim of src/src/jsonrpc.c (lines 59-141): parson's        *)
(* allocations go to the arena bound in the global g_current_arena, or to  *)
(* the heap when none is bound or it is full.  jsonrpc_arena_scope_begin   *)
(* binds a connection's arena for one message epoch (one line of           *)
(* conn_feed, or one conn_send_result / conn_send_error call) and          *)
(* scope_end clears it and restores the previous binding.                  *)
(*                                                                         *)
(* Scopes nest: a handler running inside a feed epoch may send on any      *)
(* connection, and a transport whose send_raw delivers in-process (or a    *)
(* handler) may feed a connection from inside an epoch.  The C call stack  *)
(* of open scopes is the sequence stack; each frame remembers the arenas   *)
(* its live values (the parsed request, the response being built) were     *)
(* allocated in.  An arena is named by the connection that owns it.        *)
(* Sizes are abstracted: an allocation takes one unit of an arena of Cap   *)
(* units (arena_alloc in BumpArena), and the heap never fails here.        *)
(***************************************************************************)
EXTENDS Naturals, Sequences

CONSTANTS
  Conns,          \* connections
  NoArena,        \* the null binding
  Heap,           \* the origin of a calloc'd block
  Cap,            \* values an arena holds before the shim falls back to calloc
  MaxDepth,       \* scopes open at once
  MaxAllocs,      \* allocations of one epoch
  NestedSends,    \* handlers call conn_send_result/error
  ReentrantFeeds  \* conn_feed may be entered from inside an epoch

ASSUME ScopeAssumption ==
  /\ NoArena \notin Conns /\ Heap \notin Conns
  /\ Cap \in Nat /\ MaxDepth \in Nat \ {0} /\ MaxAllocs \in Nat
  /\ NestedSends \in BOOLEAN /\ ReentrantFeeds \in BOOLEAN

Frame == [conn : Conns, kind : {"feed", "send"}, prev : Conns \cup {NoArena},
          changed : BOOLEAN, vals : SUBSET (Conns \cup {Heap}),
          allocs : 0..MaxAllocs, dangling : SUBSET Conns]

VARIABLES
  conn,      \* conn[c]: "none" before jsonrpc_conn_new, "live", "freed"
  hasArena,  \* hasArena[c]: conn->arena != NULL
  used,      \* used[c]: units of c's arena handed out since its last clear
  bound,     \* g_current_arena
  stack      \* the open scopes, innermost last

vars == <<conn, hasArena, used, bound, stack>>

TypeOK ==
  /\ conn \in [Conns -> {"none", "live", "freed"}]
  /\ hasArena \in [Conns -> BOOLEAN]
  /\ used \in [Conns -> 0..Cap]
  /\ bound \in Conns \cup {NoArena}
  /\ stack \in Seq(Frame)

Init ==
  /\ conn = [c \in Conns |-> "none"]
  /\ hasArena = [c \in Conns |-> FALSE]
  /\ used = [c \in Conns |-> 0]
  /\ bound = NoArena
  /\ stack = <<>>

Top == stack[Len(stack)]
OnStack == {stack[i].conn : i \in 1..Len(stack)}

(* The values of every open frame but the innermost that live in arena c   *)
(* are lost when c is cleared or destroyed.                                *)
Invalidate(s, c) ==
  [i \in 1..Len(s) |->
     IF c \in s[i].vals THEN [s[i] EXCEPT !.dangling = @ \cup {c}] ELSE s[i]]

-----------------------------------------------------------------------------
(* jsonrpc_conn_new: arena_create may fail, leaving conn->arena NULL. *)
ConnNew(c) ==
  /\ conn[c] = "none" /\ stack = <<>>
  /\ conn' = [conn EXCEPT ![c] = "live"]
  /\ \E a \in BOOLEAN : hasArena' = [hasArena EXCEPT ![c] = a]
  /\ UNCHANGED <<used, bound, stack>>

(* Who may open a scope on c now: the event loop (feed or an out-of-band   *)
(* send), a handler of the innermost feed epoch (send), or, with           *)
(* re-entrant feeding, any code inside an epoch (feed).                    *)
MayEnter(kind) ==
  \/ stack = <<>>
  \/ /\ stack # <<>> /\ Len(stack) < MaxDepth
     /\ \/ kind = "send" /\ NestedSends /\ Top.kind = "feed"
        \/ kind = "feed" /\ ReentrantFeeds

(* Mutant: the scope rebinds even when the arena is already bound. *)
ChangesAlways(c) == hasArena[c]

(* scope_begin's test: a non-null arena that is not the one bound now. *)
Changes(c) == hasArena[c] /\ bound # c

(* jsonrpc_arena_scope_begin(conn->arena), at the start of one line of     *)
(* conn_feed or of conn_send_result / conn_send_error.  The binding        *)
(* changes only when the arena is non-null and not the one bound now.      *)
ScopeBegin(c, kind) ==
  /\ conn[c] = "live" /\ MayEnter(kind)
  /\ LET changed == Changes(c)
     IN  /\ stack' = Append(stack, [conn |-> c, kind |-> kind, prev |-> bound,
                                    changed |-> changed, vals |-> {},
                                    allocs |-> 0, dangling |-> {}])
         /\ bound' = IF changed THEN c ELSE bound
  /\ UNCHANGED <<conn, hasArena, used>>

(* Mutant: no fallback to calloc when the arena is full. *)
HasRoomAlways(a) == TRUE

(* arena_alloc succeeds: the bound arena has room for the block. *)
HasRoom(a) == used[a] < Cap

(* jsonrpc_arena_malloc inside the innermost epoch: the bound arena if it  *)
(* has room, else calloc; the block is tagged with its origin.            *)
ArenaMalloc ==
  /\ stack # <<>> /\ Top.allocs < MaxAllocs
  /\ LET inArena == bound # NoArena /\ HasRoom(bound)
         origin  == IF inArena THEN bound ELSE Heap
     IN  /\ used' = IF inArena THEN [used EXCEPT ![bound] = @ + 1] ELSE used
         /\ stack' = [stack EXCEPT ![Len(stack)].vals = @ \cup {origin},
                                   ![Len(stack)].allocs = @ + 1]
  /\ UNCHANGED <<conn, hasArena, bound>>

(* Mutant: scope_end leaves the binding as it is. *)
RestoredKept(f) == bound

(* The binding scope_end leaves: the saved one, if the scope changed it. *)
Restored(f) == IF f.changed THEN f.prev ELSE bound

(* The end of an epoch: json_value_free of the response and the request    *)
(* (jsonrpc_arena_free releases heap blocks and leaves arena blocks), then *)
(* jsonrpc_arena_scope_end: if the scope changed the binding, clear the    *)
(* arena and restore the previous binding.                                 *)
ScopeEnd ==
  /\ stack # <<>>
  /\ LET f    == Top
         rest == SubSeq(stack, 1, Len(stack) - 1)
     IN  /\ stack' = IF f.changed THEN Invalidate(rest, f.conn) ELSE rest
         /\ used' = IF f.changed THEN [used EXCEPT ![f.conn] = 0] ELSE used
         /\ bound' = Restored(f)
  /\ UNCHANGED <<conn, hasArena>>

(* jsonrpc_conn_free, from the event loop or from code inside an epoch of  *)
(* another connection: the binding is dropped if it is this arena, and the *)
(* arena is destroyed.                                                     *)
ConnFree(c) ==
  /\ conn[c] = "live" /\ c \notin OnStack
  /\ conn' = [conn EXCEPT ![c] = "freed"]
  /\ bound' = IF bound = c THEN NoArena ELSE bound
  /\ stack' = IF hasArena[c] THEN Invalidate(stack, c) ELSE stack
  /\ hasArena' = [hasArena EXCEPT ![c] = FALSE]
  /\ used' = [used EXCEPT ![c] = 0]

Next ==
  \/ \E c \in Conns :
       \/ ConnNew(c) \/ ConnFree(c)
       \/ \E k \in {"feed", "send"} : ScopeBegin(c, k)
  \/ ArenaMalloc
  \/ ScopeEnd

Spec == Init /\ [][Next]_vars

-----------------------------------------------------------------------------
(* Every value an open epoch still holds (its parsed request, the response *)
(* it is building) lives in an arena that has been neither cleared nor     *)
(* destroyed since it was allocated: scope_end of a nested scope never     *)
(* clears an arena an enclosing epoch is still using (spec 4.2, 5).        *)
EpochValuesIntact ==
  \A i \in 1..Len(stack) : stack[i].dangling = {}

(* g_current_arena never names a freed or absent arena, and it is null     *)
(* between epochs: shim allocations outside any scope go to the heap       *)
(* (spec 4.2 "Failure mode", jsonrpc_conn_free lines 538-541).             *)
BindingSound ==
  /\ bound # NoArena => conn[bound] = "live" /\ hasArena[bound]
  /\ stack = <<>> => bound = NoArena
=============================================================================
