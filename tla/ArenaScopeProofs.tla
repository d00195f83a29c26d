-------------------------- MODULE ArenaScopeProofs --------------------------
(***************************************************************************)
(* Proofs about the allocator shim's scopes: g_current_arena is sound for  *)
(* every number of connections, arena capacity and nesting depth, and the  *)
(* values of an epoch survive nested scopes unless feeds re-enter more     *)
(* than one level deep.                                                    *)
(***************************************************************************)
EXTENDS ArenaScope, SequenceTheorems, TLAPS

USE ScopeAssumption

(* The binding in force while frame i is the innermost one: the arena its *)
(* scope_begin installed, or the one it found.                             *)
Eff(i) == IF stack[i].changed THEN stack[i].conn ELSE stack[i].prev

(* The binding frame i found at its scope_begin. *)
Below(i) == IF i = 1 THEN NoArena ELSE Eff(i - 1)

(* What every open frame says of the binding: scope_begin saved the       *)
(* binding of the frame below; a frame that re-bound did so to a live      *)
(* arena other than the one it found; a saved non-null binding is the      *)
(* arena of a frame further down that installed it; and g_current_arena is *)
(* the binding of the innermost frame.  Depth is bounded by MaxDepth, and  *)
(* a nested frame is a handler's send on a feed, or a re-entrant feed.     *)
FrameInv(i) ==
  /\ conn[stack[i].conn] = "live"
  /\ stack[i].prev = Below(i)
  /\ stack[i].changed => hasArena[stack[i].conn] /\ stack[i].prev # stack[i].conn
  /\ stack[i].prev # NoArena =>
       \E j \in 1..(i - 1) : stack[j].changed /\ stack[j].conn = stack[i].prev
  /\ i > 1 => \/ stack[i].kind = "send" /\ stack[i - 1].kind = "feed"
              \/ stack[i].kind = "feed" /\ ReentrantFeeds

BindInv ==
  /\ TypeOK
  /\ \A i \in 1..Len(stack) : FrameInv(i)
  /\ bound = IF stack = <<>> THEN NoArena ELSE Eff(Len(stack))
  /\ Len(stack) <= MaxDepth

(* Each epoch's values were allocated while it was innermost, so they are *)
(* on the heap or in its own binding, and none of them has been cleared.   *)
ValsInv ==
  \A i \in 1..Len(stack) :
    /\ stack[i].vals \subseteq {Heap, Eff(i)}
    /\ stack[i].dangling = {}

-----------------------------------------------------------------------------
(* Frames s[1..n] and t[1..n] agree on what scope_begin recorded. *)
SameFrames(s, t, n) ==
  \A i \in 1..n : /\ s[i].conn = t[i].conn /\ s[i].prev = t[i].prev
                  /\ s[i].changed = t[i].changed /\ s[i].kind = t[i].kind

(* scope_begin pushes a frame and keeps those below it. *)
LEMMA PushFrames ==
  ASSUME NEW s \in Seq(Frame), NEW f \in Frame
  PROVE  /\ Append(s, f) \in Seq(Frame)
         /\ Len(Append(s, f)) = Len(s) + 1
         /\ Append(s, f)[Len(s) + 1] = f
         /\ SameFrames(s, Append(s, f), Len(s))
BY AppendProperties DEF SameFrames

(* A prefix of the frame stack is a frame stack of that length. *)
LEMMA PrefixFrames ==
  ASSUME NEW s \in Seq(Frame), NEW n \in Nat, n <= Len(s)
  PROVE  /\ SubSeq(s, 1, n) \in Seq(Frame)
         /\ Len(SubSeq(s, 1, n)) = n
         /\ \A i \in 1..n : SubSeq(s, 1, n)[i] = s[i]
<1>1. \A i \in 1..n : s[i] \in Frame
  BY LenProperties
<1>2. /\ SubSeq(s, 1, n) \in Seq(Frame)
      /\ Len(SubSeq(s, 1, n)) = IF 1 <= n THEN n - 1 + 1 ELSE 0
      /\ \A i \in 1..n - 1 + 1 : SubSeq(s, 1, n)[i] = s[1 + i - 1]
  BY <1>1, SubSeqProperties
<1>3. (IF 1 <= n THEN n - 1 + 1 ELSE 0) = n
  OBVIOUS
<1>4. ASSUME NEW i \in 1..n
      PROVE  SubSeq(s, 1, n)[i] = s[i]
  <2>1. i \in 1..n - 1 + 1 /\ 1 + i - 1 = i
    OBVIOUS
  <2>. QED  BY <1>2, <2>1
<1>. QED  BY <1>2, <1>3, <1>4

(* scope_end pops the innermost frame and keeps the others. *)
LEMMA PopFrames ==
  ASSUME NEW s \in Seq(Frame), s # <<>>
  PROVE  /\ SubSeq(s, 1, Len(s) - 1) \in Seq(Frame)
         /\ Len(SubSeq(s, 1, Len(s) - 1)) = Len(s) - 1
         /\ SameFrames(s, SubSeq(s, 1, Len(s) - 1), Len(s) - 1)
         /\ \A i \in 1..Len(s) - 1 : SubSeq(s, 1, Len(s) - 1)[i] = s[i]
<1>1. Len(s) - 1 \in Nat /\ Len(s) - 1 <= Len(s)
  BY EmptySeq
<1>2. /\ SubSeq(s, 1, Len(s) - 1) \in Seq(Frame)
      /\ Len(SubSeq(s, 1, Len(s) - 1)) = Len(s) - 1
      /\ \A i \in 1..Len(s) - 1 : SubSeq(s, 1, Len(s) - 1)[i] = s[i]
  BY <1>1, PrefixFrames, Zenon
<1>. QED  BY <1>2 DEF SameFrames

(* Marking the values lost in arena c changes only the dangling fields. *)
LEMMA InvalidateFrames ==
  ASSUME NEW s \in Seq(Frame), NEW c \in Conns
  PROVE  /\ Invalidate(s, c) \in Seq(Frame)
         /\ Len(Invalidate(s, c)) = Len(s)
         /\ SameFrames(s, Invalidate(s, c), Len(s))
         /\ \A i \in 1..Len(s) :
              /\ Invalidate(s, c)[i].vals = s[i].vals
              /\ c \notin s[i].vals => Invalidate(s, c)[i] = s[i]
<1>. DEFINE t == Invalidate(s, c)
<1>1. ASSUME NEW i \in 1..Len(s)
      PROVE  /\ t[i] \in Frame
             /\ t[i].conn = s[i].conn /\ t[i].prev = s[i].prev
             /\ t[i].changed = s[i].changed /\ t[i].kind = s[i].kind
             /\ t[i].vals = s[i].vals
             /\ c \notin s[i].vals => t[i] = s[i]
  <2>1. s[i] \in Frame
    OBVIOUS
  <2>2. CASE c \in s[i].vals
    <3>1. t[i] = [s[i] EXCEPT !.dangling = @ \cup {c}]
      BY <2>2 DEF Invalidate
    <3>2. s[i].dangling \cup {c} \subseteq Conns
      BY <2>1 DEF Frame
    <3>. QED  BY <2>1, <2>2, <3>1, <3>2, Zenon DEF Frame
  <2>3. CASE c \notin s[i].vals
    BY <2>1, <2>3 DEF Invalidate
  <2>. QED  BY <2>2, <2>3
<1>2. t \in [1..Len(s) -> Frame]
  BY <1>1 DEF Invalidate
<1>. QED  BY <1>1, <1>2 DEF SameFrames, Invalidate
-----------------------------------------------------------------------------
(* A binding in force is null or the arena of a frame that installed it.  *)
LEMMA EffInstalled ==
  ASSUME BindInv, NEW i \in 1..Len(stack), Eff(i) # NoArena
  PROVE  \E j \in 1..i : stack[j].changed /\ stack[j].conn = Eff(i)
<1>1. FrameInv(i)
  BY DEF BindInv
<1>2. CASE stack[i].changed
  BY <1>2 DEF Eff
<1>3. CASE ~stack[i].changed
  <2>1. Eff(i) = stack[i].prev
    BY <1>3 DEF Eff
  <2>2. \E j \in 1..(i - 1) : stack[j].changed /\ stack[j].conn = stack[i].prev
    BY <1>1, <2>1 DEF FrameInv
  <2>. QED  BY <2>1, <2>2
<1>. QED  BY <1>2, <1>3

(* Frames that a step keeps, over connections that stay live and keep     *)
(* their arenas, keep what FrameInv says of them and their bindings.       *)
LEMMA KeepFrames ==
  ASSUME BindInv, NEW m \in Nat, m <= Len(stack),
         stack' \in Seq(Frame), m <= Len(stack'),
         SameFrames(stack, stack', m),
         \A i \in 1..m : /\ conn'[stack[i].conn] = "live"
                         /\ stack[i].changed => hasArena'[stack[i].conn]
  PROVE  \A i \in 1..m : FrameInv(i)' /\ Eff(i)' = Eff(i)
<1>1. \A i \in 1..m : Eff(i)' = Eff(i)
  BY DEF SameFrames, Eff
<1>2. \A i \in 1..m : Below(i)' = Below(i)
  BY <1>1 DEF Below
<1>. SUFFICES ASSUME NEW i \in 1..m PROVE FrameInv(i)'
  BY <1>1
<1>3. FrameInv(i)
  BY DEF BindInv
<1>4. /\ stack'[i].conn = stack[i].conn /\ stack'[i].prev = stack[i].prev
      /\ stack'[i].changed = stack[i].changed /\ stack'[i].kind = stack[i].kind
  BY DEF SameFrames
<1>5. i > 1 => stack'[i - 1].kind = stack[i - 1].kind
  BY DEF SameFrames
<1>6. \A j \in 1..(i - 1) : /\ stack'[j].changed = stack[j].changed
                            /\ stack'[j].conn = stack[j].conn
  BY DEF SameFrames
<1>. QED  BY <1>2, <1>3, <1>4, <1>5, <1>6 DEF FrameInv

-----------------------------------------------------------------------------
(* Before any connection exists no scope is open and nothing is bound. *)
LEMMA InitBind == Init => BindInv
BY DEF Init, BindInv, TypeOK

(* jsonrpc_conn_new only brings a fresh connection to life. *)
LEMMA ConnNewBind ==
  ASSUME BindInv, NEW c \in Conns, ConnNew(c)
  PROVE  BindInv'
<1>1. TypeOK'
  BY DEF BindInv, TypeOK, ConnNew
<1>2. \A i \in 1..Len(stack) : stack[i].conn # c
  BY DEF BindInv, FrameInv, ConnNew
<1>3. \A i \in 1..Len(stack) : FrameInv(i)' /\ Eff(i)' = Eff(i)
  <2>1. \A i \in 1..Len(stack) :
          /\ conn'[stack[i].conn] = "live"
          /\ stack[i].changed => hasArena'[stack[i].conn]
    BY <1>2 DEF BindInv, TypeOK, FrameInv, ConnNew
  <2>2. SameFrames(stack, stack', Len(stack))
    BY DEF ConnNew, SameFrames
  <2>. QED  BY <1>1, <2>1, <2>2, KeepFrames DEF TypeOK, ConnNew
<1>. QED  BY <1>1, <1>3 DEF BindInv, ConnNew

(* No binding in force on the stack is the arena of a connection that    *)
(* owns no open scope.                                                     *)
LEMMA FreedNotInForce ==
  ASSUME BindInv, NEW c \in Conns, c \notin OnStack
  PROVE  \A i \in 1..Len(stack) : Eff(i) # c
<1>. SUFFICES ASSUME NEW i \in 1..Len(stack), Eff(i) = c PROVE FALSE
  OBVIOUS
<1>1. Eff(i) # NoArena
  BY ScopeAssumption
<1>2. \E j \in 1..i : stack[j].changed /\ stack[j].conn = Eff(i)
  BY <1>1, EffInstalled
<1>. QED  BY <1>2 DEF OnStack

(* jsonrpc_conn_free of a connection no open scope belongs to: the        *)
(* binding in force is not its arena, so the binding is left alone.       *)
LEMMA ConnFreeBind ==
  ASSUME BindInv, NEW c \in Conns, ConnFree(c)
  PROVE  BindInv'
<1>1. \A i \in 1..Len(stack) : stack[i].conn # c
  BY DEF ConnFree, OnStack
<1>2. \A i \in 1..Len(stack) : Eff(i) # c
  BY FreedNotInForce DEF ConnFree
<1>3. bound # c
  <2>1. CASE stack = <<>>
    BY <2>1, ScopeAssumption DEF BindInv
  <2>2. CASE stack # <<>>
    <3>1. Len(stack) \in 1..Len(stack)
      BY <2>2, EmptySeq DEF BindInv, TypeOK
    <3>. QED  BY <1>2, <2>2, <3>1 DEF BindInv
  <2>. QED  BY <2>1, <2>2
<1>4. bound' = bound
  BY <1>3 DEF ConnFree
<1>5. /\ stack' \in Seq(Frame) /\ Len(stack') = Len(stack)
      /\ SameFrames(stack, stack', Len(stack))
  <2>1. CASE hasArena[c]
    BY <2>1, InvalidateFrames DEF ConnFree, BindInv, TypeOK
  <2>2. CASE ~hasArena[c]
    BY <2>2 DEF ConnFree, BindInv, TypeOK, SameFrames
  <2>. QED  BY <2>1, <2>2
<1>6. TypeOK'
  BY <1>4, <1>5 DEF BindInv, TypeOK, ConnFree
<1>7. \A i \in 1..Len(stack) : FrameInv(i)' /\ Eff(i)' = Eff(i)
  <2>1. \A i \in 1..Len(stack) :
          /\ conn'[stack[i].conn] = "live"
          /\ stack[i].changed => hasArena'[stack[i].conn]
    BY <1>1 DEF BindInv, TypeOK, FrameInv, ConnFree
  <2>. QED  BY <1>5, <2>1, KeepFrames DEF BindInv, TypeOK
<1>8. stack' = <<>> <=> stack = <<>>
  BY <1>5, EmptySeq DEF BindInv, TypeOK
<1>. QED  BY <1>4, <1>5, <1>6, <1>7, <1>8 DEF BindInv

(* jsonrpc_arena_scope_begin saves the binding in force in the new frame *)
(* and installs the connection's arena when it is present and not bound.   *)
LEMMA ScopeBeginBind ==
  ASSUME BindInv, NEW c \in Conns, NEW k \in {"feed", "send"}, ScopeBegin(c, k)
  PROVE  BindInv'
<1>. PICK n \in Nat : n = Len(stack)
  BY LenProperties DEF BindInv, TypeOK
<1>. DEFINE f == [conn |-> c, kind |-> k, prev |-> bound, changed |-> Changes(c),
                  vals |-> {}, allocs |-> 0, dangling |-> {}]
<1>1. n \in Nat /\ f \in Frame
  BY DEF BindInv, TypeOK, Frame, Changes
<1>2. stack' = Append(stack, f) /\ bound' = IF Changes(c) THEN c ELSE bound
  BY DEF ScopeBegin
<1>3. /\ stack' \in Seq(Frame) /\ Len(stack') = n + 1 /\ stack'[n + 1] = f
      /\ SameFrames(stack, stack', n)
  BY <1>1, <1>2, PushFrames DEF BindInv, TypeOK
<1>4. \A i \in 1..n : FrameInv(i)' /\ Eff(i)' = Eff(i)
  <2>1. \A i \in 1..n : /\ conn'[stack[i].conn] = "live"
                        /\ stack[i].changed => hasArena'[stack[i].conn]
    BY DEF BindInv, FrameInv, ScopeBegin
  <2>2. n \in Nat /\ n <= Len(stack) /\ n <= Len(stack')
    BY <1>1, <1>3
  <2>. QED  BY <1>3, <2>1, <2>2, KeepFrames
<1>5. Below(n + 1)' = bound
  <2>1. CASE n = 0
    <3>1. stack = <<>>
      BY <2>1, EmptySeq, Zenon DEF BindInv, TypeOK
    <3>2. bound = NoArena
      BY <3>1 DEF BindInv
    <3>. QED  BY <2>1, <3>2 DEF Below
  <2>2. CASE n # 0
    <3>1. stack # <<>>
      BY <2>2
    <3>2. Eff(n)' = Eff(n) /\ n \in 1..n
      BY <1>1, <1>4, <2>2
    <3>. QED  BY <3>1, <3>2 DEF Below, BindInv
  <2>. QED  BY <2>1, <2>2
<1>6. FrameInv(n + 1)'
  <2>1. conn'[stack'[n + 1].conn] = "live"
    BY <1>3 DEF ScopeBegin
  <2>2. stack'[n + 1].prev = Below(n + 1)'
    BY <1>3, <1>5
  <2>3. stack'[n + 1].changed => hasArena'[stack'[n + 1].conn]
                                  /\ stack'[n + 1].prev # stack'[n + 1].conn
    <3>1. /\ stack'[n + 1].changed = Changes(c)
          /\ stack'[n + 1].conn = c /\ stack'[n + 1].prev = bound
      BY <1>3 DEF f
    <3>2. hasArena' = hasArena
      BY DEF ScopeBegin
    <3>. QED  BY <3>1, <3>2, Zenon DEF Changes
  <2>4. stack'[n + 1].prev # NoArena =>
          \E j \in 1..n : stack'[j].changed /\ stack'[j].conn = stack'[n + 1].prev
    <3>. SUFFICES ASSUME bound # NoArena
                  PROVE  \E j \in 1..n : stack'[j].changed /\ stack'[j].conn = bound
      BY <1>3
    <3>1. stack # <<>>
      BY DEF BindInv
    <3>2. n \in 1..n /\ Eff(n) = bound
      BY <3>1, EmptySeq DEF BindInv, TypeOK
    <3>3. \E j \in 1..n : stack[j].changed /\ stack[j].conn = bound
      BY <3>2, EffInstalled
    <3>. QED  BY <1>3, <3>3 DEF SameFrames
  <2>5. n + 1 > 1 => \/ stack'[n + 1].kind = "send" /\ stack'[n].kind = "feed"
                     \/ stack'[n + 1].kind = "feed" /\ ReentrantFeeds
    <3>. SUFFICES ASSUME n # 0
                  PROVE  \/ k = "send" /\ stack[n].kind = "feed"
                         \/ k = "feed" /\ ReentrantFeeds
      BY <1>1, <1>3 DEF SameFrames
    <3>1. stack # <<>>
      BY <1>1
    <3>. QED  BY <3>1 DEF ScopeBegin, MayEnter, Top
  <2>. QED  BY <1>1, <2>1, <2>2, <2>3, <2>4, <2>5 DEF FrameInv
<1>7. TypeOK'
  BY <1>2, <1>3 DEF BindInv, TypeOK, ScopeBegin
<1>8. bound' = Eff(n + 1)'
  BY <1>2, <1>3 DEF Eff
<1>9. n + 1 <= MaxDepth
  <2>1. CASE stack = <<>>
    BY <2>1
  <2>2. CASE stack # <<>>
    BY <2>2 DEF ScopeBegin, MayEnter
  <2>. QED  BY <2>1, <2>2
<1>10. \A i \in 1..n + 1 : FrameInv(i)'
  BY <1>1, <1>4, <1>6
<1>11. stack' # <<>>
  BY <1>1, <1>3
<1>. QED  BY <1>3, <1>7, <1>8, <1>9, <1>10, <1>11 DEF BindInv

(* What jsonrpc_arena_malloc does to the innermost frame: its values gain *)
(* the block's origin, its count one, and nothing else changes.            *)
LEMMA MallocEffect ==
  ASSUME TypeOK, ArenaMalloc
  PROVE  LET n == Len(stack)
             origin == IF bound # NoArena /\ HasRoom(bound) THEN bound ELSE Heap
         IN  /\ stack' = [stack EXCEPT ![n] = [stack[n] EXCEPT
                                !.vals = @ \cup {origin}, !.allocs = @ + 1]]
             /\ used' = IF bound # NoArena /\ HasRoom(bound)
                          THEN [used EXCEPT ![bound] = @ + 1] ELSE used
             /\ UNCHANGED <<conn, hasArena, bound>>
BY Zenon DEF ArenaMalloc

(* jsonrpc_arena_malloc adds the block's origin to the innermost frame's *)
(* values and leaves every other frame, and what scope_begin recorded.     *)
LEMMA MallocFrames ==
  ASSUME BindInv, ArenaMalloc
  PROVE  /\ stack' \in Seq(Frame) /\ Len(stack') = Len(stack)
         /\ SameFrames(stack, stack', Len(stack))
         /\ \A i \in 1..Len(stack) - 1 : stack'[i] = stack[i]
         /\ stack'[Len(stack)].vals =
              stack[Len(stack)].vals
                \cup {IF bound # NoArena /\ HasRoom(bound) THEN bound ELSE Heap}
         /\ stack'[Len(stack)].dangling = stack[Len(stack)].dangling
<1>. PICK n \in Nat : n = Len(stack)
  BY LenProperties DEF BindInv, TypeOK
<1>. DEFINE inArena == bound # NoArena /\ HasRoom(bound)
            origin == IF inArena THEN bound ELSE Heap
            g == [stack[n] EXCEPT !.vals = @ \cup {origin}, !.allocs = @ + 1]
<1>1. n \in 1..n /\ stack[n] \in Frame
  BY EmptySeq DEF ArenaMalloc, BindInv, TypeOK
<1>2. stack' = [stack EXCEPT ![n] = g]
  BY MallocEffect DEF BindInv
<1>3. /\ origin \in Conns \cup {Heap}
      /\ stack[n].allocs + 1 \in 0..MaxAllocs
  BY <1>1 DEF ArenaMalloc, Top, Frame, BindInv, TypeOK
<1>4. /\ g \in Frame
      /\ g.conn = stack[n].conn /\ g.prev = stack[n].prev
      /\ g.changed = stack[n].changed /\ g.kind = stack[n].kind
      /\ g.vals = stack[n].vals \cup {origin} /\ g.dangling = stack[n].dangling
  <2>. DEFINE h == [stack[n] EXCEPT !.vals = stack[n].vals \cup {origin}]
  <2>1. /\ h \in Frame
        /\ h.conn = stack[n].conn /\ h.prev = stack[n].prev
        /\ h.changed = stack[n].changed /\ h.kind = stack[n].kind
        /\ h.vals = stack[n].vals \cup {origin} /\ h.dangling = stack[n].dangling
        /\ h.allocs = stack[n].allocs
    BY <1>1, <1>3, Zenon DEF Frame
  <2>2. g = [h EXCEPT !.allocs = h.allocs + 1]
    BY Zenon DEF g, h
  <2>. QED  BY <1>3, <2>1, <2>2, Zenon DEF Frame
<1>5. stack'[n] = g /\ \A i \in 1..n - 1 : stack'[i] = stack[i]
  <2>1. DOMAIN stack = 1..n
    BY LenProperties DEF BindInv, TypeOK
  <2>2. n \in DOMAIN stack /\ \A i \in 1..n - 1 : i \in DOMAIN stack /\ i # n
    BY <1>1, <2>1
  <2>. QED  BY <1>2, <2>2, Zenon
<1>. QED  BY <1>1, <1>2, <1>4, <1>5 DEF SameFrames, BindInv, TypeOK

(* jsonrpc_arena_malloc changes no binding and no frame's record of one. *)
LEMMA ArenaMallocBind ==
  ASSUME BindInv, ArenaMalloc
  PROVE  BindInv'
<1>1. /\ stack' \in Seq(Frame) /\ Len(stack') = Len(stack)
      /\ SameFrames(stack, stack', Len(stack))
  BY MallocFrames
<1>2. UNCHANGED <<conn, hasArena, bound>>
  BY DEF ArenaMalloc
<1>3. TypeOK'
  <2>1. used' \in [Conns -> 0..Cap]
    BY DEF ArenaMalloc, BindInv, TypeOK, HasRoom
  <2>. QED  BY <1>1, <1>2, <2>1 DEF BindInv, TypeOK
<1>4. \A i \in 1..Len(stack) : FrameInv(i)' /\ Eff(i)' = Eff(i)
  <2>1. \A i \in 1..Len(stack) : /\ conn'[stack[i].conn] = "live"
                                 /\ stack[i].changed => hasArena'[stack[i].conn]
    BY <1>2 DEF BindInv, FrameInv
  <2>. QED  BY <1>1, <2>1, LenProperties, KeepFrames DEF BindInv, TypeOK
<1>5. stack # <<>> /\ stack' # <<>>
  BY <1>1, EmptySeq DEF ArenaMalloc, BindInv, TypeOK
<1>. QED  BY <1>1, <1>2, <1>3, <1>4, <1>5 DEF BindInv

(* What jsonrpc_arena_scope_end leaves of the stack: the frames below the *)
(* innermost one, unchanged but for the values marked lost.                *)
LEMMA EndFrames ==
  ASSUME TypeOK, ScopeEnd
  PROVE  /\ stack' \in Seq(Frame) /\ Len(stack') = Len(stack) - 1
         /\ SameFrames(stack, stack', Len(stack) - 1)
         /\ \A i \in 1..Len(stack) - 1 : stack'[i].vals = stack[i].vals
         /\ \A i \in 1..Len(stack) - 1 :
              ~Top.changed \/ Top.conn \notin stack[i].vals => stack'[i] = stack[i]
         /\ bound' = Restored(Top)
         /\ UNCHANGED <<conn, hasArena>>
<1>. DEFINE rest == SubSeq(stack, 1, Len(stack) - 1)
<1>1. stack # <<>>
  BY DEF ScopeEnd
<1>2. /\ rest \in Seq(Frame) /\ Len(rest) = Len(stack) - 1
      /\ SameFrames(stack, rest, Len(stack) - 1)
      /\ \A i \in 1..Len(stack) - 1 : rest[i] = stack[i]
  BY <1>1, PopFrames DEF TypeOK
<1>3. CASE Top.changed
  <2>1. stack' = Invalidate(rest, Top.conn)
    BY <1>3 DEF ScopeEnd
  <2>2. Top.conn \in Conns
    <3>1. Len(stack) \in Nat \ {0}
      BY <1>1, EmptySeq DEF TypeOK
    <3>2. Top \in Frame
      BY <3>1, LenProperties DEF TypeOK, Top
    <3>. QED  BY <3>2 DEF Frame
  <2>3. /\ stack' \in Seq(Frame) /\ Len(stack') = Len(rest)
        /\ SameFrames(rest, stack', Len(rest))
        /\ \A i \in 1..Len(rest) : stack'[i].vals = rest[i].vals
        /\ \A i \in 1..Len(rest) : Top.conn \notin rest[i].vals => stack'[i] = rest[i]
    BY <1>2, <2>1, <2>2, InvalidateFrames, Zenon
  <2>. QED  BY <1>2, <2>3 DEF SameFrames, ScopeEnd
<1>4. CASE ~Top.changed
  BY <1>2, <1>4 DEF ScopeEnd
<1>. QED  BY <1>3, <1>4

(* jsonrpc_arena_scope_end restores the binding the innermost frame found. *)
LEMMA ScopeEndBind ==
  ASSUME BindInv, ScopeEnd
  PROVE  BindInv'
<1>. PICK n \in Nat : n = Len(stack)
  BY LenProperties DEF BindInv, TypeOK
<1>1. n \in Nat \ {0} /\ n \in 1..n /\ n - 1 \in Nat
  BY EmptySeq DEF ScopeEnd, BindInv, TypeOK
<1>2. /\ stack' \in Seq(Frame) /\ Len(stack') = n - 1
      /\ SameFrames(stack, stack', n - 1)
      /\ bound' = Restored(Top)
      /\ UNCHANGED <<conn, hasArena>>
  BY EndFrames DEF BindInv
<1>3. \A i \in 1..n - 1 : FrameInv(i)' /\ Eff(i)' = Eff(i)
  BY <1>1, <1>2, KeepFrames DEF BindInv, FrameInv
<1>4. bound' = stack[n].prev
  <2>1. bound = Eff(n) /\ FrameInv(n)
    BY <1>1 DEF BindInv, ScopeEnd
  <2>. QED  BY <1>2, <2>1 DEF Restored, Top, Eff
<1>5. stack[n].prev = Below(n)
  BY <1>1 DEF BindInv, FrameInv
<1>6. (bound = IF stack = <<>> THEN NoArena ELSE Eff(Len(stack)))'
  <2>1. CASE n = 1
    <3>0. Len(stack') = 0
      BY <1>2, <2>1
    <3>1. stack' = <<>>
      BY <1>2, <3>0, EmptySeq, Zenon
    <3>. QED  BY <1>4, <1>5, <2>1, <3>1 DEF Below
  <2>2. CASE n # 1
    <3>1. n - 1 \in 1..n - 1 /\ stack' # <<>>
      BY <1>1, <1>2, <2>2
    <3>2. Eff(Len(stack))' = Eff(n - 1)'
      BY <1>2 DEF Eff
    <3>3. Below(n) = Eff(n - 1)
      BY <1>1, <2>2 DEF Below
    <3>. QED  BY <1>3, <1>4, <1>5, <3>1, <3>2, <3>3
  <2>. QED  BY <2>1, <2>2
<1>7. TypeOK'
  <2>0. stack[n] \in Frame
    BY <1>1, LenProperties DEF BindInv, TypeOK
  <2>1. bound' \in Conns \cup {NoArena}
    BY <1>4, <2>0 DEF Frame
  <2>2. used' \in [Conns -> 0..Cap]
    BY <1>1, <2>0 DEF ScopeEnd, BindInv, TypeOK, Top, Frame
  <2>. QED  BY <1>2, <2>1, <2>2 DEF BindInv, TypeOK, ScopeEnd
<1>. QED  BY <1>1, <1>2, <1>3, <1>6, <1>7 DEF BindInv

(* Every step keeps the binding invariant. *)
LEMMA NextBind ==
  ASSUME BindInv, [Next]_vars
  PROVE  BindInv'
<1>1. CASE UNCHANGED vars
  BY <1>1 DEF BindInv, vars, TypeOK, FrameInv, Eff, Below
<1>2. CASE Next
  BY <1>2, ConnNewBind, ConnFreeBind, ScopeBeginBind, ArenaMallocBind,
     ScopeEndBind DEF Next
<1>. QED  BY <1>1, <1>2

(* g_current_arena is null between epochs and otherwise names the live    *)
(* arena of a connection whose scope installed it: jsonrpc_conn_free of a  *)
(* connection with an open scope is excluded, and scope_end restores what  *)
(* scope_begin saved.  This holds whatever the nesting, re-entrant feeds   *)
(* included.                                                               *)
THEOREM BindingSafe == Spec => []BindingSound
<1>1. Init => BindInv
  BY InitBind
<1>2. BindInv /\ [Next]_vars => BindInv'
  BY NextBind
<1>3. BindInv => BindingSound
  <2>. SUFFICES ASSUME BindInv PROVE BindingSound
    OBVIOUS
  <2>1. CASE stack = <<>>
    BY <2>1 DEF BindInv, BindingSound
  <2>2. CASE stack # <<>>
    <3>. DEFINE n == Len(stack)
    <3>1. n \in 1..n /\ bound = Eff(n)
      BY <2>2, EmptySeq DEF BindInv, TypeOK
    <3>2. ASSUME bound # NoArena PROVE conn[bound] = "live" /\ hasArena[bound]
      <4>1. PICK j \in 1..n : stack[j].changed /\ stack[j].conn = bound
        BY <3>1, <3>2, EffInstalled
      <4>2. FrameInv(j)
        BY DEF BindInv
      <4>. QED  BY <4>1, <4>2 DEF FrameInv
    <3>. QED  BY <2>2, <3>2 DEF BindingSound
  <2>. QED  BY <2>1, <2>2
<1>. QED  BY <1>1, <1>2, <1>3, PTL DEF Spec
-----------------------------------------------------------------------------
(* The depth at which EpochValuesIntact is proved: feeds that do not      *)
(* re-enter, or at most two open scopes.                                   *)
ShallowNesting == ~ReentrantFeeds \/ MaxDepth <= 2

(* Without re-entrant feeds a nested frame is a send on a feed, so no more *)
(* than two scopes are open at once.                                       *)
LEMMA DepthTwo ==
  ASSUME BindInv, ShallowNesting
  PROVE  Len(stack) <= 2
<1>1. CASE MaxDepth <= 2
  BY <1>1 DEF BindInv
<1>2. CASE ~ReentrantFeeds
  <2>. SUFFICES ASSUME Len(stack) > 2 PROVE FALSE
    BY DEF BindInv, TypeOK
  <2>1. FrameInv(3) /\ FrameInv(2)
    BY DEF BindInv, TypeOK
  <2>2. stack[3].kind = "send" /\ stack[2].kind = "feed"
    BY <1>2, <2>1 DEF FrameInv
  <2>3. stack[2].kind = "send"
    BY <1>2, <2>1 DEF FrameInv
  <2>. QED  BY <2>2, <2>3
<1>. QED  BY <1>1, <1>2 DEF ShallowNesting

(* Before any connection exists no epoch holds a value. *)
LEMMA InitVals == Init => ValsInv
BY DEF Init, ValsInv


(* Frames a step leaves as they were keep ValsInv. *)
LEMMA KeepVals ==
  ASSUME ValsInv, NEW m \in Nat, m <= Len(stack),
         \A i \in 1..m : stack'[i] = stack[i]
  PROVE  \A i \in 1..m : /\ stack'[i].vals \subseteq {Heap, Eff(i)'}
                        /\ stack'[i].dangling = {}
BY DEF ValsInv, Eff

(* jsonrpc_conn_new touches no frame. *)
LEMMA ConnNewVals ==
  ASSUME ValsInv, NEW c \in Conns, ConnNew(c)
  PROVE  ValsInv'
BY DEF ConnNew, ValsInv, Eff

(* jsonrpc_conn_free destroys an arena that holds no open epoch's value:   *)
(* each value is on the heap or in a binding in force, never its arena.   *)
LEMMA ConnFreeVals ==
  ASSUME BindInv, ValsInv, NEW c \in Conns, ConnFree(c)
  PROVE  ValsInv'
<1>1. \A i \in 1..Len(stack) : c \notin stack[i].vals
  <2>1. \A i \in 1..Len(stack) : Eff(i) # c
    BY FreedNotInForce DEF ConnFree
  <2>. QED  BY <2>1, ScopeAssumption DEF ValsInv
<1>2. Len(stack') = Len(stack) /\ \A i \in 1..Len(stack) : stack'[i] = stack[i]
  <2>1. CASE hasArena[c]
    BY <1>1, <2>1, InvalidateFrames DEF ConnFree, BindInv, TypeOK
  <2>2. CASE ~hasArena[c]
    BY <2>2 DEF ConnFree
  <2>. QED  BY <2>1, <2>2
<1>. QED  BY <1>2, KeepVals, LenProperties DEF ValsInv, BindInv, TypeOK

(* A new epoch starts with no values. *)
LEMMA ScopeBeginVals ==
  ASSUME BindInv, ValsInv, NEW c \in Conns, NEW k \in {"feed", "send"},
         ScopeBegin(c, k)
  PROVE  ValsInv'
<1>. PICK n \in Nat : n = Len(stack)
  BY LenProperties DEF BindInv, TypeOK
<1>. DEFINE f == [conn |-> c, kind |-> k, prev |-> bound, changed |-> Changes(c),
                  vals |-> {}, allocs |-> 0, dangling |-> {}]
<1>1. f \in Frame
  BY DEF BindInv, TypeOK, Frame, Changes
<1>2. stack' = Append(stack, f)
  BY DEF ScopeBegin
<1>3. /\ Len(stack') = n + 1 /\ stack'[n + 1] = f
      /\ \A i \in 1..n : stack'[i] = stack[i]
  BY <1>1, <1>2, AppendProperties DEF BindInv, TypeOK
<1>4. \A i \in 1..n : /\ stack'[i].vals \subseteq {Heap, Eff(i)'}
                      /\ stack'[i].dangling = {}
  BY <1>3, KeepVals
<1>5. stack'[n + 1].vals = {} /\ stack'[n + 1].dangling = {}
  BY <1>3 DEF f
<1>. QED  BY <1>3, <1>4, <1>5 DEF ValsInv


(* jsonrpc_arena_malloc puts the block in the binding in force or on the *)
(* heap, and the innermost frame's binding is the one in force.           *)
LEMMA ArenaMallocVals ==
  ASSUME BindInv, ValsInv, ArenaMalloc
  PROVE  ValsInv'
<1>. PICK n \in Nat : n = Len(stack)
  BY LenProperties DEF BindInv, TypeOK
<1>1. /\ Len(stack') = n
      /\ SameFrames(stack, stack', n)
      /\ \A i \in 1..n - 1 : stack'[i] = stack[i]
      /\ stack'[n].vals =
           stack[n].vals \cup {IF bound # NoArena /\ HasRoom(bound) THEN bound ELSE Heap}
      /\ stack'[n].dangling = stack[n].dangling
  BY MallocFrames
<1>2. n \in 1..n /\ bound = Eff(n)
  BY EmptySeq DEF ArenaMalloc, BindInv, TypeOK
<1>3. Eff(n)' = Eff(n)
  BY <1>1, <1>2 DEF SameFrames, Eff
<1>4. /\ stack'[n].vals \subseteq {Heap, Eff(n)'}
      /\ stack'[n].dangling = {}
  BY <1>1, <1>2, <1>3 DEF ValsInv
<1>5. \A i \in 1..n - 1 : /\ stack'[i].vals \subseteq {Heap, Eff(i)'}
                          /\ stack'[i].dangling = {}
  BY <1>1, <1>2, KeepVals
<1>. SUFFICES ASSUME NEW i \in 1..n
              PROVE  /\ stack'[i].vals \subseteq {Heap, Eff(i)'}
                     /\ stack'[i].dangling = {}
  BY <1>1 DEF ValsInv
<1>6. CASE i = n
  BY <1>4, <1>6
<1>7. CASE i # n
  BY <1>5, <1>7
<1>. QED  BY <1>6, <1>7

(* jsonrpc_arena_scope_end clears the arena its scope installed.  At most *)
(* one frame lies below, and its binding is the one the scope found,      *)
(* which scope_begin only replaced by a different arena: the values of   *)
(* the frame below are not in the arena cleared.                          *)
LEMMA ScopeEndVals ==
  ASSUME BindInv, ValsInv, ShallowNesting, ScopeEnd
  PROVE  ValsInv'
<1>. PICK n \in Nat : n = Len(stack)
  BY LenProperties DEF BindInv, TypeOK
<1>1. n \in 1..2
  BY EmptySeq, DepthTwo DEF ScopeEnd, BindInv, TypeOK
<1>2. /\ Len(stack') = n - 1
      /\ \A i \in 1..n - 1 :
           ~Top.changed \/ Top.conn \notin stack[i].vals => stack'[i] = stack[i]
  BY EndFrames DEF BindInv
<1>3. \A i \in 1..n - 1 : stack'[i] = stack[i]
  <2>. SUFFICES ASSUME NEW i \in 1..n - 1, Top.changed
                PROVE  Top.conn \notin stack[i].vals
    BY <1>2
  <2>1. i = 1 /\ n = 2 /\ Top = stack[2]
    BY <1>1 DEF Top
  <2>2. FrameInv(2)
    BY <2>1 DEF BindInv
  <2>3. Eff(1) = stack[2].prev /\ stack[2].prev # stack[2].conn
    BY <2>1, <2>2 DEF FrameInv, Below
  <2>4. stack[2].conn \in Conns
    <3>1. stack \in [1..n -> Frame]
      BY LenProperties DEF BindInv, TypeOK
    <3>2. stack[2] \in Frame
      BY <2>1, <3>1
    <3>. QED  BY <3>2 DEF Frame
  <2>5. stack[1].vals \subseteq {Heap, Eff(1)}
    BY <2>1 DEF ValsInv
  <2>. QED  BY <2>1, <2>3, <2>4, <2>5, ScopeAssumption
<1>. QED  BY <1>1, <1>2, <1>3, KeepVals DEF ValsInv

(* Every step keeps ValsInv when feeds are shallow. *)
LEMMA NextVals ==
  ASSUME BindInv, ValsInv, ShallowNesting, [Next]_vars
  PROVE  ValsInv'
<1>1. CASE UNCHANGED vars
  BY <1>1 DEF ValsInv, vars, Eff
<1>2. CASE Next
  BY <1>2, ConnNewVals, ConnFreeVals, ScopeBeginVals, ArenaMallocVals,
     ScopeEndVals DEF Next
<1>. QED  BY <1>1, <1>2

(* Every value an open epoch holds lives in an arena neither cleared nor *)
(* destroyed since it was allocated, when conn_feed is not re-entered or  *)
(* scopes nest at most two deep (a feed epoch and a handler's send): a    *)
(* scope_end only clears an arena that no enclosing epoch allocated in.   *)
(* A deeper re-entrant feed breaks it (run scope_reentrant_feed).         *)
THEOREM EpochValuesSafe == ShallowNesting => (Spec => []EpochValuesIntact)
<1>. SUFFICES ASSUME ShallowNesting PROVE Spec => []EpochValuesIntact
  OBVIOUS
<1>1. Init => BindInv /\ ValsInv
  BY InitBind, InitVals
<1>2. BindInv /\ ValsInv /\ [Next]_vars => BindInv' /\ ValsInv'
  BY NextBind, NextVals
<1>3. ValsInv => EpochValuesIntact
  BY DEF ValsInv, EpochValuesIntact
<1>. QED  BY <1>1, <1>2, <1>3, PTL DEF Spec


(* The shim's state keeps its types through every scope_begin, allocation,  *)
(* scope_end, conn_new and conn_free: in particular an arena's use count    *)
(* never passes its capacity, and the binding is a connection or null.     *)
THEOREM ScopeTypeCorrect == Spec => []TypeOK
<1>1. Init => BindInv
  BY InitBind
<1>2. BindInv /\ [Next]_vars => BindInv'
  BY NextBind
<1>3. BindInv => TypeOK
  BY DEF BindInv
<1>. QED  BY <1>1, <1>2, <1>3, PTL DEF Spec

=============================================================================
