------------------------- MODULE JsonRpcNotifyProofs -------------------------
(***************************************************************************)
(* Proof that jsonrpc_conn_feed tells the application of exactly the       *)
(* notifications JSON-RPC 2.0 delivers, in the order they arrive, batches  *)
(* included (NotificationsDelivered), for every value of the constants.    *)
(***************************************************************************)
EXTENDS JsonRpcReplyProofs

-----------------------------------------------------------------------------
(* jsonrpc_process_object calls on_notification for an element exactly    *)
(* when it is a notification to deliver.                                   *)
LEMMA NotifyIffDelivered ==
  ASSUME NEW e \in Element
  PROVE  NotifyCalls(e) = IF Delivered(e) THEN <<e.method>> ELSE <<>>
<1>1. ~InvalidRequest(e) <=> WellFormed(e)
  BY InvalidIffIllFormed
<1>2. WellFormed(e) => (ParamsIsValid(e.params) <=> e.params # "scalar")
  BY DEF WellFormed, ParamsIsValid, Element, Object, Other, ParamKinds, Absent
<1>. QED  BY <1>1, <1>2 DEF NotifyCalls, Delivered, IsNotification

(* The slots are the pairs of a frame index and an index into it. *)
LEMMA SlotsIff ==
  ASSUME NEW ess, NEW p
  PROVE  p \in Slots(ess) <=> /\ p = <<p[1], p[2]>>
                               /\ p[1] \in 1..Len(ess)
                               /\ p[2] \in 1..Len(ess[p[1]])
<1>1. p \in Slots(ess) <=> \E k \in 1..Len(ess) : \E i \in 1..Len(ess[k]) : p = <<k, i>>
  BY DEF Slots
<1>. QED  BY <1>1

(* The slots of a sequence of frames that extends S by one frame of m  *)
(* elements.                                                             *)
LEMMA SlotsGrow ==
  ASSUME NEW S, NEW A, Len(S) \in Nat, Len(A) = Len(S) + 1,
         \A k \in 1..Len(S) : A[k] = S[k],
         NEW p
  PROVE  /\ p \in Slots(A) <=>
              \/ p \in Slots(S)
              \/ p = <<Len(S) + 1, p[2]>> /\ p[2] \in 1..Len(A[Len(S) + 1])
         /\ p \in Slots(S) => A[p[1]][p[2]] = S[p[1]][p[2]]
<1>1. p \in Slots(A) <=> /\ p = <<p[1], p[2]>>
                          /\ p[1] \in 1..Len(A)
                          /\ p[2] \in 1..Len(A[p[1]])
  BY SlotsIff
<1>2. p \in Slots(S) <=> /\ p = <<p[1], p[2]>>
                          /\ p[1] \in 1..Len(S)
                          /\ p[2] \in 1..Len(S[p[1]])
  BY SlotsIff
<1>. QED  BY <1>1, <1>2

(* A frame with no element adds no slot. *)
LEMMA ListsNewFrame ==
  ASSUME NEW ns, NEW S, NEW A,
         Len(S) \in Nat, Len(A) = Len(S) + 1, Len(A[Len(S) + 1]) = 0,
         \A k \in 1..Len(S) : A[k] = S[k],
         ListsDelivered(ns, S)
  PROVE  ListsDelivered(ns, A)
<1>1. PICK g \in [1..Len(ns) -> Slots(S)] :
        /\ \A i, j \in 1..Len(ns) : i < j => SlotBefore(g[i], g[j])
        /\ {g[i] : i \in 1..Len(ns)} = {p \in Slots(S) : Delivered(S[p[1]][p[2]])}
        /\ \A i \in 1..Len(ns) : ns[i] = S[g[i][1]][g[i][2]].method
  BY DEF ListsDelivered
<1>2. ASSUME NEW p
      PROVE  /\ p \in Slots(A) <=> p \in Slots(S)
             /\ p \in Slots(S) => A[p[1]][p[2]] = S[p[1]][p[2]]
  <2>1. /\ p \in Slots(A) <=>
             \/ p \in Slots(S)
             \/ p = <<Len(S) + 1, p[2]>> /\ p[2] \in 1..Len(A[Len(S) + 1])
        /\ p \in Slots(S) => A[p[1]][p[2]] = S[p[1]][p[2]]
    BY SlotsGrow
  <2>. QED  BY <2>1
<1>3. \A p \in Slots(S) : A[p[1]][p[2]] = S[p[1]][p[2]]
  BY <1>2
<1>4. Slots(A) = Slots(S)
  BY <1>2
<1>5. {p \in Slots(A) : Delivered(A[p[1]][p[2]])}
        = {p \in Slots(S) : Delivered(S[p[1]][p[2]])}
  BY <1>3, <1>4
<1>6. \A i \in 1..Len(ns) : ns[i] = A[g[i][1]][g[i][2]].method
  BY <1>1, <1>3
<1>7. g \in [1..Len(ns) -> Slots(A)]
  BY <1>1, <1>4
<1>8. {g[i] : i \in 1..Len(ns)} = {p \in Slots(A) : Delivered(A[p[1]][p[2]])}
  BY <1>1, <1>5
<1>. QED  BY <1>1, <1>6, <1>7, <1>8, Zenon DEF ListsDelivered

(* One more element x in the last frame: B is A with x appended to its  *)
(* last frame; x's method is listed last if it is to be delivered.       *)
LEMMA ListsExtend ==
  ASSUME NEW ns \in Seq(Methods), NEW S, NEW A, NEW B, NEW x,
         Len(S) \in Nat, Len(A) = Len(S) + 1, Len(B) = Len(S) + 1,
         \A k \in 1..Len(S) : A[k] = S[k] /\ B[k] = S[k],
         Len(A[Len(S) + 1]) \in Nat,
         Len(B[Len(S) + 1]) = Len(A[Len(S) + 1]) + 1,
         \A i \in 1..Len(A[Len(S) + 1]) : B[Len(S) + 1][i] = A[Len(S) + 1][i],
         B[Len(S) + 1][Len(A[Len(S) + 1]) + 1] = x,
         ListsDelivered(ns, A)
  PROVE  ListsDelivered(IF Delivered(x) THEN Append(ns, x.method) ELSE ns, B)
<1>. DEFINE new == <<Len(S) + 1, Len(A[Len(S) + 1]) + 1>>
<1>2. ASSUME NEW p
      PROVE  /\ p \in Slots(B) <=> p \in Slots(A) \/ p = new
             /\ p \in Slots(A) => /\ B[p[1]][p[2]] = A[p[1]][p[2]]
                                  /\ SlotBefore(p, new)
             /\ p \notin Slots(A) \/ p # new
  <2>0. \A k \in 1..Len(S) : A[k] = S[k]
    OBVIOUS
  <2>1. /\ p \in Slots(A) <=>
             \/ p \in Slots(S)
             \/ p = <<Len(S) + 1, p[2]>> /\ p[2] \in 1..Len(A[Len(S) + 1])
        /\ p \in Slots(S) => A[p[1]][p[2]] = S[p[1]][p[2]]
    BY <2>0, SlotsGrow
  <2>2. /\ p \in Slots(B) <=>
             \/ p \in Slots(S)
             \/ p = <<Len(S) + 1, p[2]>> /\ p[2] \in 1..Len(B[Len(S) + 1])
        /\ p \in Slots(S) => B[p[1]][p[2]] = S[p[1]][p[2]]
    BY SlotsGrow
  <2>3. p \in Slots(S) => p = <<p[1], p[2]>> /\ p[1] \in 1..Len(S)
    BY SlotsIff
  <2>. QED  BY <2>1, <2>2, <2>3 DEF SlotBefore
<1>0. PICK g \in [1..Len(ns) -> Slots(A)] :
        /\ \A i, j \in 1..Len(ns) : i < j => SlotBefore(g[i], g[j])
        /\ {g[i] : i \in 1..Len(ns)} = {p \in Slots(A) : Delivered(A[p[1]][p[2]])}
        /\ \A i \in 1..Len(ns) : ns[i] = A[g[i][1]][g[i][2]].method
  BY DEF ListsDelivered
<1>3. B[new[1]][new[2]] = x
  OBVIOUS
<1>4. \A p \in Slots(A) : B[p[1]][p[2]] = A[p[1]][p[2]]
  BY <1>2
<1>5. CASE ~Delivered(x)
  <2>1. g \in [1..Len(ns) -> Slots(B)]
    BY <1>0, <1>2
  <2>2. {p \in Slots(B) : Delivered(B[p[1]][p[2]])}
          = {p \in Slots(A) : Delivered(A[p[1]][p[2]])}
    BY <1>2, <1>3, <1>5
  <2>3. {g[i] : i \in 1..Len(ns)} = {p \in Slots(B) : Delivered(B[p[1]][p[2]])}
    BY <1>0, <2>2
  <2>4. \A i \in 1..Len(ns) : ns[i] = B[g[i][1]][g[i][2]].method
    BY <1>0, <1>4
  <2>5. (IF Delivered(x) THEN Append(ns, x.method) ELSE ns) = ns
    BY <1>5
  <2>6. ListsDelivered(ns, B)
    BY <1>0, <2>1, <2>3, <2>4 DEF ListsDelivered
  <2>. QED  BY <2>5, <2>6
<1>6. CASE Delivered(x)
  <2>. DEFINE ns1 == Append(ns, x.method)
              h == [i \in 1..Len(ns) + 1 |-> IF i <= Len(ns) THEN g[i] ELSE new]
  <2>1. /\ Len(ns1) = Len(ns) + 1
        /\ \A i \in 1..Len(ns) : ns1[i] = ns[i]
        /\ ns1[Len(ns) + 1] = x.method
    OBVIOUS
  <2>2. new \in Slots(B) /\ new \notin Slots(A)
    BY <1>2
  <2>3. h \in [1..Len(ns1) -> Slots(B)]
    BY <1>0, <1>2, <2>1, <2>2
  <2>4. /\ \A i \in 1..Len(ns) : h[i] = g[i] /\ g[i] \in Slots(A)
        /\ h[Len(ns) + 1] = new
    BY <1>0
  <2>5. \A i, j \in 1..Len(ns1) : i < j => SlotBefore(h[i], h[j])
    <3>. SUFFICES ASSUME NEW i \in 1..Len(ns1), NEW j \in 1..Len(ns1), i < j
                  PROVE  SlotBefore(h[i], h[j])
      OBVIOUS
    <3>1. CASE j <= Len(ns)
      BY <1>0, <2>1, <2>4, <3>1
    <3>2. CASE j = Len(ns) + 1
      <4>1. i \in 1..Len(ns)
        BY <2>1, <3>2
      <4>2. SlotBefore(g[i], new)
        BY <1>2, <2>4, <4>1
      <4>. QED  BY <2>4, <3>2, <4>1, <4>2
    <3>. QED  BY <2>1, <3>1, <3>2
  <2>6. {h[i] : i \in 1..Len(ns1)} = {p \in Slots(B) : Delivered(B[p[1]][p[2]])}
    <3>1. {h[i] : i \in 1..Len(ns1)} = {g[i] : i \in 1..Len(ns)} \cup {new}
      BY <2>1, <2>4
    <3>2. {p \in Slots(B) : Delivered(B[p[1]][p[2]])}
            = {p \in Slots(A) : Delivered(A[p[1]][p[2]])} \cup {new}
      BY <1>2, <1>3, <1>4, <1>6, <2>2
    <3>. QED  BY <1>0, <3>1, <3>2
  <2>8. \A i \in 1..Len(ns1) : ns1[i] = B[h[i][1]][h[i][2]].method
    <3>. SUFFICES ASSUME NEW i \in 1..Len(ns1)
                  PROVE  ns1[i] = B[h[i][1]][h[i][2]].method
      OBVIOUS
    <3>1. CASE i <= Len(ns)
      <4>1. i \in 1..Len(ns) /\ ns1[i] = ns[i] /\ h[i] = g[i]
        BY <2>1, <2>4, <3>1
      <4>2. B[g[i][1]][g[i][2]] = A[g[i][1]][g[i][2]]
        BY <1>4, <2>4, <4>1
      <4>. QED  BY <1>0, <4>1, <4>2
    <3>2. CASE i = Len(ns) + 1
      BY <1>3, <2>1, <2>4, <3>2
    <3>. QED  BY <2>1, <3>1, <3>2
  <2>7. (IF Delivered(x) THEN Append(ns, x.method) ELSE ns) = ns1
    BY <1>6
  <2>9. ListsDelivered(ns1, B)
    BY <2>3, <2>5, <2>6, <2>8 DEF ListsDelivered
  <2>. QED  BY <2>7, <2>9
<1>. QED  BY <1>5, <1>6
(* A frame of one element x: x's method is listed last if it is to be    *)
(* delivered.                                                             *)
LEMMA ListsOne ==
  ASSUME NEW ns \in Seq(Methods), NEW S, NEW B,
         Len(S) \in Nat, Len(B) = Len(S) + 1,
         \A k \in 1..Len(S) : B[k] = S[k],
         Len(B[Len(S) + 1]) = 1,
         ListsDelivered(ns, S)
  PROVE  ListsDelivered(IF Delivered(B[Len(S) + 1][1])
                        THEN Append(ns, B[Len(S) + 1][1].method) ELSE ns, B)
<1>1. PICK A : A = [k \in 1..Len(S) + 1 |-> IF k <= Len(S) THEN S[k] ELSE <<>>]
  OBVIOUS
<1>2. /\ Len(A) = Len(S) + 1 /\ Len(A[Len(S) + 1]) = 0
      /\ \A k \in 1..Len(S) : A[k] = S[k]
  BY <1>1
<1>3. ListsDelivered(ns, A)
  BY <1>2, ListsNewFrame
<1>4. /\ \A k \in 1..Len(S) : A[k] = S[k] /\ B[k] = S[k]
      /\ Len(A[Len(S) + 1]) \in Nat
      /\ Len(B[Len(S) + 1]) = Len(A[Len(S) + 1]) + 1
      /\ \A i \in 1..Len(A[Len(S) + 1]) : B[Len(S) + 1][i] = A[Len(S) + 1][i]
      /\ B[Len(S) + 1][Len(A[Len(S) + 1]) + 1] = B[Len(S) + 1][1]
  BY <1>2
<1>. QED  BY <1>2, <1>3, <1>4, ListsExtend

(* The same frames, element by element, list the same notifications. *)
LEMMA ListsSame ==
  ASSUME NEW ns, NEW A, NEW B, Len(A) = Len(B),
         \A k \in 1..Len(A) : A[k] = B[k],
         ListsDelivered(ns, A)
  PROVE  ListsDelivered(ns, B)
<1>1. ASSUME NEW p
      PROVE  /\ p \in Slots(A) <=> p \in Slots(B)
             /\ p \in Slots(A) => A[p[1]][p[2]] = B[p[1]][p[2]]
  <2>1. p \in Slots(A) <=> /\ p = <<p[1], p[2]>>
                           /\ p[1] \in 1..Len(A)
                           /\ p[2] \in 1..Len(A[p[1]])
    BY SlotsIff
  <2>2. p \in Slots(B) <=> /\ p = <<p[1], p[2]>>
                           /\ p[1] \in 1..Len(B)
                           /\ p[2] \in 1..Len(B[p[1]])
    BY SlotsIff
  <2>. QED  BY <2>1, <2>2
<1>2. Slots(A) = Slots(B)
  BY <1>1
<1>3. PICK g \in [1..Len(ns) -> Slots(A)] :
        /\ \A i, j \in 1..Len(ns) : i < j => SlotBefore(g[i], g[j])
        /\ {g[i] : i \in 1..Len(ns)} = {p \in Slots(A) : Delivered(A[p[1]][p[2]])}
        /\ \A i \in 1..Len(ns) : ns[i] = A[g[i][1]][g[i][2]].method
  BY DEF ListsDelivered
<1>4. g \in [1..Len(ns) -> Slots(B)]
  BY <1>2, <1>3
<1>5. {g[i] : i \in 1..Len(ns)} = {p \in Slots(B) : Delivered(B[p[1]][p[2]])}
  BY <1>1, <1>2, <1>3
<1>6. \A i \in 1..Len(ns) : ns[i] = B[g[i][1]][g[i][2]].method
  BY <1>1, <1>3
<1>. QED  BY <1>3, <1>4, <1>5, <1>6, Zenon DEF ListsDelivered

-----------------------------------------------------------------------------
(* NotificationsDelivered is not inductive: inside the batch loop the     *)
(* calls made so far also cover the batch's first elements.  BatchNotified *)
(* (JsonRpcConn), which conn_dispatch checks, says so; RepInv gives the   *)
(* type and the range of the loop index.                                  *)
NotesInv == RepInv /\ NotificationsDelivered /\ BatchNotified

LEMMA NotesInit == Init => NotesInv
<1>. SUFFICES ASSUME Init PROVE NotesInv
  OBVIOUS
<1>1. RepInv
  BY RepInit
<1>2. ListsDelivered(notified, ServedElems)
  <2>1. Len(notified) = 0 /\ Len(ServedElems) = 0
    BY DEF Init, ServedElems
  <2>2. Slots(ServedElems) = {}
    BY <2>1 DEF Slots
  <2>3. [i \in 1..0 |-> <<1, 1>>] \in [1..Len(notified) -> Slots(ServedElems)]
    BY <2>1, <2>2
  <2>. QED  BY <2>1, <2>2, <2>3 DEF ListsDelivered
<1>. QED  BY <1>1, <1>2 DEF Init, NotesInv, NotificationsDelivered, BatchNotified

(* Serving a frame appends the elements of its value to ServedElems. *)
LEMMA ServedElemsAppend ==
  ASSUME served \in Seq(Frame), NEW f, served' = Append(served, f)
  PROVE  /\ Len(ServedElems) \in Nat
         /\ Len(ServedElems') = Len(ServedElems) + 1
         /\ \A k \in 1..Len(ServedElems) : ServedElems'[k] = ServedElems[k]
         /\ ServedElems'[Len(ServedElems) + 1] = ElemsOf(f.value)
BY DEF ServedElems

(* Loop: a line that does not parse, or a single value. *)
LEMMA NotesFrame ==
  ASSUME NotesInv, FrameParseError \/ FrameSingle
  PROVE  NotificationsDelivered' /\ BatchNotified'
<1>1. /\ inbound \in Seq(Byte) /\ LFs(inbound) # {}
      /\ served \in Seq(Frame) /\ notified \in Seq(Methods) /\ pc = "frame"
  BY DEF FrameParseError, FrameSingle, IsMessage, NotesInv, RepInv, TypeOK
<1>2. ListsDelivered(notified, ServedElems)
  BY <1>1 DEF NotesInv, NotificationsDelivered
<1>3. CASE FrameParseError
  <2>1. PICK ok \in SendOutcomes : AfterSend(ok)
    BY <1>3 DEF FrameParseError
  <2>2. pc' # "batch" /\ notified' = notified
    BY <1>3, <2>1, AfterSendNotBatch DEF FrameParseError
  <2>3. PICK f : served' = Append(served, f) /\ f.value = ParseError
    BY <1>3 DEF FrameParseError
  <2>4. /\ Len(ServedElems) \in Nat
        /\ Len(ServedElems') = Len(ServedElems) + 1
        /\ \A k \in 1..Len(ServedElems) : ServedElems'[k] = ServedElems[k]
        /\ ServedElems'[Len(ServedElems) + 1] = ElemsOf(f.value)
    BY <1>1, <2>3, ServedElemsAppend
  <2>5. Len(ServedElems'[Len(ServedElems) + 1]) = 0
    BY <2>3, <2>4 DEF ElemsOf
  <2>6. ListsDelivered(notified, ServedElems')
    BY <1>2, <2>4, <2>5, ListsNewFrame
  <2>. QED  BY <2>2, <2>6 DEF NotificationsDelivered, BatchNotified
<1>4. CASE FrameSingle
  <2>1. /\ CurLine \in Seq(Byte)
        /\ \A i \in 1..Len(CurLine) : CurLine[i] # LF
    BY <1>1, CurLineType
  <2>. DEFINE v == Parse(CurLine)
  <2>2. v \in JsonTexts \cup {ParseError}
    BY <2>1, ParseType
  <2>3. v # ParseError /\ (v.type = "array" => v.elems = <<>>)
    BY <1>4 DEF FrameSingle
  <2>4. v \in TopValue
    BY <2>2, <2>3, JsonTextsAssumption
  <2>5. PICK o \in Outcomes(v) :
          /\ notified' = notified \o NotifyCalls(v)
          /\ served' = Append(served, [line |-> CurLine, value |-> v,
                                       reply |-> IF SingleReply(v, o) = None THEN None
                                                 ELSE Single(SingleReply(v, o))])
          /\ IF SingleReply(v, o) = None
             THEN pc' = "frame"
             ELSE \E ok \in SendOutcomes : AfterSend(ok)
    BY <1>4 DEF FrameSingle, SingleReply
  <2>6. pc' # "batch"
    BY <2>5, AfterSendNotBatch
  <2>7. /\ Len(ServedElems) \in Nat
        /\ Len(ServedElems') = Len(ServedElems) + 1
        /\ \A k \in 1..Len(ServedElems) : ServedElems'[k] = ServedElems[k]
        /\ ServedElems'[Len(ServedElems) + 1] = ElemsOf(v)
    BY <1>1, <2>5, ServedElemsAppend
  <2>8. CASE v.type = "array"
    <3>1. ElemsOf(v) = <<>> /\ NotifyCalls(v) = <<>>
      BY <2>3, <2>8 DEF ElemsOf, NotifyCalls, InvalidRequest
    <3>2. notified' = notified
      BY <1>1, <2>5, <3>1
    <3>3. Len(ServedElems'[Len(ServedElems) + 1]) = 0
      BY <2>7, <3>1
    <3>4. ListsDelivered(notified, ServedElems')
      BY <1>2, <2>7, <3>3, ListsNewFrame
    <3>. QED  BY <2>6, <3>2, <3>4 DEF NotificationsDelivered, BatchNotified
  <2>9. CASE v.type # "array"
    <3>1. v \in Element /\ ElemsOf(v) = <<v>>
      BY <2>3, <2>4, <2>9 DEF ElemsOf, TopValue, Element, Other, Batch
    <3>2. notified' = IF Delivered(v) THEN Append(notified, v.method) ELSE notified
      <4>1. NotifyCalls(v) = IF Delivered(v) THEN <<v.method>> ELSE <<>>
        BY <3>1, NotifyIffDelivered
      <4>. QED  BY <1>1, <2>5, <4>1
    <3>3. Len(ServedElems'[Len(ServedElems) + 1]) = 1
          /\ ServedElems'[Len(ServedElems) + 1][1] = v
      BY <2>7, <3>1
    <3>4. ListsDelivered(IF Delivered(ServedElems'[Len(ServedElems) + 1][1])
                         THEN Append(notified, ServedElems'[Len(ServedElems) + 1][1].method)
                         ELSE notified, ServedElems')
      BY <1>1, <1>2, <2>7, <3>3, ListsOne
    <3>. QED  BY <2>6, <3>2, <3>3, <3>4 DEF NotificationsDelivered, BatchNotified
  <2>. QED  BY <2>8, <2>9
<1>. QED  BY <1>3, <1>4

(* The elements of the frames served are a sequence of element lists. *)
LEMMA ServedElemsType ==
  ASSUME served \in Seq(Frame)
  PROVE  ServedElems \in Seq(Seq(Element))
<1>1. ASSUME NEW v \in TopValue \cup {ParseError}
      PROVE  ElemsOf(v) \in Seq(Element)
  <2>1. CASE v = ParseError
    BY <2>1 DEF ElemsOf
  <2>2. CASE v \in Batch
    BY <2>2 DEF ElemsOf, Batch, ParseError
  <2>3. CASE v \in Object \cup [type : {"scalar"}]
    <3>1. v.type \in {"object", "scalar"}
      BY <2>3 DEF Object
    <3>2. ElemsOf(v) = <<v>>
      BY <3>1 DEF ElemsOf, ParseError
    <3>3. v \in Element
      BY <2>3 DEF Element, Other
    <3>. QED  BY <3>2, <3>3
  <2>. QED  BY <2>1, <2>2, <2>3 DEF TopValue
<1>2. \A f \in Frame : ElemsOf(f.value) \in Seq(Element)
  BY <1>1 DEF Frame
<1>. QED  BY <1>2 DEF ServedElems

(* What Append gives, in the index form the slot lemmas take. *)
LEMMA AppendIdx ==
  ASSUME NEW T, NEW s \in Seq(T), NEW y \in T
  PROVE  /\ Len(s) \in Nat
         /\ Len(Append(s, y)) = Len(s) + 1
         /\ \A k \in 1..Len(s) : Append(s, y)[k] = s[k]
         /\ Append(s, y)[Len(s) + 1] = y
OBVIOUS

(* Loop: a non-empty array opens a batch of which nothing is processed. *)
LEMMA NotesBatchStart ==
  ASSUME NotesInv, FrameBatchStart
  PROVE  NotificationsDelivered' /\ BatchNotified'
<1>1. /\ pc = "frame" /\ pc' = "batch"
      /\ served' = served /\ notified' = notified
  BY DEF FrameBatchStart, IsMessage
<1>2. ListsDelivered(notified, ServedElems)
  BY <1>1 DEF NotesInv, NotificationsDelivered
<1>3. ServedElems' = ServedElems
  BY <1>1 DEF ServedElems
<1>4. PICK v : /\ v.elems \in Seq(Element)
               /\ work'.elems = v.elems /\ work'.idx = 1
  <2>1. TypeOK'
    BY TypeNext DEF NotesInv, RepInv, Next, Loop
  <2>2. PICK v : work' = [line |-> CurLine, elems |-> v.elems, idx |-> 1, acc |-> <<>>]
    BY DEF FrameBatchStart
  <2>. QED  BY <2>1, <2>2 DEF TypeOK, Work
<1>5. ServedElems \in Seq(Seq(Element))
  BY ServedElemsType DEF NotesInv, RepInv, TypeOK
<1>6. SubSeq(v.elems, 1, 0) \in Seq(Element) /\ Len(SubSeq(v.elems, 1, 0)) = 0
  BY <1>4
<1>7. PICK A : A = Append(ServedElems, SubSeq(v.elems, 1, 0))
  OBVIOUS
<1>8. /\ Len(ServedElems) \in Nat
      /\ Len(A) = Len(ServedElems) + 1
      /\ \A k \in 1..Len(ServedElems) : A[k] = ServedElems[k]
      /\ A[Len(ServedElems) + 1] = SubSeq(v.elems, 1, 0)
  BY <1>5, <1>6, <1>7, AppendIdx
<1>9. ListsDelivered(notified, A)
  <2>1. Len(A[Len(ServedElems) + 1]) = 0
    BY <1>6, <1>8
  <2>. QED  BY <1>2, <1>8, <2>1, ListsNewFrame
<1>. QED  BY <1>1, <1>3, <1>4, <1>7, <1>9 DEF NotificationsDelivered, BatchNotified

(* Batch loop: one more element is processed; its method is listed if it *)
(* is a notification to deliver.                                         *)
LEMMA NotesBatchItem ==
  ASSUME NotesInv, BatchItem
  PROVE  NotificationsDelivered' /\ BatchNotified'
<1>1. /\ work.elems \in Seq(Element)
      /\ work.idx \in 1..Len(work.elems)
      /\ notified \in Seq(Methods)
      /\ served \in Seq(Frame)
      /\ pc = "batch"
  BY DEF BatchItem, NotesInv, RepInv, TypeOK, Work
<1>2. ListsDelivered(notified, Append(ServedElems, SubSeq(work.elems, 1, work.idx - 1)))
  BY <1>1 DEF NotesInv, BatchNotified
<1>. DEFINE e == work.elems[work.idx]
<1>3. e \in Element
  BY <1>1
<1>4. PICK o \in Outcomes(e) :
        /\ work' = [work EXCEPT !.idx = @ + 1,
                                !.acc = IF ProcessObject(e, o) = None THEN @
                                        ELSE Append(@, ProcessObject(e, o))]
        /\ notified' = notified \o NotifyCalls(e)
  BY DEF BatchItem
<1>5. work'.elems = work.elems /\ work'.idx = work.idx + 1
  BY <1>4 DEF NotesInv, RepInv, TypeOK, Work
<1>6. /\ pc' = "batch" /\ served' = served
      /\ ServedElems' = ServedElems
  BY DEF BatchItem, ServedElems
<1>7. notified' = IF Delivered(e) THEN Append(notified, e.method) ELSE notified
  <2>1. NotifyCalls(e) = IF Delivered(e) THEN <<e.method>> ELSE <<>>
    BY <1>3, NotifyIffDelivered
  <2>. QED  BY <1>1, <1>4, <2>1
<1>8. ServedElems \in Seq(Seq(Element))
  BY <1>1, ServedElemsType
<1>9. /\ SubSeq(work.elems, 1, work.idx - 1) \in Seq(Element)
      /\ SubSeq(work.elems, 1, work.idx) \in Seq(Element)
      /\ Len(SubSeq(work.elems, 1, work.idx - 1)) = work.idx - 1
      /\ Len(SubSeq(work.elems, 1, work.idx)) = work.idx
      /\ \A i \in 1..work.idx - 1 :
           SubSeq(work.elems, 1, work.idx)[i] = SubSeq(work.elems, 1, work.idx - 1)[i]
      /\ SubSeq(work.elems, 1, work.idx)[work.idx] = e
  BY <1>1
<1>10. PICK A : A = Append(ServedElems, SubSeq(work.elems, 1, work.idx - 1))
  OBVIOUS
<1>11. PICK B : B = Append(ServedElems, SubSeq(work.elems, 1, work.idx))
  OBVIOUS
<1>12. /\ Len(ServedElems) \in Nat
       /\ Len(A) = Len(ServedElems) + 1
       /\ \A k \in 1..Len(ServedElems) : A[k] = ServedElems[k]
       /\ A[Len(ServedElems) + 1] = SubSeq(work.elems, 1, work.idx - 1)
  BY <1>8, <1>9, <1>10, AppendIdx
<1>13. /\ Len(B) = Len(ServedElems) + 1
       /\ \A k \in 1..Len(ServedElems) : B[k] = ServedElems[k]
       /\ B[Len(ServedElems) + 1] = SubSeq(work.elems, 1, work.idx)
  BY <1>8, <1>9, <1>11, AppendIdx
<1>14. /\ Len(A[Len(ServedElems) + 1]) \in Nat
       /\ Len(B[Len(ServedElems) + 1]) = Len(A[Len(ServedElems) + 1]) + 1
       /\ \A i \in 1..Len(A[Len(ServedElems) + 1]) :
            B[Len(ServedElems) + 1][i] = A[Len(ServedElems) + 1][i]
       /\ B[Len(ServedElems) + 1][Len(A[Len(ServedElems) + 1]) + 1] = e
  BY <1>1, <1>9, <1>12, <1>13
<1>15. ListsDelivered(notified, A)
  BY <1>2, <1>10
<1>16. ListsDelivered(IF Delivered(e) THEN Append(notified, e.method) ELSE notified, B)
  <2>1. notified \in Seq(Methods)
    BY <1>1
  <2>2. PICK S : S = ServedElems
    OBVIOUS
  <2>3. PICK x : x = e
    OBVIOUS
  <2>4. /\ Len(S) \in Nat /\ Len(A) = Len(S) + 1 /\ Len(B) = Len(S) + 1
        /\ \A k \in 1..Len(S) : A[k] = S[k] /\ B[k] = S[k]
        /\ Len(A[Len(S) + 1]) \in Nat
        /\ Len(B[Len(S) + 1]) = Len(A[Len(S) + 1]) + 1
        /\ \A i \in 1..Len(A[Len(S) + 1]) : B[Len(S) + 1][i] = A[Len(S) + 1][i]
        /\ B[Len(S) + 1][Len(A[Len(S) + 1]) + 1] = x
    BY <1>12, <1>13, <1>14, <2>2, <2>3
  <2>5. ListsDelivered(IF Delivered(x) THEN Append(notified, x.method) ELSE notified, B)
    BY <1>15, <2>1, <2>4, ListsExtend
  <2>. QED  BY <2>3, <2>5
<1>17. B = Append(ServedElems', SubSeq(work'.elems, 1, work'.idx - 1))
  BY <1>1, <1>5, <1>6, <1>11
<1>. QED  BY <1>6, <1>7, <1>16, <1>17 DEF NotificationsDelivered, BatchNotified

(* Batch loop done: the batch's frame is served, and the calls made in *)
(* the loop are those its elements call for.                          *)
LEMMA NotesBatchEnd ==
  ASSUME NotesInv, BatchEndSilent \/ BatchEndSend
  PROVE  NotificationsDelivered' /\ BatchNotified'
<1>1. /\ pc = "batch" /\ work.idx > Len(work.elems)
      /\ served \in Seq(Frame) /\ work.elems \in Seq(Element)
      /\ notified' = notified
      /\ served' = Append(served, [line |-> work.line, value |-> BatchValue,
                                   reply |-> IF work.acc = <<>> THEN None
                                             ELSE BatchOf(work.acc)])
  BY DEF BatchEndSilent, BatchEndSend, NotesInv, RepInv, TypeOK, Work
<1>2. pc' # "batch"
  <2>1. CASE BatchEndSilent
    BY <2>1 DEF BatchEndSilent
  <2>2. CASE BatchEndSend
    BY <2>2, AfterSendNotBatch DEF BatchEndSend
  <2>. QED  BY <2>1, <2>2
<1>3. work.idx = Len(work.elems) + 1
  BY <1>1 DEF NotesInv, RepInv, BatchAnswered
<1>4. ListsDelivered(notified, Append(ServedElems, SubSeq(work.elems, 1, work.idx - 1)))
  BY <1>1 DEF NotesInv, BatchNotified
<1>5. /\ Len(ServedElems) \in Nat
      /\ Len(ServedElems') = Len(ServedElems) + 1
      /\ \A k \in 1..Len(ServedElems) : ServedElems'[k] = ServedElems[k]
      /\ ServedElems'[Len(ServedElems) + 1] = ElemsOf(BatchValue)
  BY <1>1, ServedElemsAppend
<1>6. ElemsOf(BatchValue) = work.elems
  BY DEF ElemsOf, BatchValue, ParseError
<1>7. SubSeq(work.elems, 1, work.idx - 1) = work.elems
  BY <1>1, <1>3
<1>8. PICK A : A = Append(ServedElems, work.elems)
  OBVIOUS
<1>9. /\ Len(A) = Len(ServedElems) + 1
      /\ \A k \in 1..Len(ServedElems) : A[k] = ServedElems[k]
      /\ A[Len(ServedElems) + 1] = work.elems
  <2>1. ServedElems \in Seq(Seq(Element))
    BY <1>1, ServedElemsType
  <2>. QED  BY <1>1, <1>8, <2>1, AppendIdx
<1>10. ListsDelivered(notified, ServedElems')
  <2>1. ListsDelivered(notified, A)
    BY <1>4, <1>7, <1>8
  <2>2. /\ Len(A) = Len(ServedElems')
        /\ \A k \in 1..Len(A) : A[k] = ServedElems'[k]
    BY <1>5, <1>6, <1>9
  <2>. QED  BY <2>1, <2>2, ListsSame
<1>. QED  BY <1>1, <1>2, <1>10 DEF NotificationsDelivered, BatchNotified

(* The other steps serve no frame and call on_notification for nothing, *)
(* and leave the batch loop alone or are taken outside it.              *)
LEMMA NotesOther ==
  ASSUME NotesInv,
         \/ ConnNew \/ TransportClose \/ ConnFree
         \/ \E chunk \in Chunks : FeedTooLarge(chunk) \/ FeedAppend(chunk)
         \/ FrameNoLine \/ FrameEmptyLine \/ FrameTooLarge
         \/ \E id \in OobIds : SendResult(id)
         \/ \E id \in OobIds, code \in HandlerCodes : SendError(id, code)
  PROVE  NotificationsDelivered' /\ BatchNotified'
<1>1. served' = served /\ notified' = notified
  BY DEF ConnNew, TransportClose, ConnFree, FeedTooLarge, FeedAppend,
         FrameNoLine, FrameEmptyLine, FrameTooLarge, SendResult, SendError,
         SendOutOfBand
<1>2. \/ pc' = pc /\ work' = work
      \/ pc # "batch" /\ pc' # "batch"
  BY DEF ConnNew, TransportClose, ConnFree, FeedTooLarge, FeedAppend, CanFeed,
         FrameNoLine, FrameEmptyLine, FrameTooLarge, SendResult, SendError,
         SendOutOfBand
<1>3. ServedElems' = ServedElems
  BY <1>1 DEF ServedElems
<1>4. CASE pc' = pc /\ work' = work
  BY <1>1, <1>3, <1>4 DEF NotesInv, NotificationsDelivered, BatchNotified
<1>5. CASE pc # "batch" /\ pc' # "batch"
  BY <1>1, <1>3, <1>5 DEF NotesInv, NotificationsDelivered, BatchNotified
<1>. QED  BY <1>2, <1>4, <1>5

LEMMA NotesNext == NotesInv /\ [Next]_vars => NotesInv'
<1>. SUFFICES ASSUME NotesInv, [Next]_vars PROVE NotesInv'
  OBVIOUS
<1>1. RepInv'
  BY RepNext DEF NotesInv
<1>2. CASE UNCHANGED vars
  <2>1. served' = served /\ notified' = notified /\ pc' = pc /\ work' = work
    BY <1>2 DEF vars
  <2>2. ServedElems' = ServedElems
    BY <2>1 DEF ServedElems
  <2>. QED  BY <1>1, <2>1, <2>2 DEF NotesInv, NotificationsDelivered, BatchNotified
<1>3. CASE Next
  <2>. NotificationsDelivered' /\ BatchNotified'
    BY <1>3, NotesFrame, NotesBatchStart, NotesBatchItem, NotesBatchEnd, NotesOther
    DEF Next, Loop
  <2>. QED  BY <1>1 DEF NotesInv
<1>. QED  BY <1>2, <1>3

(* Whenever jsonrpc_conn_feed is not inside a batch, on_notification has *)
(* been called for exactly the notifications JSON-RPC 2.0 delivers among  *)
(* the frames served (well-formed, with object or array params, and with *)
(* the callback set), once each, in the order of the frames and of the   *)
(* elements in each batch.  For every set of methods, ids, callbacks and *)
(* on_request outcomes.                                                   *)
THEOREM NotificationsSafe == Spec => []NotificationsDelivered
<1>1. Init => NotesInv
  BY NotesInit
<1>2. NotesInv /\ [Next]_vars => NotesInv'
  BY NotesNext
<1>3. NotesInv => NotificationsDelivered
  BY DEF NotesInv
<1>. QED  BY <1>1, <1>2, <1>3, PTL DEF Spec

====
