-------------------------- MODULE BumpArenaProofs --------------------------
(***************************************************************************)
(* Proofs about the bump allocator of arena.c, for every SIZE_MAX, every   *)
(* set of region addresses, alignments and sizes.                          *)
(***************************************************************************)
EXTENDS BumpArena, TLAPS

(* No region wraps the address space: arena_create and arena_init are only *)
(* given regions that the process's address space holds.                  *)
RegionsInSpace == \A a \in Arenas : arena[a].base + arena[a].size <= SizeMax

IInv == TypeOK /\ BlocksInRegion /\ RegionsInSpace

USE BoundsAssumption

(* size_t arithmetic does not wrap on values of 0..SIZE_MAX. *)
LEMMA NoWrap ==
  ASSUME NEW x \in 0..SizeMax
  PROVE  x % Word = x
BY BoundsAssumption DEF Word

(* The padding of arena_alloc_aligned is a natural number. *)
LEMMA PadType ==
  ASSUME NEW ar \in ArenaRec, NEW i \in 0..SizeMax, NEW align \in Aligns
  PROVE  Padding(ar, i, align) \in 0..SizeMax
<1>1. AddW(ar.base, i) \in Nat
  BY DEF AddW, Word, ArenaRec
<1>2. CASE align = 0
  BY <1>2 DEF Padding
<1>3. CASE align # 0
  <2>1. align \in 1..SizeMax
    BY <1>3
  <2>2. AddW(ar.base, i) % align \in 0..align - 1
    BY <1>1, <2>1
  <2>. QED  BY <1>3, <2>1, <2>2 DEF Padding
<1>. QED  BY <1>2, <1>3

(* Init establishes the inductive invariant. *)
LEMMA InitIInv == Init => IInv
BY DEF Init, IInv, TypeOK, BlocksInRegion, RegionsInSpace, NullArena, ArenaRec

(* An allocation, and the failed request that only consumes the padding. *)
LEMMA AllocStep ==
  ASSUME IInv, NEW a \in Arenas, NEW size \in Sizes, NEW align \in Aligns,
         AllocAligned(a, size, align)
  PROVE  IInv'
<1>. DEFINE ar  == arena[a]
            i   == index[a]
            pad == Padding(ar, i, align)
            idx == AddW(i, pad)
            new == AddW(idx, size)
<1>1. ar \in ArenaRec /\ i \in 0..SizeMax /\ i <= ar.size
  BY DEF IInv, TypeOK, BlocksInRegion, RegionsInSpace
<1>2. pad \in 0..SizeMax
  BY <1>1, PadType
<1>3. ar.size - i \in 0..SizeMax
  BY <1>1 DEF ArenaRec
<1>4. SubW(ar.size, i) = ar.size - i
  BY <1>3, NoWrap DEF SubW
<1>5. PadFits(ar, i, pad)
  BY Zenon DEF AllocAligned
<1>6. pad <= ar.size - i
  BY <1>4, <1>5 DEF PadFits
<1>7. i + pad \in 0..SizeMax /\ i + pad <= ar.size
  BY <1>1, <1>2, <1>6 DEF ArenaRec
<1>8. idx = i + pad
  BY <1>7, NoWrap DEF AddW
<1>9. SubW(ar.size, idx) = ar.size - idx
  <2>1. ar.size - idx \in 0..SizeMax
    BY <1>1, <1>7, <1>8 DEF ArenaRec
  <2>. QED  BY <2>1, NoWrap DEF SubW
<1>10. size \in 1..SizeMax
  <2>1. size # 0
    BY Zenon DEF AllocAligned
  <2>. QED  BY <2>1
<1>11. /\ blocks \in [Arenas -> SUBSET Block]
       /\ \A b \in blocks[a] : b.off + b.len <= i
       /\ \A b, c \in blocks[a] :
            b # c => b.off + b.len <= c.off \/ c.off + c.len <= b.off
  BY DEF IInv, TypeOK, BlocksInRegion, RegionsInSpace
<1>12. CASE size <= SubW(ar.size, idx)
  <2>1. idx + size \in 0..SizeMax /\ idx + size <= ar.size
    BY <1>1, <1>7, <1>8, <1>9, <1>10, <1>12 DEF ArenaRec
  <2>2. new = idx + size
    BY <2>1, NoWrap DEF AddW
  <2>3. SubW(new, size) = idx
    <3>1. new - size = idx /\ idx \in 0..SizeMax
      BY <1>7, <1>8, <2>2, <1>10
    <3>2. (new - size) % Word = new - size
      BY <3>1, NoWrap
    <3>. QED  BY <3>1, <3>2 DEF SubW
  <2>. DEFINE nb == [off |-> idx, len |-> size, align |-> align]
  <2>4. /\ index' = [index EXCEPT ![a] = new]
        /\ blocks' = [blocks EXCEPT ![a] = @ \cup {[off |-> SubW(new, size), len |-> size,
                                                      align |-> align]}]
        /\ live' = live /\ arena' = arena
    BY <1>12, Zenon DEF AllocAligned
  <2>5. blocks' = [blocks EXCEPT ![a] = @ \cup {nb}]
    BY <2>3, <2>4
  <2>6. nb \in Block
    BY <1>7, <1>8, <1>10 DEF Block
  <2>7. TypeOK'
    BY <1>1, <2>1, <2>2, <2>4, <2>5, <2>6 DEF IInv, TypeOK
  <2>8. \A x \in Arenas \ {a} : index'[x] = index[x] /\ blocks'[x] = blocks[x]
    BY <2>4, <2>5 DEF IInv, TypeOK
  <2>9. /\ index'[a] = idx + size
        /\ blocks'[a] = blocks[a] \cup {nb}
    BY <2>2, <2>4, <2>5 DEF IInv, TypeOK
  <2>10. BlocksInRegion'
    <3>1. ASSUME NEW x \in Arenas \ {a}
          PROVE  /\ index'[x] <= arena'[x].size
                 /\ \A b \in blocks'[x] : b.off + b.len <= index'[x]
                 /\ \A b, c \in blocks'[x] :
                      b # c => b.off + b.len <= c.off \/ c.off + c.len <= b.off
      BY <2>4, <2>8 DEF IInv, BlocksInRegion
    <3>2. index'[a] <= arena'[a].size
      BY <2>1, <2>4, <2>9
    <3>3. \A b \in blocks'[a] : b.off + b.len <= index'[a]
      BY <1>1, <1>2, <1>7, <1>8, <1>10, <1>11, <2>9 DEF Block
    <3>4. \A b, c \in blocks'[a] :
            b # c => b.off + b.len <= c.off \/ c.off + c.len <= b.off
      BY <1>1, <1>2, <1>7, <1>8, <1>10, <1>11, <2>9 DEF Block
    <3>. QED  BY <3>1, <3>2, <3>3, <3>4 DEF BlocksInRegion
  <2>11. RegionsInSpace'
    BY <2>4 DEF IInv, RegionsInSpace
  <2>. QED  BY <2>7, <2>10, <2>11 DEF IInv
<1>13. CASE ~(size <= SubW(ar.size, idx))
  <2>1. /\ index' = [index EXCEPT ![a] = idx]
        /\ blocks' = blocks /\ live' = live /\ arena' = arena
    BY <1>13, Zenon DEF AllocAligned
  <2>2. TypeOK'
    BY <1>7, <1>8, <2>1 DEF IInv, TypeOK
  <2>3. index'[a] = idx /\ \A x \in Arenas \ {a} : index'[x] = index[x]
    BY <2>1 DEF IInv, TypeOK
  <2>4. BlocksInRegion'
    BY <1>1, <1>2, <1>7, <1>8, <2>1, <2>3 DEF IInv, TypeOK, BlocksInRegion, Block
  <2>5. RegionsInSpace'
    BY <2>1 DEF IInv, RegionsInSpace
  <2>. QED  BY <2>2, <2>4, <2>5 DEF IInv
<1>. QED  BY <1>12, <1>13

(* arena_copy keeps the blocks of the source that fit below the new index. *)
LEMMA CopyStep ==
  ASSUME IInv, NEW d \in Arenas, NEW s \in Arenas, Copy(d, s)
  PROVE  IInv'
<1>. DEFINE bytes == IF index[s] < arena[d].size THEN index[s] ELSE arena[d].size
<1>1. /\ index' = [index EXCEPT ![d] = bytes]
      /\ blocks' = [blocks EXCEPT ![d] = {b \in blocks[s] : b.off + b.len <= bytes}]
      /\ live' = live /\ arena' = arena
  BY Zenon DEF Copy
<1>2. bytes \in 0..SizeMax /\ bytes <= arena[d].size
  BY DEF IInv, TypeOK, ArenaRec
<1>. QED  BY <1>1, <1>2 DEF IInv, TypeOK, BlocksInRegion, RegionsInSpace

(* Every step keeps the blocks in their regions. *)
LEMMA NextIInv ==
  ASSUME IInv, [Next]_vars
  PROVE  IInv'
<1>1. CASE UNCHANGED vars
  BY <1>1 DEF vars, IInv, TypeOK, BlocksInRegion, RegionsInSpace
<1>2. ASSUME NEW a \in Arenas, NEW n \in Sizes, Create(a, n)
      PROVE  IInv'
  BY <1>2 DEF Create, IInv, TypeOK, BlocksInRegion, RegionsInSpace, ArenaRec
<1>3. ASSUME NEW a \in Arenas, NEW n \in Sizes, Alloc(a, n)
      PROVE  IInv'
  BY <1>3, AllocStep DEF Alloc
<1>4. ASSUME NEW a \in Arenas, NEW n \in Sizes, NEW al \in Aligns,
             AllocAligned(a, n, al)
      PROVE  IInv'
  BY <1>4, AllocStep
<1>5. ASSUME NEW a \in Arenas, NEW r \in BOOLEAN, NEW b \in Addrs, NEW n \in Sizes,
             ArenaInit(a, r, b, n)
      PROVE  IInv'
  BY <1>5 DEF ArenaInit, IInv, TypeOK, BlocksInRegion, RegionsInSpace, ArenaRec
<1>6. ASSUME NEW a \in Arenas, NEW s \in Arenas, Copy(a, s)
      PROVE  IInv'
  BY <1>6, CopyStep
<1>7. ASSUME NEW a \in Arenas, Clear(a)
      PROVE  IInv'
  BY <1>7 DEF Clear, IInv, TypeOK, BlocksInRegion, RegionsInSpace, ArenaRec
<1>8. ASSUME NEW a \in Arenas, Destroy(a)
      PROVE  IInv'
  BY <1>8 DEF Destroy, IInv, TypeOK, BlocksInRegion, RegionsInSpace, ArenaRec, NullArena
<1>. QED  BY <1>1, <1>2, <1>3, <1>4, <1>5, <1>6, <1>7, <1>8 DEF Next

-----------------------------------------------------------------------------
(* The bump allocator implements the contract of ArenaAlloc.                *)

(* The regions as the abstract specification sees them. *)
AbsArea == [a \in Arenas |-> [base |-> arena[a].base, size |-> arena[a].size]]

(* Padding an address up to a non-zero alignment makes it a multiple of it. *)
LEMMA AlignPad ==
  ASSUME NEW x \in Nat, NEW al \in Nat \ {0}
  PROVE  (x + (IF x % al = 0 THEN 0 ELSE al - (x % al))) % al = 0
<1>1. CASE x % al = 0
  BY <1>1
<1>2. CASE x % al # 0
  <2>. DEFINE q == x \div al
              m == x % al
  <2>1. q \in Nat /\ m \in 0..al - 1
    BY SMTT(30)
  <2>2. x = q * al + m
    BY SMTT(30)
  <2>3. x + (al - m) = (q + 1) * al
    BY <2>1, <2>2
  <2>4. ((q + 1) * al) % al = 0
    BY <2>1, SMTT(30)
  <2>. QED  BY <1>2, <2>3, <2>4
<1>. QED  BY <1>1, <1>2

LEMMA InitRefine == Init => Abs!Init
BY DEF Init, Abs!Init, NullArena, Abs!NoArea

(* arena_create installs a fresh, non-empty region. *)
LEMMA CreateRefine ==
  ASSUME IInv, NEW a \in Arenas, NEW n \in Sizes, Create(a, n)
  PROVE  Abs!Create(a)
<1>1. PICK base \in Addrs :
        /\ base + n <= SizeMax
        /\ arena' = [arena EXCEPT ![a] = [region |-> TRUE, base |-> base,
                                          size |-> n]]
  BY Zenon DEF Create
<1>2. /\ ~live[a] /\ n # 0
      /\ live' = [live EXCEPT ![a] = TRUE]
      /\ blocks' = [blocks EXCEPT ![a] = {}]
  BY Zenon DEF Create
<1>. DEFINE r == [base |-> base, size |-> n]
<1>3. r \in Abs!Area /\ r.size # 0 /\ Abs!InSpace(r)
  BY <1>1, <1>2 DEF Abs!Area, Abs!InSpace
<1>4. AbsArea' = [AbsArea EXCEPT ![a] = r]
  BY <1>1 DEF AbsArea, IInv, TypeOK
<1>. QED  BY <1>2, <1>3, <1>4 DEF Abs!Create, AbsArea

(* arena_init points a live arena at another region and empties it. *)
LEMMA InitArenaRefine ==
  ASSUME IInv, NEW a \in Arenas, NEW r \in BOOLEAN, NEW b \in Addrs,
         NEW n \in Sizes, ArenaInit(a, r, b, n)
  PROVE  Abs!Reinit(a)
<1>1. /\ live[a] /\ b + n <= SizeMax
      /\ arena' = [arena EXCEPT ![a] = [region |-> r, base |-> b, size |-> n]]
      /\ blocks' = [blocks EXCEPT ![a] = {}]
      /\ live' = live
  BY Zenon DEF ArenaInit
<1>. DEFINE ra == [base |-> b, size |-> n]
<1>2. ra \in Abs!Area /\ Abs!InSpace(ra)
  BY <1>1 DEF Abs!Area, Abs!InSpace
<1>3. AbsArea' = [AbsArea EXCEPT ![a] = ra]
  BY <1>1 DEF AbsArea, IInv, TypeOK
<1>. QED  BY <1>1, <1>2, <1>3 DEF Abs!Reinit, AbsArea

(* arena_alloc_aligned never hands out a block outside its region or over  *)
(* another live block, and index never passes size, whatever SIZE_MAX,     *)
(* the regions, the alignments and the sizes asked for.                    *)
THEOREM ArenaSafe == Spec => []BlocksInRegion
<1>1. Init => IInv
  BY InitIInv
<1>2. IInv /\ [Next]_vars => IInv'
  BY NextIInv
<1>3. IInv => BlocksInRegion
  BY DEF IInv
<1>. QED  BY <1>1, <1>2, <1>3, PTL DEF Spec

(* A successful arena_alloc_aligned hands out a free, aligned block of the  *)
(* region; a failed one changes nothing but the hidden index.              *)
LEMMA AllocRefine ==
  ASSUME IInv, NEW a \in Arenas, NEW size \in Sizes, NEW align \in Aligns,
         AllocAligned(a, size, align)
  PROVE  [Abs!Next]_Abs!vars
<1>. DEFINE ar  == arena[a]
            i   == index[a]
            pad == Padding(ar, i, align)
            idx == AddW(i, pad)
            new == AddW(idx, size)
<1>1. /\ ar \in ArenaRec /\ i \in 0..SizeMax /\ i <= ar.size
      /\ ar.base + ar.size <= SizeMax
  BY DEF IInv, TypeOK, BlocksInRegion, RegionsInSpace
<1>2. pad \in 0..SizeMax
  BY <1>1, PadType
<1>3. SubW(ar.size, i) = ar.size - i
  <2>1. ar.size - i \in 0..SizeMax
    BY <1>1 DEF ArenaRec
  <2>. QED  BY <2>1, NoWrap DEF SubW
<1>4. PadFits(ar, i, pad) /\ live[a] /\ size # 0
      /\ live' = live /\ arena' = arena
  BY Zenon DEF AllocAligned
<1>5. idx = i + pad /\ idx \in 0..SizeMax /\ idx <= ar.size /\ size \in 1..SizeMax
  <2>1. i + pad \in 0..SizeMax /\ i + pad <= ar.size
    BY <1>1, <1>2, <1>3, <1>4 DEF ArenaRec, PadFits
  <2>2. idx = i + pad
    BY <2>1, NoWrap DEF AddW
  <2>3. size \in 1..SizeMax
    BY <1>4
  <2>. QED  BY <2>1, <2>2, <2>3
<1>6. AbsArea' = AbsArea
  BY <1>4 DEF AbsArea
<1>7. CASE size <= SubW(ar.size, idx)
  <2>1. SubW(ar.size, idx) = ar.size - idx
    <3>1. ar.size - idx \in 0..SizeMax
      BY <1>1, <1>5 DEF ArenaRec
    <3>. QED  BY <3>1, NoWrap DEF SubW
  <2>2. idx + size <= ar.size /\ new = idx + size
    <3>1. idx + size \in 0..SizeMax /\ idx + size <= ar.size
      BY <1>1, <1>5, <1>7, <2>1 DEF ArenaRec
    <3>. QED  BY <3>1, NoWrap DEF AddW
  <2>3. SubW(new, size) = idx
    <3>1. new - size = idx /\ idx \in 0..SizeMax
      BY <1>1, <1>5, <2>2 DEF ArenaRec
    <3>. QED  BY <3>1, NoWrap DEF SubW
  <2>. DEFINE nb == [off |-> idx, len |-> size, align |-> align]
  <2>4. blocks' = [blocks EXCEPT ![a] = @ \cup {nb}]
    <3>1. blocks' = [blocks EXCEPT ![a] = @ \cup {[off |-> SubW(new, size),
                                                   len |-> size, align |-> align]}]
      BY <1>7, Zenon DEF AllocAligned
    <3>. QED  BY <2>3, <3>1
  <2>5. nb \in Abs!Block /\ Abs!Fits(a, nb)
    BY <1>1, <1>5, <2>2 DEF Abs!Block, Abs!Fits, ArenaRec
  <2>6. Abs!Aligned(a, nb)
    <3>1. CASE align = 0
      BY <3>1 DEF Abs!Aligned
    <3>2. CASE align # 0
      <4>1. ar.base + i \in 0..SizeMax
        BY <1>1 DEF ArenaRec
      <4>2. AddW(ar.base, i) = ar.base + i
        BY <4>1, NoWrap DEF AddW
      <4>. DEFINE x == ar.base + i
      <4>3. pad = IF x % align = 0 THEN 0 ELSE align - (x % align)
        BY <3>2, <4>2 DEF Padding
      <4>4. align \in Nat \ {0}
        BY <3>2
      <4>5. (x + pad) % align = 0
        BY <4>1, <4>3, <4>4, AlignPad
      <4>6. AbsArea[a].base + nb.off = x + pad
        <5>1. AbsArea[a].base = ar.base /\ nb.off = idx
          BY DEF AbsArea
        <5>. QED  BY <1>1, <1>2, <1>5, <5>1 DEF ArenaRec
      <4>. QED  BY <3>2, <4>5, <4>6 DEF Abs!Aligned, AbsArea
    <3>. QED  BY <3>1, <3>2
  <2>7. \A c \in blocks[a] : Abs!Disjoint(nb, c)
    <3>1. SUFFICES ASSUME NEW c \in blocks[a]
                   PROVE  c.off + c.len <= nb.off
      BY DEF Abs!Disjoint
    <3>2. c.off + c.len <= i
      BY DEF IInv, BlocksInRegion
    <3>3. c \in Block
      BY DEF IInv, TypeOK
    <3>. QED  BY <1>1, <1>2, <1>5, <3>2, <3>3 DEF Block
  <2>8. Abs!Alloc(a)
    BY <1>4, <1>6, <2>4, <2>5, <2>6, <2>7 DEF Abs!Alloc, AbsArea
  <2>. QED  BY <2>8 DEF Abs!Next
<1>8. CASE ~(size <= SubW(ar.size, idx))
  <2>1. blocks' = blocks
    BY <1>8, Zenon DEF AllocAligned
  <2>. QED  BY <1>4, <1>6, <2>1 DEF Abs!vars, AbsArea
<1>. QED  BY <1>7, <1>8

(* arena_copy: the blocks of the source that fit in the destination are    *)
(* exactly those below the number of bytes copied, since every block of    *)
(* the source lies below its index.                                        *)
LEMMA CopyRefine ==
  ASSUME IInv, NEW d \in Arenas, NEW s \in Arenas, Copy(d, s)
  PROVE  Abs!Copy(d, s)
<1>. DEFINE bytes == IF index[s] < arena[d].size THEN index[s] ELSE arena[d].size
<1>1. /\ blocks' = [blocks EXCEPT ![d] = {b \in blocks[s] : b.off + b.len <= bytes}]
      /\ live' = live /\ arena' = arena /\ live[d] /\ live[s]
  BY Zenon DEF Copy
<1>2. {b \in blocks[s] : b.off + b.len <= bytes} = {b \in blocks[s] : Abs!Fits(d, b)}
  BY DEF IInv, TypeOK, BlocksInRegion, Block, Abs!Fits, ArenaRec
<1>. QED  BY <1>1, <1>2 DEF Abs!Copy

LEMMA ClearRefine ==
  ASSUME NEW a \in Arenas, Clear(a)
  PROVE  Abs!Clear(a)
BY DEF Clear, Abs!Clear

LEMMA DestroyRefine ==
  ASSUME IInv, NEW a \in Arenas, Destroy(a)
  PROVE  Abs!Destroy(a)
<1>1. AbsArea' = [AbsArea EXCEPT ![a] = Abs!NoArea]
  BY DEF Destroy, AbsArea, IInv, TypeOK, NullArena, Abs!NoArea
<1>. QED  BY <1>1 DEF Destroy, Abs!Destroy, AbsArea

(* Every step of the bump allocator is a step of the contract, or leaves   *)
(* what the contract sees unchanged.                                       *)
LEMMA NextRefine ==
  ASSUME IInv, [Next]_vars
  PROVE  [Abs!Next]_Abs!vars
<1>1. CASE UNCHANGED vars
  BY <1>1 DEF vars, Abs!vars
<1>2. ASSUME NEW a \in Arenas, NEW n \in Sizes, Create(a, n)
      PROVE  [Abs!Next]_Abs!vars
  BY <1>2, CreateRefine DEF Abs!Next
<1>3. ASSUME NEW a \in Arenas, NEW n \in Sizes, Alloc(a, n)
      PROVE  [Abs!Next]_Abs!vars
  BY <1>3, AllocRefine DEF Alloc
<1>4. ASSUME NEW a \in Arenas, NEW n \in Sizes, NEW al \in Aligns,
             AllocAligned(a, n, al)
      PROVE  [Abs!Next]_Abs!vars
  BY <1>4, AllocRefine
<1>5. ASSUME NEW a \in Arenas, NEW r \in BOOLEAN, NEW b \in Addrs, NEW n \in Sizes,
             ArenaInit(a, r, b, n)
      PROVE  [Abs!Next]_Abs!vars
  BY <1>5, InitArenaRefine DEF Abs!Next
<1>6. ASSUME NEW a \in Arenas, NEW s \in Arenas, Copy(a, s)
      PROVE  [Abs!Next]_Abs!vars
  BY <1>6, CopyRefine DEF Abs!Next
<1>7. ASSUME NEW a \in Arenas, Clear(a)
      PROVE  [Abs!Next]_Abs!vars
  BY <1>7, ClearRefine DEF Abs!Next
<1>8. ASSUME NEW a \in Arenas, Destroy(a)
      PROVE  [Abs!Next]_Abs!vars
  BY <1>8, DestroyRefine DEF Abs!Next
<1>. QED  BY <1>1, <1>2, <1>3, <1>4, <1>5, <1>6, <1>7, <1>8 DEF Next

(* arena.c implements the arena contract of spec 4.1 (AbsSpec): every      *)
(* successful arena_alloc_aligned returns a block inside the region,       *)
(* aligned as asked, and over no block handed out since the last init,     *)
(* clear or copy, for every SIZE_MAX, region, alignment and size.          *)
THEOREM Refinement == Spec => AbsSpec
<1>1. Init => Abs!Init /\ IInv
  BY InitRefine, InitIInv
<1>2. IInv /\ [Next]_vars => IInv' /\ [Abs!Next]_Abs!vars
  BY NextIInv, NextRefine
<1>. QED  BY <1>1, <1>2, PTL DEF Spec, AbsSpec, Abs!Spec

(* Every arena operation keeps the handles, regions, indices and blocks     *)
(* within their C types: index and every block offset and length are       *)
(* size_t values that never wrap.                                           *)
THEOREM ArenaTypeCorrect == Spec => []TypeOK
<1>1. Init => IInv
  BY InitIInv
<1>2. IInv /\ [Next]_vars => IInv'
  BY NextIInv
<1>3. IInv => TypeOK
  BY DEF IInv
<1>. QED  BY <1>1, <1>2, <1>3, PTL DEF Spec

=============================================================================
