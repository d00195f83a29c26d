----------------------------- MODULE BumpArena -----------------------------
(***************************************************************************)
(* The bump allocator of src/src/arena.c, which gives each connection its  *)
(* per-message memory.  An arena is a region (an address and a size), and *)
(* an index: the bytes below it are handed out.  size_t and uintptr_t      *)
(* arithmetic wraps modulo Word, as in C, so that a missing check shows as *)
(* a wrapped subtraction that lets an allocation out of its region.        *)
(*                                                                         *)
(* The handles are the constant set Arenas; a call with a null handle, or  *)
(* one that returns before changing anything, is a stuttering step and is  *)
(* left out.  blocks[a] is a history of the blocks handed out since the    *)
(* region was (re)initialised, cleared or copied into, as offsets into it. *)
(* ARENA_DEBUG is not defined in this build, so its allocation list is not *)
(* modelled.                                                               *)
(***************************************************************************)
EXTENDS Naturals

CONSTANTS
  Arenas,      \* arena handles
  SizeMax,     \* SIZE_MAX (and UINTPTR_MAX) of the model
  Addrs,       \* addresses a region may start at
  Aligns,      \* alignments a caller may pass (0: none)
  DefaultAlign,\* ARENA_DEFAULT_ALIGNMENT, alignof(max_align_t)
  Sizes        \* sizes a caller may ask for

ASSUME BoundsAssumption ==
  /\ SizeMax \in Nat \ {0}
  /\ Addrs \subseteq 0..SizeMax
  /\ Aligns \subseteq 0..SizeMax /\ DefaultAlign \in Aligns
  /\ Sizes \subseteq 0..SizeMax

Word == SizeMax + 1

(* size_t and uintptr_t addition and subtraction. *)
AddW(x, y) == (x + y) % Word
SubW(x, y) == (x - y) % Word

(* A block handed out: offset, length, and the alignment it was asked with. *)
Block == [off : 0..SizeMax, len : 1..SizeMax, align : Aligns]
NullArena == [region |-> FALSE, base |-> 0, size |-> 0]
ArenaRec == [region : BOOLEAN, base : 0..SizeMax, size : 0..SizeMax]

VARIABLES
  live,    \* live[a]: handle a points to an allocated Arena
  arena,   \* arena[a]: its fields region (non-null?), base and size
  index,   \* index[a]: its field index
  blocks   \* blocks[a]: the blocks handed out in its current contents

vars == <<live, arena, index, blocks>>

TypeOK ==
  /\ live \in [Arenas -> BOOLEAN]
  /\ arena \in [Arenas -> ArenaRec]
  /\ index \in [Arenas -> 0..SizeMax]
  /\ blocks \in [Arenas -> SUBSET Block]

Init ==
  /\ live = [a \in Arenas |-> FALSE]
  /\ arena = [a \in Arenas |-> NullArena]
  /\ index = [a \in Arenas |-> 0]
  /\ blocks = [a \in Arenas |-> {}]

(* arena_create: a zero size or a failed calloc returns null and changes   *)
(* nothing; otherwise a fresh region of the size, which does not wrap the  *)
(* address space, is installed by arena_init.                              *)
Create(a, size) ==
  /\ ~live[a] /\ size # 0
  /\ \E base \in Addrs :
       /\ base + size <= SizeMax
       /\ arena' = [arena EXCEPT ![a] = [region |-> TRUE, base |-> base,
                                         size |-> size]]
  /\ index' = [index EXCEPT ![a] = 0]
  /\ live' = [live EXCEPT ![a] = TRUE]
  /\ blocks' = [blocks EXCEPT ![a] = {}]

(* arena_init on a live arena with a caller's region (or null): refused    *)
(* when exactly one of region and size is null/zero.                       *)
ArenaInit(a, hasRegion, base, size) ==
  /\ live[a]
  /\ hasRegion = (size # 0)
  /\ base + size <= SizeMax
  /\ arena' = [arena EXCEPT ![a] = [region |-> hasRegion, base |-> base,
                                    size |-> size]]
  /\ index' = [index EXCEPT ![a] = 0]
  /\ blocks' = [blocks EXCEPT ![a] = {}]
  /\ UNCHANGED live

(* Mutant: the index, not the address region + index, is aligned. *)
PaddingIndexOnly(ar, i, align) ==
  LET mis == IF align = 0 THEN 0 ELSE i % align
  IN  IF mis = 0 THEN 0 ELSE align - mis

(* The padding that aligns region + index to a non-zero alignment. *)
Padding(ar, i, align) ==
  LET mis == IF align = 0 THEN 0 ELSE AddW(ar.base, i) % align
  IN  IF mis = 0 THEN 0 ELSE align - mis

(* Mutant: the padding is not checked against the room left. *)
PadFitsUnchecked(ar, i, pad) == TRUE

(* The padding check of arena_alloc_aligned: the room left is a size_t     *)
(* difference, which cannot wrap while index <= size.                      *)
PadFits(ar, i, pad) == pad <= SubW(ar.size, i)

(* Mutant: no early return for a zero size. *)
AllocAlignedZero(a, size, align) ==
  LET ar  == arena[a]
      pad == Padding(ar, index[a], align)
      idx == AddW(index[a], pad)
      new == AddW(idx, size)
  IN  /\ live[a] /\ ar.region /\ index[a] <= ar.size
      /\ PadFits(ar, index[a], pad)
      /\ IF size <= SubW(ar.size, idx)
         THEN /\ index' = [index EXCEPT ![a] = new]
              /\ blocks' = [blocks EXCEPT ![a] =
                              @ \cup {[off |-> SubW(new, size), len |-> size,
                                         align |-> align]}]
         ELSE /\ index' = [index EXCEPT ![a] = idx]
              /\ UNCHANGED blocks
      /\ UNCHANGED <<live, arena>>

(* arena_alloc_aligned.  The padding is added to index before the size     *)
(* check, so a request that then fails still leaves the padding consumed.  *)
AllocAligned(a, size, align) ==
  LET ar  == arena[a]
      pad == Padding(ar, index[a], align)
      idx == AddW(index[a], pad)
      new == AddW(idx, size)
  IN  /\ live[a] /\ size # 0 /\ ar.region
      /\ index[a] <= ar.size
      /\ PadFits(ar, index[a], pad)
      /\ IF size <= SubW(ar.size, idx)
         THEN /\ index' = [index EXCEPT ![a] = new]
              /\ blocks' = [blocks EXCEPT ![a] =
                              @ \cup {[off |-> SubW(new, size), len |-> size,
                                         align |-> align]}]
         ELSE /\ index' = [index EXCEPT ![a] = idx]
              /\ UNCHANGED blocks
      /\ UNCHANGED <<live, arena>>

(* arena_alloc: the default alignment. *)
Alloc(a, size) == AllocAligned(a, size, DefaultAlign)

(* arena_copy: the first min(src.index, dest.size) bytes of src become     *)
(* dest's contents; the blocks of src that fit are now in dest too.        *)
Copy(d, s) ==
  LET bytes == IF index[s] < arena[d].size THEN index[s] ELSE arena[d].size
  IN  /\ live[d] /\ live[s] /\ arena[d].region /\ arena[s].region
      /\ index' = [index EXCEPT ![d] = bytes]
      /\ blocks' = [blocks EXCEPT ![d] =
                      {b \in blocks[s] : b.off + b.len <= bytes}]
      /\ UNCHANGED <<live, arena>>

(* arena_clear. *)
Clear(a) ==
  /\ live[a]
  /\ index' = [index EXCEPT ![a] = 0]
  /\ blocks' = [blocks EXCEPT ![a] = {}]
  /\ UNCHANGED <<live, arena>>

(* arena_destroy: the region and the Arena are freed. *)
Destroy(a) ==
  /\ live[a]
  /\ live' = [live EXCEPT ![a] = FALSE]
  /\ arena' = [arena EXCEPT ![a] = NullArena]
  /\ index' = [index EXCEPT ![a] = 0]
  /\ blocks' = [blocks EXCEPT ![a] = {}]

Next ==
  \E a \in Arenas :
    \/ \E n \in Sizes : Create(a, n) \/ Alloc(a, n)
    \/ \E n \in Sizes, al \in Aligns : AllocAligned(a, n, al)
    \/ \E r \in BOOLEAN, b \in Addrs, n \in Sizes : ArenaInit(a, r, b, n)
    \/ \E s \in Arenas : Copy(a, s)
    \/ Clear(a)
    \/ Destroy(a)

Spec == Init /\ [][Next]_vars

-----------------------------------------------------------------------------
(* The allocator's contract (spec 4.1): index never passes size, and every *)
(* block handed out since the last clear lies below index, inside the      *)
(* region, and overlaps no other.  A check of arena_alloc_aligned that     *)
(* let a wrapped size_t subtraction through would break it.                *)
BlocksInRegion ==
  \A a \in Arenas :
    /\ index[a] <= arena[a].size
    /\ \A b \in blocks[a] : b.off + b.len <= index[a]
    /\ \A b, c \in blocks[a] :
         b # c => b.off + b.len <= c.off \/ c.off + c.len <= b.off

(* The refinement mapping: an arena's region is its address and size, the  *)
(* bump index is hidden, and the blocks are the blocks held.               *)
Abs == INSTANCE ArenaAlloc
         WITH on <- live,
              area <- [a \in Arenas |-> [base |-> arena[a].base,
                                         size |-> arena[a].size]],
              held <- blocks

(* arena.c implements the contract of spec 4.1: every successful           *)
(* arena_alloc_aligned returns a block inside the region, aligned as       *)
(* asked, that overlaps no block handed out since the last init, clear or  *)
(* copy; a failed request (which may still consume the padding), copy,     *)
(* clear, init and destroy change the held blocks only as the contract     *)
(* allows.                                                                 *)
AbsSpec == Abs!Spec
=============================================================================
