----------------------------- MODULE ArenaAlloc -----------------------------
(***************************************************************************)
(* What an arena promises its callers (spec 4.1), without the bump index:  *)
(* an arena is a region, an address and a size, and the blocks handed out  *)
(* since it was last (re)initialised, cleared or copied into.  A request   *)
(* either fails, changing nothing a caller can see, or returns a block of  *)
(* the size asked for that lies inside the region, overlaps no block still *)
(* held, and starts at an address that is a multiple of the alignment      *)
(* asked for (0: none).  Which free block is chosen is left open.          *)
(*                                                                         *)
(* BumpArena implements this module: see its refinement mapping Abs.       *)
(***************************************************************************)
EXTENDS Naturals

CONSTANTS
  Arenas,      \* arena handles
  SizeMax,     \* the largest address and size
  Aligns       \* alignments a caller may ask for (0: none)

(* A block: its offset in the region, its length, the alignment asked. *)
Block == [off : 0..SizeMax, len : 1..SizeMax, align : Aligns]
Area == [base : 0..SizeMax, size : 0..SizeMax]
NoArea == [base |-> 0, size |-> 0]

VARIABLES
  on,      \* on[a]: the handle a is an arena
  area,    \* area[a]: its region
  held     \* held[a]: the blocks handed out in its current contents

vars == <<on, area, held>>

TypeOK ==
  /\ on \in [Arenas -> BOOLEAN]
  /\ area \in [Arenas -> Area]
  /\ held \in [Arenas -> SUBSET Block]

(* A region that does not wrap the address space. *)
InSpace(r) == r.base + r.size <= SizeMax

Fits(a, b) == b.off + b.len <= area[a].size
Disjoint(b, c) == b.off + b.len <= c.off \/ c.off + c.len <= b.off
Aligned(a, b) == b.align = 0 \/ (area[a].base + b.off) % b.align = 0

Init ==
  /\ on = [a \in Arenas |-> FALSE]
  /\ area = [a \in Arenas |-> NoArea]
  /\ held = [a \in Arenas |-> {}]

(* A new arena over a fresh, non-empty region. *)
Create(a) ==
  /\ ~on[a]
  /\ \E r \in Area : r.size # 0 /\ InSpace(r) /\ area' = [area EXCEPT ![a] = r]
  /\ on' = [on EXCEPT ![a] = TRUE]
  /\ held' = [held EXCEPT ![a] = {}]

(* An arena is pointed at another region (or none), and emptied. *)
Reinit(a) ==
  /\ on[a]
  /\ \E r \in Area : InSpace(r) /\ area' = [area EXCEPT ![a] = r]
  /\ held' = [held EXCEPT ![a] = {}]
  /\ UNCHANGED on

(* A request that succeeds hands out a free, aligned block of the region. *)
Alloc(a) ==
  /\ on[a]
  /\ \E b \in Block :
       /\ Fits(a, b) /\ Aligned(a, b)
       /\ \A c \in held[a] : Disjoint(b, c)
       /\ held' = [held EXCEPT ![a] = @ \cup {b}]
  /\ UNCHANGED <<on, area>>

(* Copying keeps the blocks of the source that fit in the destination. *)
Copy(d, s) ==
  /\ on[d] /\ on[s]
  /\ held' = [held EXCEPT ![d] = {b \in held[s] : Fits(d, b)}]
  /\ UNCHANGED <<on, area>>

Clear(a) ==
  /\ on[a]
  /\ held' = [held EXCEPT ![a] = {}]
  /\ UNCHANGED <<on, area>>

Destroy(a) ==
  /\ on[a]
  /\ on' = [on EXCEPT ![a] = FALSE]
  /\ area' = [area EXCEPT ![a] = NoArea]
  /\ held' = [held EXCEPT ![a] = {}]

Next ==
  \E a \in Arenas :
    \/ Create(a) \/ Reinit(a) \/ Alloc(a) \/ Clear(a) \/ Destroy(a)
    \/ \E s \in Arenas : Copy(a, s)

Spec == Init /\ [][Next]_vars
=============================================================================
