---------------------------- MODULE ArenaProofs ----------------------------
(***************************************************************************)
(* The safety of an arena for every word size, alignment and sequence of   *)
(* requests.                                                               *)
(*                                                                         *)
(* AInv is inductive: no part of it mentions the history, so it needs no   *)
(* further strengthening.                                                  *)
(***************************************************************************)
EXTENDS ArenaClient, CommonFacts

AInv == TypeOK /\ BlocksInside /\ BlocksDisjoint /\ BlocksAligned

(***************************************************************************)
(* Capacities only ever grow, and stay valid ptrdiff_t values.             *)
(***************************************************************************)
LEMMA GrowthBounds ==
    ASSUME NEW capacity \in Nat, NEW base \in Nat, base <= PtrdiffMax,
           CanGrow(capacity, 1, base)
    PROVE  /\ GrownCapacity(capacity, 1, base) \in Nat
           /\ GrownCapacity(capacity, 1, base) > capacity
           /\ GrownCapacity(capacity, 1, base) <= PtrdiffMax
  <1>1. PtrdiffMax \in Nat /\ PtrdiffMax \div 1 = PtrdiffMax
    BY SizeModAssumption DEF PtrdiffMax
  <1>2. (2 * capacity) % SizeMod \in Nat
    BY SizeModAssumption
  <1> QED
    BY <1>1, <1>2 DEF CanGrow, GrownCapacity, ValidCapacity

LEMMA InitEstablishes == Init => AInv
  BY ClientAssumption
  DEF Init, AInv, TypeOK, BlocksInside, BlocksDisjoint, BlocksAligned,
      Arenas, ArenaInit, NoArena, Blocks

LEMMA AllocKeeps ==
    ASSUME AInv,
           NEW size \in Sizes, NEW align \in Aligns, NEW count \in Counts,
           Alloc(size, align, count)
    PROVE  AInv'
  <1> DEFINE at  == ArenaBlock(arena, align)
             len == count * size
             new == [at |-> at, len |-> len, align |-> align]
             pad == ArenaPadding(arena, align)
  <1>1. /\ size \in Nat \ {0} /\ align \in Nat \ {0} /\ count \in Nat
        /\ arena \in Arenas /\ blocks \subseteq Blocks
    BY ClientAssumption DEF AInv, TypeOK
  <1>2. arena.base \in Nat /\ arena.next \in Nat /\ arena.end \in Nat
    BY <1>1 DEF Arenas
  <1>3. pad \in Nat
    BY <1>2, <1>1, PaddingBounds DEF ArenaPadding
  <1>4. len \in Nat /\ len <= arena.end - arena.next - pad
    <2>1. /\ arena.end - arena.next >= pad
          /\ count <= (arena.end - arena.next - pad) \div size
      BY DEF Alloc, ArenaFits
    <2>2. arena.end - arena.next - pad \in Nat
      BY <1>2, <1>3, <2>1
    <2> QED
      BY <1>1, <2>1, <2>2, QuotientGuardsProduct
  <1>5. at \in Nat /\ at = arena.next + pad
    BY <1>2, <1>3 DEF ArenaBlock
  <1>6. /\ arena' = [arena EXCEPT !.next = at + len]
        /\ blocks' = blocks \cup {new}
        /\ live' = live
    BY DEF Alloc, ArenaBump
  <1>7. /\ arena'.base = arena.base /\ arena'.end = arena.end
        /\ arena'.next = at + len
    BY <1>1, <1>6 DEF Arenas
  <1>8. \A b \in blocks : b.at \in Nat /\ b.len \in Nat
    BY <1>1 DEF Blocks
  <1> HIDE DEF at, len, pad
  <1>9. TypeOK'
    BY <1>1, <1>2, <1>4, <1>5, <1>6 DEF AInv, TypeOK, Arenas, Blocks
  <1>10. BlocksInside'
    BY <1>2, <1>3, <1>4, <1>5, <1>6, <1>7, <1>8 DEF AInv, BlocksInside
  <1>11. BlocksDisjoint'
    BY <1>2, <1>3, <1>4, <1>5, <1>6, <1>8 DEF AInv, BlocksInside, BlocksDisjoint
  <1>12. BlocksAligned'
    <2>1. at % align = 0
      BY <1>1, <1>2, <1>5, PaddingAligns DEF pad, ArenaPadding
    <2> QED
      BY <1>6, <2>1 DEF AInv, BlocksAligned
  <1> QED
    BY <1>9, <1>10, <1>11, <1>12 DEF AInv

LEMMA ResetKeeps == AInv /\ Reset => AInv'
  BY DEF AInv, TypeOK, BlocksInside, BlocksDisjoint, BlocksAligned, Reset, ArenaReset, Arenas

LEMMA ResizeKeeps == AInv /\ Resize => AInv'
  <1> SUFFICES ASSUME AInv, Resize PROVE AInv'
    OBVIOUS
  <1>1. blocks' = {} /\ live' \in BOOLEAN
    BY DEF AInv, TypeOK, Resize
  <1>2. arena' \in Arenas /\ arena'.base <= arena'.next /\ arena'.next <= arena'.end
    <2> DEFINE capacity == ArenaCapacity(arena)
               grown == GrownCapacity(capacity, 1, FirstCapacity)
    <2>1. ASSUME NEW address \in Addresses, CanGrow(capacity, 1, FirstCapacity),
                 arena' = ArenaInit(address, grown)
          PROVE  arena' \in Arenas /\ arena'.base <= arena'.next /\ arena'.next <= arena'.end
      <3>1. capacity \in Nat
        BY DEF AInv, TypeOK, BlocksInside, ArenaCapacity, Arenas
      <3>2. grown \in Nat
        BY <2>1, <3>1, ClientAssumption, GrowthBounds
      <3>3. address \in Nat
        BY ClientAssumption
      <3> HIDE DEF grown
      <3> QED
        BY <2>1, <3>2, <3>3 DEF ArenaInit, NoArena, Arenas
    <2>2. CASE arena' = NoArena
      BY <2>2 DEF NoArena, Arenas
    <2>3. CASE arena' = arena
      BY <2>3 DEF AInv, TypeOK, BlocksInside
    <2> QED
      BY <2>1, <2>2, <2>3 DEF Resize
  <1> QED
    BY <1>1, <1>2 DEF AInv, TypeOK, BlocksInside, BlocksDisjoint, BlocksAligned

(***************************************************************************)
(* However often the client allocates, resets and resizes, its blocks lie  *)
(* inside the arena and never overlap.                                     *)
(***************************************************************************)
LEMMA AlwaysAInv == Spec => []AInv
  <1>1. AInv /\ [Next]_vars => AInv'
    <2> SUFFICES ASSUME AInv, [Next]_vars PROVE AInv'
      OBVIOUS
    <2>1. CASE \E size \in Sizes, align \in Aligns, count \in Counts :
                  Alloc(size, align, count)
      BY <2>1, AllocKeeps
    <2>2. CASE Reset
      BY <2>2, ResetKeeps
    <2>3. CASE Resize
      BY <2>3, ResizeKeeps
    <2>4. CASE Exited \/ UNCHANGED vars
      BY <2>4 DEF Exited, vars, AInv, TypeOK, BlocksInside, BlocksDisjoint,
                      BlocksAligned
    <2> QED
      BY <2>1, <2>2, <2>3, <2>4 DEF Next
  <1> QED
    BY <1>1, InitEstablishes, PTL DEF Spec

\* base, next and end stay addresses, for every word size and stream of requests.
THEOREM ArenaTypesAlwaysOK == Spec => []TypeOK
  BY AlwaysAInv, PTL DEF AInv

\* For every word size and every stream of requests a block lies between base
\* and next of its arena.
THEOREM BlocksAlwaysInside == Spec => []BlocksInside
  BY AlwaysAInv, PTL DEF AInv

\* For every word size and every stream of requests no two blocks share a byte.
THEOREM BlocksAlwaysDisjoint == Spec => []BlocksDisjoint
  BY AlwaysAInv, PTL DEF AInv

\* Every block has the alignment it was asked with, wherever malloc put the arena.
THEOREM BlocksAlwaysAligned == Spec => []BlocksAligned
  BY AlwaysAInv, PTL DEF AInv

\* A request is refused only when no aligned place has room for it, for every word
\* size and stream of requests: the padding is the distance to the first multiple
\* of the alignment, and the division loses no room.
THEOREM AlwaysRefusesOnlyWhenFull == Spec => []RefusesOnlyWhenFull
  <1>1. ASSUME AInv, NEW size \in Sizes, NEW align \in Aligns, NEW count \in Counts,
               NEW at \in arena.next .. arena.end,
               at % align = 0, at + count * size <= arena.end
        PROVE  ArenaFits(arena, size, align, count)
    <2> DEFINE pad == ArenaPadding(arena, align)
               room == arena.end - arena.next - pad
    <2>1. /\ size \in Nat \ {0} /\ align \in Nat \ {0} /\ count \in Nat
          /\ arena \in Arenas
          /\ arena.base \in Nat /\ arena.next \in Nat /\ arena.end \in Nat
      BY <1>1, ClientAssumption DEF AInv, TypeOK, Arenas
    <2>2. count * size \in Nat
      BY <2>1
    <2>3. pad \in Nat /\ at - arena.next >= pad
      <3>1. at \in Nat /\ arena.next <= at /\ pad = (-arena.next) % align
        BY <2>1 DEF ArenaPadding
      <3>2. (-arena.next) % align <= at - arena.next
        BY <1>1, <2>1, <3>1, FirstMultiple
      <3>3. pad \in Nat
        BY <2>1, PaddingBounds DEF ArenaPadding
      <3> QED
        BY <2>1, <3>1, <3>2, <3>3
    <2>4. room \in Nat /\ count * size <= room
      BY <1>1, <2>1, <2>2, <2>3
    <2>5. count <= room \div size
      BY <2>1, <2>4, ProductFitsQuotient
    <2> QED
      BY <2>1, <2>3, <2>4, <2>5 DEF ArenaFits
  <1>2. AInv => RefusesOnlyWhenFull
    BY <1>1 DEF RefusesOnlyWhenFull
  <1> QED
    BY <1>2, AlwaysAInv, PTL

\* An arena that survives a resize is larger than before and its capacity is a
\* valid ptrdiff_t, for every word size and initial capacity.
THEOREM ResizeAlwaysGrows == Spec => ResizeGrows
  <1>1. ASSUME AInv, [Next]_vars,
               ArenaCapacity(arena') # ArenaCapacity(arena), live'
        PROVE  /\ ArenaCapacity(arena') > ArenaCapacity(arena)
               /\ ArenaCapacity(arena') <= PtrdiffMax
    <2> DEFINE capacity == ArenaCapacity(arena)
    <2>1. arena \in Arenas /\ capacity \in Nat
      BY <1>1 DEF AInv, TypeOK, BlocksInside, ArenaCapacity, Arenas
    <2>2. Resize
      <3>1. ASSUME NEW size \in Sizes, NEW align \in Aligns, NEW count \in Counts,
                   Alloc(size, align, count)
            PROVE  FALSE
        BY <1>1, <2>1, <3>1 DEF Alloc, ArenaBump, ArenaCapacity, Arenas
      <3>2. ~Reset /\ ~Exited /\ ~UNCHANGED vars
        BY <1>1, <2>1 DEF Reset, ArenaReset, Exited, vars, ArenaCapacity, Arenas
      <3> QED
        BY <1>1, <3>1, <3>2 DEF Next
    <2>3. PICK address \in Addresses :
              /\ CanGrow(capacity, 1, FirstCapacity)
              /\ arena' = ArenaInit(address, GrownCapacity(capacity, 1, FirstCapacity))
      BY <1>1, <2>2 DEF Resize
    <2>4. /\ GrownCapacity(capacity, 1, FirstCapacity) \in Nat
          /\ GrownCapacity(capacity, 1, FirstCapacity) > capacity
          /\ GrownCapacity(capacity, 1, FirstCapacity) <= PtrdiffMax
      BY <2>1, <2>3, GrowthBounds, ClientAssumption
    <2>5. ArenaCapacity(arena') = GrownCapacity(capacity, 1, FirstCapacity)
      <3> DEFINE grown == GrownCapacity(capacity, 1, FirstCapacity)
      <3>1. grown \in Nat /\ grown # 0 /\ arena' = ArenaInit(address, grown)
        BY <2>1, <2>3, <2>4
      <3>2. address \in Nat
        BY ClientAssumption
      <3> HIDE DEF grown
      <3>3. ArenaCapacity(arena') = grown
        BY <3>1, <3>2 DEF ArenaInit, ArenaCapacity
      <3> QED
        BY <3>3 DEF grown
    <2> QED
      BY <2>4, <2>5
  <1> QED
    BY <1>1, AlwaysAInv, PTL DEF Spec, ResizeGrows
=============================================================================
