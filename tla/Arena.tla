------------------------------- MODULE Arena -------------------------------
(***************************************************************************)
(* The bump allocator of src/src/arena.c and the capacity arithmetic of    *)
(* src/include/util.h that both the arenas and the growable arrays use.    *)
(*                                                                         *)
(* An arena is the C struct: base, next and end are machine addresses.     *)
(* Memory contents are not modelled here; the objects placed in an arena   *)
(* are the business of Gc.tla.  The valgrind hooks and the zeroing of      *)
(* DEBUG_CLEAR_ARENA are left out.                                         *)
(***************************************************************************)
EXTENDS Integers

CONSTANT SizeMod        \* 2^w for the w-bit size_t, uintptr_t

ASSUME SizeModAssumption == SizeMod \in Nat /\ SizeMod > 2

PtrdiffMax == SizeMod \div 2 - 1

Arenas == [base : Nat, next : Nat, end : Nat]

NoArena == [base |-> 0, next |-> 0, end |-> 0]

(***************************************************************************)
(* arena_init: address is what malloc returned.  A zero capacity arena     *)
(* holds three NULLs and never calls malloc.                               *)
(***************************************************************************)
ArenaInit(address, capacity) ==
    IF capacity = 0
    THEN NoArena
    ELSE [base |-> address, next |-> address, end |-> address + capacity]

ArenaCapacity(a) == a.end - a.base

\* Mutant: the negation of the cast is forgotten.
PaddingUpward(a, align) == a.next % align

\* The bytes to skip so that next is a multiple of align, a power of two:
\* (-(uintptr_t) next) & (align - 1).
ArenaPadding(a, align) == (-a.next) % align

\* Mutants: the padding is not taken off the room; a full arena is refused.
FitsUnpadded(a, size, align, count) ==
    /\ a.end - a.next >= ArenaPadding(a, align)
    /\ count <= (a.end - a.next) \div size

FitsStrictly(a, size, align, count) ==
    LET padding == ArenaPadding(a, align) IN
    /\ a.end - a.next > padding
    /\ count <= (a.end - a.next - padding - 1) \div size

ArenaFits(a, size, align, count) ==
    LET padding == ArenaPadding(a, align) IN
    /\ a.end - a.next >= padding
    /\ count <= (a.end - a.next - padding) \div size

\* The address arena_alloc returns, and the arena it leaves behind.
ArenaBlock(a, align) == a.next + ArenaPadding(a, align)

\* Mutant: next moves by the size asked for, without the padding.
BumpUnpadded(a, size, align, count) == [a EXCEPT !.next = @ + count * size]

ArenaBump(a, size, align, count) ==
    [a EXCEPT !.next = ArenaBlock(a, align) + count * size]

\* Mutant: next moves back by the capacity instead of to base.
ResetByCapacity(a) == [a EXCEPT !.next = @ - ArenaCapacity(a)]

ArenaReset(a) == [a EXCEPT !.next = a.base]

-----------------------------------------------------------------------------
(***************************************************************************)
(* grow_capacity: double, or start at base; what would wrap or exceed      *)
(* PTRDIFF_MAX / size is clamped to that limit.  It reports failure when   *)
(* the result is not larger than what there was.                           *)
(***************************************************************************)
ValidCapacity(capacity, size) == capacity <= PtrdiffMax \div size

\* Mutant: only the wrap of the doubling is clamped.
GrownUnclamped(capacity, size, base) ==
    LET wanted == IF capacity = 0 THEN base ELSE (2 * capacity) % SizeMod IN
    IF wanted < capacity THEN PtrdiffMax \div size ELSE wanted

GrownCapacity(capacity, size, base) ==
    LET wanted == IF capacity = 0 THEN base ELSE (2 * capacity) % SizeMod IN
    IF wanted < capacity \/ ~ValidCapacity(wanted, size)
    THEN PtrdiffMax \div size
    ELSE wanted

CanGrow(capacity, size, base) == GrownCapacity(capacity, size, base) > capacity
=============================================================================
