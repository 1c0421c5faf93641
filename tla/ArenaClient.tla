---------------------------- MODULE ArenaClient ----------------------------
(***************************************************************************)
(* One arena in the hands of a client that may ask for any block, reset    *)
(* the arena, and replace it by a larger one the way gc_arena_resize does. *)
(* blocks remembers what the client was given since the last reset.        *)
(***************************************************************************)
EXTENDS Arena

CONSTANTS
    Addresses,      \* what malloc may return
    Sizes,          \* object sizes asked for, never 0: arena_alloc divides by it
    Aligns,         \* alignments asked for, powers of two
    Counts,         \* element counts asked for
    FirstCapacity   \* INITIAL_REGION_SIZE

ASSUME ClientAssumption ==
    /\ Addresses \subseteq Nat
    /\ Sizes \subseteq Nat \ {0}
    /\ Aligns \subseteq Nat \ {0}
    /\ Counts \subseteq Nat
    /\ FirstCapacity \in Nat /\ FirstCapacity <= PtrdiffMax

VARIABLES
    arena,      \* the Arena struct
    blocks,     \* [at, len, align] of every block handed out and still valid
    live        \* FALSE once a resize failed: the process has exited

vars == <<arena, blocks, live>>

Blocks == [at : Nat, len : Nat, align : Aligns]

TypeOK ==
    /\ arena \in Arenas
    /\ blocks \subseteq Blocks
    /\ live \in BOOLEAN

Init ==
    /\ \E address \in Addresses : arena = ArenaInit(address, FirstCapacity)
    /\ blocks = {}
    /\ live = TRUE

\* arena_alloc hands out a block.
Alloc(size, align, count) ==
    /\ live
    /\ ArenaFits(arena, size, align, count)
    /\ blocks' = blocks \cup
          {[at |-> ArenaBlock(arena, align), len |-> count * size, align |-> align]}
    /\ arena' = ArenaBump(arena, size, align, count)
    /\ UNCHANGED live

\* arena_reset: every block handed out so far becomes invalid.
Reset ==
    /\ live
    /\ arena' = ArenaReset(arena)
    /\ blocks' = {}
    /\ UNCHANGED live

\* gc_arena_resize: free, then malloc twice the capacity; exit if either fails.
Resize ==
    /\ live
    /\ LET capacity == ArenaCapacity(arena) IN
       IF CanGrow(capacity, 1, FirstCapacity)
       THEN \/ /\ \E address \in Addresses :
                     arena' = ArenaInit(address,
                                        GrownCapacity(capacity, 1, FirstCapacity))
               /\ UNCHANGED live
            \/ /\ arena' = NoArena
               /\ live' = FALSE
       ELSE /\ live' = FALSE
            /\ UNCHANGED arena
    /\ blocks' = {}

Exited == ~live /\ UNCHANGED vars

Next ==
    \/ \E size \in Sizes, align \in Aligns, count \in Counts : Alloc(size, align, count)
    \/ Reset
    \/ Resize
    \/ Exited

Spec == Init /\ [][Next]_vars

-----------------------------------------------------------------------------
\* Every block lies between base and next, and next never passes end: no
\* sequence of requests makes arena_alloc (arena.c:68-86) write past the
\* malloc'd region, whatever padding the earlier requests left behind.
BlocksInside ==
    /\ arena.base <= arena.next /\ arena.next <= arena.end
    /\ \A b \in blocks : arena.base <= b.at /\ b.at + b.len <= arena.next

\* Two blocks handed out since the last reset never share a byte.
BlocksDisjoint ==
    \A b, c \in blocks :
        b # c => \/ b.at + b.len <= c.at
                 \/ c.at + c.len <= b.at

\* A block starts at a multiple of the alignment it was asked with, also when
\* malloc returned an address that is not (arena_alloc_from_unaligned, arena.c:119).
BlocksAligned == \A b \in blocks : b.at % b.align = 0

\* arena_alloc refuses a request only when no aligned place behind next has
\* room for it: padding is never counted twice (arena_alloc_can_fill, arena.c:141).
RefusesOnlyWhenFull ==
    \A size \in Sizes, align \in Aligns, count \in Counts :
        ~ArenaFits(arena, size, align, count) =>
            ~\E at \in arena.next .. arena.end :
                at % align = 0 /\ at + count * size <= arena.end

\* The arena a resize leaves is larger than the one before it, and its
\* capacity stays a valid ptrdiff_t: doubling next to the word size neither
\* wraps nor shrinks (grow_capacity, util.h:18-30).
ResizeGrows ==
    [][(ArenaCapacity(arena') # ArenaCapacity(arena) /\ live') =>
          /\ ArenaCapacity(arena') > ArenaCapacity(arena)
          /\ ArenaCapacity(arena') <= PtrdiffMax]_vars
=============================================================================
