------------------------------ MODULE MCArena ------------------------------
(***************************************************************************)
(* ArenaClient on a 4-bit machine: PTRDIFF_MAX is 7, so the capacities are *)
(* 3, 6, the clamped 7, and then the exit.  malloc may return an address   *)
(* that is aligned to 8 or one that is not aligned at all.                 *)
(***************************************************************************)
EXTENDS ArenaClient

MCAddresses == {5, 8}
MCSizes == {1, 2, 3}
MCAligns == {1, 2, 4}
MCCounts == {1, 2}
=============================================================================
