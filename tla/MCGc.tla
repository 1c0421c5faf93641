-------------------------------- MODULE MCGc --------------------------------
(***************************************************************************)
(* The collector on a 4-bit machine: PTRDIFF_MAX is 7, so that an arena of *)
(* 5 units grows to the clamped 7 and then not at all.  Frames and cons    *)
(* cells take 2 units and leaves 1 at an alignment of 2, which makes the   *)
(* padding depend on the order of the copies.                              *)
(***************************************************************************)
EXTENDS GcProperties, TLC

CONSTANTS s1, s2, f1, c1, n1, x1, x2

MCSlots == {s1, s2}

\* A frame of the evaluator's stack, a cons cell, and two leaves that either may lead to.
MCIds == {f1, c1, x1, x2}
MCArity == [id \in MCIds |-> CASE id = f1 -> 3 [] id = c1 -> 2 [] OTHER -> 0]
MCSize == [id \in MCIds |-> IF id \in {f1, c1} THEN 2 ELSE 1]

\* The variables are alike, and so are the two leaves.
MCSymmetry == Permutations(MCSlots) \cup Permutations({x1, x2})

\* A cell, a parse error node, whose one child is the next node, and a larger leaf:
\* enough for a collection to be abandoned in the middle of the cell.
ChainIds == {c1, n1, x1}
ChainArity == [id \in ChainIds |-> CASE id = c1 -> 2 [] id = n1 -> 1 [] OTHER -> 0]
ChainSize == [id \in ChainIds |-> IF id = x1 THEN 2 ELSE 1]

\* Objects nothing leads to are not part of what TLC compares: no step reads them.
MCView ==
    LET live == Live IN
    <<arena, act, Keep(heap, live \cup {a \in DOMAIN heap : a[1] # act}),
      slot, roots, phase, index, stack, req>>
=============================================================================
