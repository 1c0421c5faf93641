--------------------------- MODULE StoreInvariant ---------------------------
(***************************************************************************)
(* What the collector keeps of the objects its client can still use, on    *)
(* top of the invariant of GcInvariant.tla: who is whose copy, and what    *)
(* the copies contain.  It is what the collector needs to implement the    *)
(* store of ObjectStore.tla.                                               *)
(***************************************************************************)
EXTENDS GcInvariant

InCollection == phase \in {"copy", "assign"}

\* The old objects with a forwarding pointer, and those a payload belongs to.
Forwarded == {a \in In(act) : heap[a].fwd # NULL}
Originals == (Live \cap In(act)) \cup Forwarded

SlotsKnown == Held \subseteq DOMAIN heap

\* Objects nothing leads to may have the payload of one in use, but two in use,
\* or about to be copied, never have.
IdsDistinct ==
    \A a, b \in Originals : heap[a].id = heap[b].id => a = b

\* An id that was asked for stays free until its object is built, through all
\* the collections the allocation causes.
RequestFresh ==
    req # NULL => \A a \in Live : heap[a].id # req.id

\* Only what the variables lead to is copied.
EvacuatedAreLive == phase = "copy" => Forwarded \subseteq Live

\* The copies and the objects that were copied match one to one.
CopiesMatch ==
    InCollection =>
        /\ \A b \in In(inactive) : \E a \in Forwarded : heap[a].fwd = b
        /\ \A a, b \in Forwarded : heap[a].fwd = heap[b].fwd => a = b

\* A field of a copy is not written yet, or it is the copy of that field.
FieldCopied(a, j) ==
    LET old == heap[a].kids[j]
        new == heap[heap[a].fwd].kids[j] IN
    new = Garbage \/ (Settled(old) /\ new = Copied(old))

FieldsCopied ==
    InCollection =>
        \A a \in Forwarded : \A j \in DOMAIN heap[a].kids : FieldCopied(a, j)

StoreInv ==
    /\ SlotsKnown /\ IdsDistinct /\ RequestFresh
    /\ EvacuatedAreLive /\ CopiesMatch /\ FieldsCopied
=============================================================================
