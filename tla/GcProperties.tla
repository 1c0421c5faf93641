---------------------------- MODULE GcProperties ----------------------------
(***************************************************************************)
(* What is checked of Gc.tla.                                              *)
(***************************************************************************)
EXTENDS Gc

Requests ==
    [id : Ids, stage : {"stress", "try", "loop"}] \cup [id : {NULL}, stage : {"collect"}]

TypeOK ==
    /\ arena \in [Spaces -> Arenas]
    /\ act \in Spaces
    /\ DOMAIN heap \subseteq Places
    /\ heap \in [DOMAIN heap -> Objects]
    /\ slot \in [Slots -> Pointers]
    /\ roots \in Seq(Slots)
    /\ phase \in Phases
    /\ index \in Nat \ {0}
    /\ stack \in Seq([old : Places, new : Places, i : Nat \ {0}])
            \cup Seq([at : Places, position : Pointers])
    /\ req = NULL \/ req \in Requests
    /\ phase # "run" => req # NULL

\* Every object lies inside the used part of its arena, at the alignment of its
\* type, and no two objects overlap: whatever padding a copying order needs and
\* whichever arena was grown last (gc.c:120-133, 230-272).
Layout ==
    /\ \A a \in DOMAIN heap :
         LET ar == arena[a[1]] IN
         /\ a[2] + Size[heap[a].id] <= ar.next - ar.base
         /\ (ar.base + a[2]) % Align = 0
    /\ \A s \in Spaces :
         /\ arena[s].base <= arena[s].next
         /\ arena[s].next <= arena[s].end
    /\ \A a, b \in DOMAIN heap :
         a[1] = b[1] /\ a # b => \/ a[2] + Size[heap[a].id] <= b[2]
                                 \/ b[2] + Size[heap[b].id] <= a[2]

\* While the client runs, its variables and everything they lead to are whole
\* objects of the active arena: no pointer into the arena that was reset, no
\* field that a copy callback did not write (gc.c:158-228).
NothingDangles ==
    phase = "run" =>
        \A a \in DOMAIN heap \cup Held :
            /\ a \in DOMAIN heap
            /\ a[1] = act
            /\ \A i \in DOMAIN heap[a].kids :
                  heap[a].kids[i] \in In(act) \cup {NULL}

\* A forwarding pointer leads to a copy of that very object in the inactive
\* arena: none survives from an attempt that ran out of memory, whose copies
\* were freed when the arena was grown (gc.c:167-172).
ForwardsLeadToCopies ==
    phase \in {"copy", "assign"} =>
        \A a \in In(act) :
            heap[a].fwd # NULL =>
                /\ heap[a].fwd \in In(inactive)
                /\ heap[heap[a].fwd].id = heap[a].id

\* An object the roots reach by several ways is copied once: sharing survives a
\* collection, also one that was abandoned half way, and the copies never need
\* more objects than there are (gc.c:215-218).
SharingPreserved ==
    phase \in {"copy", "assign"} =>
        \A a, b \in In(inactive) : heap[a].id = heap[b].id => a = b

\* When the roots are about to be updated everything they reach has its whole
\* copy, whose children are the copies of the children (gc.c:174-187).
CopyComplete ==
    phase = "assign" =>
        \A a \in In(inactive) : \A i \in DOMAIN heap[a].kids :
            heap[a].kids[i] \in In(inactive) \cup {NULL}

\* Until every copy has been made a collection only writes forwarding pointers
\* into the objects it reads, and updates no root: "We can't actually update the
\* roots yet, since an allocation could fail" (gc.c:176).
OldObjectsKept ==
    [][ (phase \in {"copy", "clear"}) =>
          ( /\ slot' = slot
            /\ \A a \in In(act) : /\ a \in DOMAIN heap'
                                  /\ heap'[a].id = heap[a].id
                                  /\ heap'[a].kids = heap[a].kids ) ]_vars

\* The abstract store a state of the collector stands for.  During a collection
\* it is read off the variables as they are: old objects before the roots are
\* updated, copies after.
IdAt(p) == IF p = NULL THEN NULL ELSE heap[p].id

Store_var == [s \in Slots |-> IdAt(slot[s])]

Store_pins == [s \in Slots |-> Count(s)]

IdKids(a) == [i \in DOMAIN heap[a].kids |-> IdAt(heap[a].kids[i])]

\* The children of the objects in live, by id.  It is a function of live for TLC to
\* compute that set once.
KidsIn[live \in SUBSET DOMAIN heap] ==
    [id \in Ids |->
        IF \E a \in live : heap[a].id = id
        THEN IdKids(CHOOSE a \in live : heap[a].id = id)
        ELSE <<NULL, NULL, NULL, NULL>>]

Store_kids == KidsIn[Live]

Abstract == INSTANCE ObjectStore
            WITH var <- Store_var, pins <- Store_pins, kids <- Store_kids, busy <- req # NULL

\* The collector implements the store: while a call to it lasts, allocating,
\* collecting, growing and restarting change nothing that the client can tell by
\* following pointers from its rooted variables, however often a variable is
\* rooted (gc.c:194-197), and the call ends with the object asked for.
ImplementsStore == Abstract!StoreSpec

\* An allocation returns, or the process exits: the restarts of a collection
\* and the loop that grows the arenas come to an end (gc.c:166-172, 263-268).
AllocationEnds == (req # NULL) ~> (req = NULL \/ phase = "exit")
=============================================================================
