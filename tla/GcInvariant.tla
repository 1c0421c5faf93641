---------------------------- MODULE GcInvariant ----------------------------
(***************************************************************************)
(* The inductive invariant of Gc.tla: what holds between any two steps of  *)
(* an allocation, and is strong enough to be kept by each of them.         *)
(***************************************************************************)
EXTENDS GcProperties

Copying == [old : Places, new : Places, i : Nat \ {0}]
Clearing == [at : Places, position : Pointers]

OldPointers == In(act) \cup {NULL}
NewPointers == In(inactive) \cup {NULL}

\* An object has as many children as its type says, and the two fields of a
\* frame that are read without a check are not NULL.
WellFormed ==
    \A a \in DOMAIN heap :
        /\ Len(heap[a].kids) = Arity[heap[a].id]
        /\ Len(heap[a].kids) = 3 => heap[a].kids[1] # NULL /\ heap[a].kids[2] # NULL

\* No field of an old object leaves the active arena.
OldObjectsWhole ==
    \A a \in In(act) : \A i \in DOMAIN heap[a].kids : heap[a].kids[i] \in OldPointers

CopiesUnforwarded == \A a \in In(inactive) : heap[a].fwd = NULL

VariablesOld ==
    phase \in {"run", "copy", "clear"} => \A s \in Slots : slot[s] \in OldPointers

RunInv ==
    phase = "run" =>
        /\ stack = <<>>
        /\ In(inactive) = {}
        /\ \A a \in In(act) : heap[a].fwd = NULL
        /\ req # NULL => req.id \in Ids

\* Why object a has a forwarding pointer at all: a root from number m on refers
\* to it, or a parent that was evacuated before it still has one.
RootedFrom(m, a) == \E n \in DOMAIN roots : n >= m /\ slot[roots[n]] = a

HasParent(a) ==
    \E p \in In(act) :
        /\ heap[p].fwd # NULL
        /\ heap[p].fwd[2] < heap[a].fwd[2]
        /\ a \in Children(p)

\* A field of a copy is written, or an activation on the stack is to write it.
Written(b, j) ==
    \/ heap[b].kids[j] \in NewPointers
    \/ \E k \in DOMAIN stack : stack[k].new = b /\ stack[k].i <= j

CopyInv ==
    phase = "copy" =>
        /\ stack \in Seq(Copying)
        /\ \A k \in DOMAIN stack :
              stack[k].old \in In(act) /\ stack[k].new = heap[stack[k].old].fwd
        /\ \A b \in In(inactive) : \A j \in DOMAIN heap[b].kids : Written(b, j)
        /\ \A n \in DOMAIN roots : n < index => Settled(slot[roots[n]])
        /\ \A a \in In(act) : heap[a].fwd # NULL => RootedFrom(1, a) \/ HasParent(a)

Cleared(p) == p = NULL \/ heap[p].fwd = NULL

\* What an activation of gc_clear_forwarding_object has behind it.
Passed(kids, position) ==
    position # NULL =>
        /\ position \in {kids[i] : i \in DOMAIN kids}
        /\ Cleared(position)
        /\ Cleared(kids[1])
        /\ Len(kids) = 3 /\ position # kids[1] => Cleared(kids[2])

ClearInv ==
    phase = "clear" =>
        /\ stack \in Seq(Clearing)
        /\ In(inactive) = {}
        /\ \A k \in DOMAIN stack :
              /\ stack[k].at \in In(act)
              /\ Passed(heap[stack[k].at].kids, stack[k].position)
        /\ \A a \in In(act) :
              heap[a].fwd # NULL =>
                  \/ RootedFrom(index, a)
                  \/ HasParent(a)
                  \/ \E k \in DOMAIN stack : a \in Children(stack[k].at)

\* A root points into the copies, or is about to.
AssignInv ==
    phase = "assign" =>
        /\ stack = <<>>
        /\ \A n \in DOMAIN roots :
              LET p == slot[roots[n]] IN
              p \in NewPointers \/ (n >= index /\ p \in In(act) /\ heap[p].fwd # NULL)

Always == TypeOK /\ Layout /\ WellFormed /\ OldObjectsWhole /\ CopiesUnforwarded

IInv ==
    /\ Always /\ VariablesOld
    /\ ForwardsLeadToCopies /\ CopyComplete
    /\ RunInv /\ CopyInv /\ ClearInv /\ AssignInv
=============================================================================
