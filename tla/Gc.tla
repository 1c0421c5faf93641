-------------------------------- MODULE Gc --------------------------------
(***************************************************************************)
(* The copying garbage collector of src/src/gc.c, with the size, copy and  *)
(* get_children callbacks that sexpr.c, eval-context.c and parse-context.c *)
(* register, and the client that allocates, roots, stores and unroots.     *)
(*                                                                         *)
(* An object is named by the space it is in and its offset there, carries  *)
(* an id (its payload, which copying preserves) and a sequence of children *)
(* whose length is what tells the registered types apart:                  *)
(*   0  symbol, number, string       1  parse error node (next)            *)
(*   2  cons cell (car, cdr) and evaluation context (sexpr, frame)         *)
(*   3  evaluation frame (function_id, env.list, next)                     *)
(* The recursion of gc_copy_object and of gc_clear_forwarding_object is    *)
(* the variable stack; the longjmp out of a failed copy empties it.        *)
(***************************************************************************)
EXTENDS Arena, Reachability, Sequences, FiniteSets

CONSTANTS
    Slots,          \* the C variables that hold object pointers
    Ids,            \* payloads; an id is reused once its object is unreachable
    Arity,          \* [Ids -> 0 .. 3], the number of child pointers
    Size,           \* [Ids -> Nat \ {0}], object_size
    Align,          \* the alignment every type is registered with
    Address,        \* the residue of malloc's addresses: multiples of Align
    InitialRegionSize,
    MaxRoots,       \* bound: entries in the root array
    Stress,         \* TRUE for a build with DEBUG_STRESS_GC
    SharedKids,     \* TRUE when a client may give one object the same child twice
    NULL,
    Garbage         \* the contents of a field not yet written

ASSUME GcAssumption ==
    /\ Arity \in [Ids -> 0 .. 3]
    /\ Size \in [Ids -> Nat \ {0}]
    /\ Align \in Nat \ {0}
    /\ Address \in Nat \ {0}
    /\ InitialRegionSize \in Nat \ {0}
    /\ InitialRegionSize <= PtrdiffMax
    /\ MaxRoots \in Nat
    /\ Stress \in BOOLEAN
    /\ SharedKids \in BOOLEAN
    /\ NULL \notin {0, 1} \X Nat
    /\ Garbage \notin {0, 1} \X Nat
    /\ NULL # Garbage
    /\ NULL \notin Ids
    /\ NULL \notin [id : Ids \cup {NULL}, stage : {"stress", "try", "loop", "collect"}]

VARIABLES
    arena,      \* [Spaces -> Arenas]
    act,        \* the space gc->active is; the other one is gc->inactive
    heap,       \* the objects in both spaces
    slot,       \* [Slots -> Pointers]
    roots,      \* gc->roots: a sequence of slots, repetitions allowed
    phase,      \* what gc_collect is doing, "run" when it is not on the C stack
    index,      \* the loop variable of gc_collect and gc_clear_forwarding
    stack,      \* the activations of gc_copy_object or gc_clear_forwarding_object
    req         \* the call the client is waiting for, or NULL

vars == <<arena, act, heap, slot, roots, phase, index, stack, req>>

Spaces == {0, 1}
Places == Spaces \X Nat
Pointers == Places \cup {NULL}
Objects == [id : Ids, kids : Seq(Pointers \cup {Garbage}), fwd : Pointers]
Phases == {"run", "copy", "clear", "assign", "exit"}

inactive == 1 - act

Count(s) == Cardinality({i \in DOMAIN roots : roots[i] = s})
Rooted(s) == \E i \in DOMAIN roots : roots[i] = s

Put(f, x, v) == [y \in DOMAIN f \cup {x} |-> IF y = x THEN v ELSE f[y]]
In(space) == {a \in DOMAIN heap : a[1] = space}
Keep(f, S) == [x \in S |-> f[x]]

Init ==
    /\ arena = [s \in Spaces |-> ArenaInit(Address, InitialRegionSize)]
    /\ act = 0
    /\ heap = [a \in {} |-> NULL]
    /\ slot = [s \in Slots |-> NULL]
    /\ roots = <<>>
    /\ phase = "run"
    /\ index = 1
    /\ stack = <<>>
    /\ req = NULL

-----------------------------------------------------------------------------
(***************************************************************************)
(* The client.  It keeps to the contract of gc.h: a pointer it wants to    *)
(* use after an allocation is in a rooted variable.                        *)
(***************************************************************************)
Idle == phase = "run" /\ req = NULL

Children(a) == {heap[a].kids[i] : i \in DOMAIN heap[a].kids} \ {NULL}

\* The objects reachable from the places in S.
Reach(S) ==
    Closure([a \in DOMAIN heap |-> Children(a) \cap DOMAIN heap], S \cap DOMAIN heap)

Held == {slot[s] : s \in Slots} \ {NULL}
Live == Reach(Held)

\* gc_root.  Growing the root array is not bounded by anything but MaxRoots.
Root(s) ==
    /\ Idle
    /\ Len(roots) < MaxRoots
    /\ roots' = Append(roots, s)
    /\ UNCHANGED <<arena, act, heap, slot, phase, index, stack, req>>

\* gc_unroot: the last entry for s is overwritten by the last entry of all.
Unroot(s) ==
    /\ Idle
    /\ Rooted(s)
    /\ LET i == CHOOSE i \in DOMAIN roots :
                    /\ roots[i] = s
                    /\ \A j \in DOMAIN roots : roots[j] = s => j <= i
       IN  roots' = SubSeq([roots EXCEPT ![i] = roots[Len(roots)]],
                           1, Len(roots) - 1)
    /\ UNCHANGED <<arena, act, heap, slot, phase, index, stack, req>>

\* An assignment between C variables, from a field, or of NULL.
Assign(s, p) ==
    /\ Idle
    /\ slot[s] # p
    /\ slot' = [slot EXCEPT ![s] = p]
    /\ UNCHANGED <<arena, act, heap, roots, phase, index, stack, req>>

Load(s, t) == slot[t] # NULL /\ \E p \in Children(slot[t]) : Assign(s, p)

\* Two children of one object that are the same pointer.
SharesKid(kids) ==
    \E i, j \in DOMAIN kids : i # j /\ kids[i] = kids[j] /\ kids[i] # NULL

\* gc_copy_object is called on the first two children of a frame unchecked.
KidsAllowed(kids) ==
    /\ Len(kids) = 3 => kids[1] # NULL /\ kids[2] # NULL
    /\ SharedKids \/ ~SharesKid(kids)

\* AS_CONS(o)->car = v and the like, which never build a cycle.
Store(o, i, v) ==
    /\ Idle
    /\ slot[o] # NULL
    /\ i \in DOMAIN heap[slot[o]].kids
    /\ heap[slot[o]].kids[i] # slot[v]
    /\ slot[v] # NULL => slot[o] \notin Reach({slot[v]})
    /\ LET kids == [heap[slot[o]].kids EXCEPT ![i] = slot[v]] IN
       /\ KidsAllowed(kids)
       /\ heap' = [heap EXCEPT ![slot[o]].kids = kids]
    /\ UNCHANGED <<arena, act, slot, roots, phase, index, stack, req>>

\* The children of a new object are what some rooted variables contain.
Sources(id) == [1 .. Arity[id] -> Slots \cup {NULL}]

\* Mutant: the new object gets the addresses of the variables.
Addresses(from) == from

Contents(from) ==
    [i \in DOMAIN from |-> IF from[i] = NULL THEN NULL ELSE slot[from[i]]]

MayBuild(from) ==
    /\ \A i \in DOMAIN from :
          from[i] # NULL => Rooted(from[i]) /\ slot[from[i]] # NULL
    /\ KidsAllowed(Contents(from))

\* The client calls gc_alloc for an object of id's type and size.
Request(id) ==
    /\ Idle
    /\ id \notin {heap[a].id : a \in Live}
    /\ \E from \in Sources(id) : MayBuild(from)
    /\ req' = [id |-> id, stage |-> IF Stress THEN "stress" ELSE "try"]
    /\ UNCHANGED <<arena, act, heap, slot, roots, phase, index, stack>>

\* The client calls gc_collect itself, as the tests of gc.c do.
RequestCollect ==
    /\ Idle
    /\ req' = [id |-> NULL, stage |-> "collect"]
    /\ phase' = "copy"
    /\ index' = 1
    /\ UNCHANGED <<arena, act, heap, slot, roots, stack>>

-----------------------------------------------------------------------------
(***************************************************************************)
(* gc_alloc_untyped and gc_alloc, called outside a collection.             *)
(***************************************************************************)
Waiting == phase = "run" /\ req # NULL

Fits(space, id) == ArenaFits(arena[space], Size[id], Align, 1)

Block(space) == <<space, ArenaBlock(arena[space], Align) - arena[space].base>>

Bump(space, id) == [arena EXCEPT ![space] = ArenaBump(@, Size[id], Align, 1)]

\* gc_alloc returns; the caller fills the object in from its rooted variables,
\* as vm_alloc_cons does, and keeps it in variable s.
AllocOk(s, from) ==
    /\ Waiting
    /\ req.stage # "stress"
    /\ Fits(act, req.id)
    /\ MayBuild(from)
    /\ heap' = Put(heap, Block(act),
                   [id |-> req.id, kids |-> Contents(from), fwd |-> NULL])
    /\ slot' = [slot EXCEPT ![s] = Block(act)]
    /\ arena' = Bump(act, req.id)
    /\ req' = NULL
    /\ UNCHANGED <<act, roots, phase, index, stack>>

\* gc_collect is entered: setjmp, then the loop over the roots.
AllocCollect ==
    /\ Waiting
    /\ \/ req.stage = "stress" /\ req' = [req EXCEPT !.stage = "try"]
       \/ /\ req.stage = "try"
          /\ ~Fits(act, req.id)
          /\ req' = [req EXCEPT !.stage = "loop"]
    /\ phase' = "copy"
    /\ index' = 1
    /\ UNCHANGED <<arena, act, heap, slot, roots, stack>>

\* gc_arena_resize(&gc->inactive): the objects in it go with the old memory.
Resized ==
    [arena EXCEPT ![inactive] =
        ArenaInit(Address, GrownCapacity(ArenaCapacity(@), 1, InitialRegionSize))]

\* Mutant: the failure of grow_capacity is ignored.
InactiveAlwaysGrows == TRUE

InactiveGrows == CanGrow(ArenaCapacity(arena[inactive]), 1, InitialRegionSize)

\* gc_arena_resize calls exit when it cannot grow the arena further, or when
\* malloc fails.
ResizeFails ==
    /\ phase' = "exit"
    /\ UNCHANGED <<arena, act, heap, slot, roots, index, stack, req>>

\* The loop of gc_alloc_untyped: a collection did not free enough memory.
AllocGrow ==
    /\ Waiting
    /\ req.stage = "loop"
    /\ ~Fits(act, req.id)
    /\ \/ /\ InactiveGrows
          /\ arena' = Resized
          /\ phase' = "copy"
          /\ index' = 1
          /\ UNCHANGED <<act, heap, slot, roots, stack, req>>
       \/ ResizeFails

-----------------------------------------------------------------------------
(***************************************************************************)
(* gc_collect, copying: gc_copy_object and the copy callbacks.  A record   *)
(* of stack is a callback that has copied the children before i of old     *)
(* into new.                                                               *)
(***************************************************************************)
RootValue == slot[roots[index]]

\* Mutant: an object that already has a copy is copied again.
SettledIfNull(p) == p = NULL

\* A NULL pointer, or one to an object that is copied by now.
Settled(p) == IF p = NULL THEN TRUE ELSE heap[p].fwd # NULL

Copied(p) == IF p = NULL THEN NULL ELSE heap[p].fwd

Evacuate(a) ==
    /\ Fits(inactive, heap[a].id)
    /\ heap' = Put([heap EXCEPT ![a].fwd = Block(inactive)], Block(inactive),
                   [id   |-> heap[a].id,
                    kids |-> [i \in DOMAIN heap[a].kids |-> Garbage],
                    fwd  |-> NULL])
    /\ arena' = Bump(inactive, heap[a].id)
    /\ stack' = Append(stack, [old |-> a, new |-> Block(inactive), i |-> 1])
    /\ UNCHANGED <<act, slot, roots, phase, index, req>>

\* The allocation of a copy fails: longjmp(gc->collect_mark), which grows the
\* inactive arena and starts to clear the forwarding pointers.
Abandon(a) ==
    /\ ~Fits(inactive, heap[a].id)
    /\ \/ /\ InactiveGrows
          /\ arena' = Resized
          /\ heap' = Keep(heap, In(act))
          /\ phase' = "clear"
          /\ index' = 1
          /\ stack' = <<>>
          /\ UNCHANGED <<act, slot, roots, req>>
       \/ ResizeFails

\* gc_copy_object of an object that has no copy yet.
CopyObject(a) == Evacuate(a) \/ Abandon(a)

CopyRoot ==
    /\ phase = "copy" /\ stack = <<>> /\ index <= Len(roots)
    /\ ~Settled(RootValue)
    /\ CopyObject(RootValue)

\* Mutant: the root is updated as soon as its object is copied.
SkipRootUpdating ==
    /\ phase = "copy" /\ stack = <<>> /\ index <= Len(roots)
    /\ Settled(RootValue)
    /\ slot' = [slot EXCEPT ![roots[index]] = Copied(RootValue)]
    /\ index' = index + 1
    /\ UNCHANGED <<arena, act, heap, roots, phase, stack, req>>

SkipRoot ==
    /\ phase = "copy" /\ stack = <<>> /\ index <= Len(roots)
    /\ Settled(RootValue)
    /\ index' = index + 1
    /\ UNCHANGED <<arena, act, heap, slot, roots, phase, stack, req>>

Top == stack[Len(stack)]
Pop == SubSeq(stack, 1, Len(stack) - 1)

\* The next child of the object being copied, where there is one.
CopyingChild ==
    phase = "copy" /\ stack # <<>> /\ Top.i <= Len(heap[Top.old].kids)

Child == heap[Top.old].kids[Top.i]

CopyChild ==
    /\ CopyingChild
    /\ ~Settled(Child)
    /\ CopyObject(Child)

\* Mutant: the copy keeps the pointers of the original.
WriteOldChild ==
    /\ CopyingChild
    /\ Settled(Child)
    /\ heap' = [heap EXCEPT ![Top.new].kids[Top.i] = Child]
    /\ stack' = [stack EXCEPT ![Len(stack)].i = @ + 1]
    /\ UNCHANGED <<arena, act, slot, roots, phase, index, req>>

\* The child's copy is known: the callback stores it in the new object.
WriteChild ==
    /\ CopyingChild
    /\ Settled(Child)
    /\ heap' = [heap EXCEPT ![Top.new].kids[Top.i] = Copied(Child)]
    /\ stack' = [stack EXCEPT ![Len(stack)].i = @ + 1]
    /\ UNCHANGED <<arena, act, slot, roots, phase, index, req>>

\* Mutant: the last child is not copied.
CopyReturnEarly ==
    /\ phase = "copy" /\ stack # <<>>
    /\ Top.i >= Len(heap[Top.old].kids)
    /\ stack' = Pop
    /\ UNCHANGED <<arena, act, heap, slot, roots, phase, index, req>>

CopyReturn ==
    /\ phase = "copy" /\ stack # <<>>
    /\ Top.i > Len(heap[Top.old].kids)
    /\ stack' = Pop
    /\ UNCHANGED <<arena, act, heap, slot, roots, phase, index, req>>

CopyDone ==
    /\ phase = "copy" /\ stack = <<>> /\ index > Len(roots)
    /\ phase' = "assign"
    /\ index' = 1
    /\ UNCHANGED <<arena, act, heap, slot, roots, stack, req>>

-----------------------------------------------------------------------------
(***************************************************************************)
(* gc_collect after a longjmp: gc_clear_forwarding.  A record of stack is  *)
(* an activation of gc_clear_forwarding_object and the child it is at.     *)
(***************************************************************************)

\* Mutant: the environment of a frame is passed over.
NextChildButEnv(kids, position) ==
    CASE Len(kids) = 0 -> NULL
      [] Len(kids) = 1 -> IF position = NULL THEN kids[1] ELSE NULL
      [] Len(kids) = 2 -> IF position = NULL
                          THEN IF kids[1] # NULL THEN kids[1] ELSE kids[2]
                          ELSE IF position = kids[1] THEN kids[2] ELSE NULL
      [] Len(kids) = 3 -> IF position = NULL THEN kids[1]
                          ELSE IF position = kids[1] THEN kids[3] ELSE NULL

\* The get_children callbacks, which find the next child by comparing the last
\* one with the fields.
NextChild(kids, position) ==
    CASE Len(kids) = 0 -> NULL
      [] Len(kids) = 1 -> IF position = NULL THEN kids[1] ELSE NULL
      [] Len(kids) = 2 -> IF position = NULL
                          THEN IF kids[1] # NULL THEN kids[1] ELSE kids[2]
                          ELSE IF position = kids[1] THEN kids[2] ELSE NULL
      [] Len(kids) = 3 -> IF position = NULL /\ kids[1] # NULL THEN kids[1]
                          ELSE IF position = NULL \/ position = kids[1] THEN kids[2]
                          ELSE IF position # kids[3] THEN kids[3] ELSE NULL

ClearRoot ==
    /\ phase = "clear" /\ stack = <<>> /\ index <= Len(roots)
    /\ IF RootValue # NULL /\ heap[RootValue].fwd # NULL
       THEN /\ heap' = [heap EXCEPT ![RootValue].fwd = NULL]
            /\ stack' = <<[at |-> RootValue, position |-> NULL]>>
       ELSE UNCHANGED <<heap, stack>>
    /\ index' = index + 1
    /\ UNCHANGED <<arena, act, slot, roots, phase, req>>

ClearChild ==
    /\ phase = "clear" /\ stack # <<>>
    /\ LET child == NextChild(heap[Top.at].kids, Top.position)
           next  == [stack EXCEPT ![Len(stack)].position = child] IN
       CASE child = NULL ->
              stack' = Pop /\ UNCHANGED heap
         [] child # NULL /\ heap[child].fwd = NULL ->
              stack' = next /\ UNCHANGED heap
         [] child # NULL /\ heap[child].fwd # NULL ->
              /\ heap' = [heap EXCEPT ![child].fwd = NULL]
              /\ stack' = Append(next, [at |-> child, position |-> NULL])
    /\ UNCHANGED <<arena, act, slot, roots, phase, index, req>>

\* goto reset_mark: the copying starts again from the first root.
ClearDone ==
    /\ phase = "clear" /\ stack = <<>> /\ index > Len(roots)
    /\ phase' = "copy"
    /\ index' = 1
    /\ UNCHANGED <<arena, act, heap, slot, roots, stack, req>>

-----------------------------------------------------------------------------
(***************************************************************************)
(* gc_collect, after every reachable object has its copy.                  *)
(***************************************************************************)

\* Mutant: a root that was updated already is taken for one without a copy.
AssignRootAgain ==
    /\ phase = "assign" /\ index <= Len(roots)
    /\ slot' = IF RootValue = NULL
               THEN slot
               ELSE [slot EXCEPT ![roots[index]] = heap[RootValue].fwd]
    /\ index' = index + 1
    /\ UNCHANGED <<arena, act, heap, roots, phase, stack, req>>

\* A root whose object has no forwarding pointer is a variable that was rooted
\* twice and already points at the copy.
AssignRoot ==
    /\ phase = "assign" /\ index <= Len(roots)
    /\ slot' = IF RootValue = NULL \/ heap[RootValue].fwd = NULL
               THEN slot
               ELSE [slot EXCEPT ![roots[index]] = heap[RootValue].fwd]
    /\ index' = index + 1
    /\ UNCHANGED <<arena, act, heap, roots, phase, stack, req>>

\* Mutant: the arena that holds the copies is reset.
FinishResettingCopies ==
    /\ phase = "assign" /\ index > Len(roots)
    /\ arena' = [arena EXCEPT ![inactive] = ArenaReset(@)]
    /\ act' = inactive
    /\ heap' = Keep(heap, In(inactive))
    /\ slot' = [s \in Slots |-> IF Rooted(s) THEN slot[s] ELSE NULL]
    /\ phase' = "run"
    /\ index' = 1
    /\ req' = IF req.stage = "collect" THEN NULL ELSE req
    /\ UNCHANGED <<roots, stack>>

\* The arenas are swapped and the old one is reset.  A variable that is not
\* rooted is left dangling; the contract forbids to use it, so it reads NULL.
FinishCollect ==
    /\ phase = "assign" /\ index > Len(roots)
    /\ arena' = [arena EXCEPT ![act] = ArenaReset(@)]
    /\ act' = inactive
    /\ heap' = Keep(heap, In(inactive))
    /\ slot' = [s \in Slots |-> IF Rooted(s) THEN slot[s] ELSE NULL]
    /\ phase' = "run"
    /\ index' = 1
    /\ req' = IF req.stage = "collect" THEN NULL ELSE req
    /\ UNCHANGED <<roots, stack>>

\* exit(EXIT_FAILURE) in gc_arena_resize.
Exited == phase = "exit" /\ UNCHANGED vars

-----------------------------------------------------------------------------
Client ==
    \/ \E s \in Slots : Root(s) \/ Unroot(s) \/ Assign(s, NULL)
    \/ \E s, t \in Slots : Assign(s, slot[t]) \/ Load(s, t)
    \/ \E o, v \in Slots, i \in 1 .. 3 : Store(o, i, v)
    \/ \E id \in Ids : Request(id)
    \/ RequestCollect

Allocate ==
    \/ Waiting /\ \E s \in Slots, from \in Sources(req.id) : AllocOk(s, from)
    \/ AllocCollect \/ AllocGrow

Collect ==
    \/ CopyRoot \/ SkipRoot \/ CopyChild \/ WriteChild \/ CopyReturn \/ CopyDone
    \/ ClearRoot \/ ClearChild \/ ClearDone
    \/ AssignRoot \/ FinishCollect

Next == Client \/ Allocate \/ Collect \/ Exited

\* The allocator runs in the client's thread: once called, it runs on.
Fairness == WF_vars(Allocate \/ Collect)

Spec == Init /\ [][Next]_vars /\ Fairness
=============================================================================
