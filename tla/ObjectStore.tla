---------------------------- MODULE ObjectStore ----------------------------
(***************************************************************************)
(* What the collector of Gc.tla promises its client: a store of objects    *)
(* with identity in which nothing moves.  There are no addresses, spaces   *)
(* or collections; the only trace a collection may leave is that variables *)
(* nobody pinned lose their contents.                                      *)
(***************************************************************************)
EXTENDS Integers, Sequences, Reachability

CONSTANTS Slots, Ids, Arity, NULL

VARIABLES
    var,    \* [Slots -> Ids \cup {NULL}], the object a variable refers to
    pins,   \* [Slots -> Nat], how often a variable is rooted
    kids,   \* the children of every object in use, Free for the others
    busy    \* TRUE while the client waits for a call to the store

storeVars == <<var, pins, kids, busy>>

\* What stands for the children of an object not in use: more of them than any
\* object has.
Free == <<NULL, NULL, NULL, NULL>>

\* The objects in use: those some variable leads to.
KidsOf(k, id) == IF k[id] = Free THEN {} ELSE {k[id][i] : i \in DOMAIN k[id]} \ {NULL}

InUse(v, k) == Closure([id \in Ids |-> KidsOf(k, id)], {v[s] : s \in Slots} \ {NULL})

\* The children recorded once v are the variables: unused objects are forgotten.
Trim(v, k) ==
    LET used == InUse(v, k) IN [id \in Ids |-> IF id \in used THEN k[id] ELSE Free]

StoreInit ==
    /\ var = [s \in Slots |-> NULL]
    /\ pins = [s \in Slots |-> 0]
    /\ kids = [id \in Ids |-> Free]
    /\ busy = FALSE

Pin(s) ==
    /\ ~busy
    /\ pins' = [pins EXCEPT ![s] = @ + 1]
    /\ UNCHANGED <<var, kids, busy>>

Unpin(s) ==
    /\ ~busy /\ pins[s] > 0
    /\ pins' = [pins EXCEPT ![s] = @ - 1]
    /\ UNCHANGED <<var, kids, busy>>

\* A variable is set to NULL or to an object in use.
Refer(s, id) ==
    /\ ~busy
    /\ var' = [var EXCEPT ![s] = id]
    /\ id # NULL => kids[id] # Free
    /\ kids' = Trim(var', kids)
    /\ UNCHANGED <<pins, busy>>

\* A child of an object in use is replaced by another object in use.
Mutate(id, i, child) ==
    /\ ~busy /\ kids[id] # Free
    /\ child # NULL => kids[child] # Free
    /\ i \in DOMAIN kids[id]
    /\ kids' = Trim(var, [kids EXCEPT ![id][i] = child])
    /\ UNCHANGED <<var, pins, busy>>

\* The client calls the store, and waits.
Call == ~busy /\ busy' = TRUE /\ UNCHANGED <<var, pins, kids>>

\* The call returns a new object, whose children are what pinned variables refer to.
New(s, id, from) ==
    /\ busy /\ busy' = FALSE
    /\ var' = [var EXCEPT ![s] = id]
    /\ \A i \in DOMAIN from : from[i] = NULL \/ pins[from[i]] > 0
    /\ kids[id] = Free
    /\ kids' = Trim(var', [kids EXCEPT ![id] =
                    [i \in DOMAIN from |-> IF from[i] = NULL THEN NULL ELSE var[from[i]]]])
    /\ UNCHANGED pins

\* What a collection may do: variables that are not pinned become unusable.  It
\* may be all that was asked for.
Forget ==
    /\ busy /\ busy' \in BOOLEAN
    /\ var' = [s \in Slots |-> IF pins[s] > 0 THEN var[s] ELSE NULL]
    /\ kids' = Trim(var', kids)
    /\ UNCHANGED pins

\* The first disjunct is a step of the implementation the store does not see.
StoreNext ==
    \/ UNCHANGED storeVars
    \/ Call
    \/ Forget
    \/ \E s \in Slots : Pin(s) \/ Unpin(s)
    \/ \E s \in Slots, id \in Ids \cup {NULL} : Refer(s, id)
    \/ /\ UNCHANGED <<var, pins, busy>>
       /\ \E id \in Ids, child \in Ids \cup {NULL}, i \in 1 .. 3 : Mutate(id, i, child)
    \/ \E s \in Slots, id \in Ids :
          \E from \in [1 .. Arity[id] -> Slots \cup {NULL}] : New(s, id, from)

StoreSpec == StoreInit /\ [][StoreNext]_storeVars
=============================================================================
