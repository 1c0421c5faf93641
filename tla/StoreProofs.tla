---------------------------- MODULE StoreProofs ----------------------------
(***************************************************************************)
(* The collector implements the store of ObjectStore.tla, for every set of *)
(* objects, sizes, alignments and arenas.                                  *)
(*                                                                         *)
(* The store's children are read off the objects in use, so that what a    *)
(* step does to the store follows from what it does to them: StoreRead     *)
(* computes the abstract state from any function that gives each object in *)
(* use its children, and a step of the collector is mapped by naming that  *)
(* function.                                                               *)
(***************************************************************************)
EXTENDS StoreInvariant, GcProofs, FiniteSetTheorems

IncludesStore == IInv /\ StoreInv

(***************************************************************************)
(* What the variables lead to.                                             *)
(***************************************************************************)
LiveClosed ==
    /\ Live \subseteq DOMAIN heap
    /\ Held \subseteq DOMAIN heap => Held \subseteq Live
    /\ \A a \in Live : Children(a) \cap DOMAIN heap \subseteq Live

LiveIsLeast ==
    \A T : /\ Held \cap DOMAIN heap \subseteq T
           /\ \A a \in T \cap DOMAIN heap : Children(a) \cap DOMAIN heap \subseteq T
           => Live \subseteq T

LEMMA LiveFacts == LiveClosed
  <1> DEFINE next == [a \in DOMAIN heap |-> Children(a) \cap DOMAIN heap]
             S == Held \cap DOMAIN heap
  <1>1. /\ S \subseteq DOMAIN next
        /\ \A m \in DOMAIN next : next[m] \subseteq DOMAIN next
        /\ DOMAIN next = DOMAIN heap
        /\ \A a \in DOMAIN heap : next[a] = Children(a) \cap DOMAIN heap
    OBVIOUS
  <1>2. Live = Closure(next, S)
    BY DEF Live, Reach
  <1> HIDE DEF next
  <1>3. /\ S \subseteq Live /\ Live \subseteq DOMAIN next
        /\ \A m \in Live : next[m] \subseteq Live
    BY <1>1, <1>2, ClosureFacts
  <1> QED
    BY <1>1, <1>3 DEF LiveClosed

LEMMA LiveLeast == LiveIsLeast
  <1> USE DEF LiveIsLeast
  <1> TAKE T
  <1> HAVE /\ Held \cap DOMAIN heap \subseteq T
           /\ \A a \in T \cap DOMAIN heap : Children(a) \cap DOMAIN heap \subseteq T
  <1> DEFINE next == [a \in DOMAIN heap |-> Children(a) \cap DOMAIN heap]
             S == Held \cap DOMAIN heap
  <1>1. /\ S \subseteq DOMAIN next
        /\ \A m \in DOMAIN next : next[m] \subseteq DOMAIN next
        /\ DOMAIN next = DOMAIN heap
        /\ \A a \in DOMAIN heap : next[a] = Children(a) \cap DOMAIN heap
    OBVIOUS
  <1>2. Live = Closure(next, S)
    BY DEF Live, Reach
  <1> HIDE DEF next
  <1>3. \A m \in T \cap DOMAIN next : next[m] \subseteq T
    BY <1>1
  <1> QED
    BY <1>1, <1>2, <1>3, ClosureLeast

\* The same after a step.
LEMMA LiveAfter == LiveClosed' /\ LiveIsLeast'
  BY LiveFacts, LiveLeast, PTL

-----------------------------------------------------------------------------
(***************************************************************************)
(* The abstract state is read off the objects in use.                      *)
(***************************************************************************)
Readable ==
    /\ SlotsKnown
    /\ \A a \in DOMAIN heap : a # NULL /\ heap[a].id \in Ids
    /\ \A a \in Live :
          /\ heap[a].kids \in Seq(DOMAIN heap \cup {NULL})
          /\ Len(heap[a].kids) <= 3

\* k gives every object in use its children.
Describes(k) ==
    /\ k \in [Ids -> Seq(Ids \cup {NULL})]
    /\ \A a \in Live : k[heap[a].id] = IdKids(a)

\* No object has as many children as Free.
LEMMA FreeFacts ==
    Abstract!Free \in Seq(Ids \cup {NULL}) /\ Len(Abstract!Free) = 4
  BY DEF Abstract!Free

LEMMA IdKidsFacts ==
    ASSUME Readable, NEW a \in Live
    PROVE  /\ IdKids(a) \in Seq(Ids \cup {NULL})
           /\ IdKids(a) # Abstract!Free
           /\ Len(IdKids(a)) = Len(heap[a].kids)
           /\ DOMAIN IdKids(a) = DOMAIN heap[a].kids
           /\ \A i \in DOMAIN heap[a].kids :
                 /\ heap[a].kids[i] \in DOMAIN heap \cup {NULL}
                 /\ IdKids(a)[i] = IdAt(heap[a].kids[i])
                 /\ heap[a].kids[i] # NULL =>
                       heap[a].kids[i] \in Live /\ IdKids(a)[i] # NULL
  <1> DEFINE kids == heap[a].kids
             ids == [i \in DOMAIN kids |-> IdAt(kids[i])]
  <1>1. /\ kids \in Seq(DOMAIN heap \cup {NULL}) /\ Len(kids) <= 3
        /\ \A b \in DOMAIN heap : b # NULL /\ heap[b].id \in Ids
    BY DEF Readable
  <1>2. \A i \in DOMAIN kids : kids[i] \in DOMAIN heap \cup {NULL}
    BY <1>1
  <1>3. \A i \in DOMAIN kids : IdAt(kids[i]) \in Ids \cup {NULL}
    BY <1>1, <1>2 DEF IdAt
  <1>4. Len(kids) \in Nat /\ DOMAIN kids = 1 .. Len(kids)
    BY <1>1
  <1>5. \A i \in DOMAIN kids : kids[i] # NULL => kids[i] \in Children(a) \cap DOMAIN heap
    BY <1>2 DEF Children
  <1>6. \A i \in DOMAIN kids : kids[i] # NULL => kids[i] \in Live /\ IdAt(kids[i]) # NULL
    BY <1>1, <1>2, <1>5, LiveFacts, GcAssumption DEF LiveClosed, IdAt
  <1>7. IdKids(a) = ids
    BY DEF IdKids
  <1> HIDE DEF kids
  <1>8. ids \in [1 .. Len(kids) -> Ids \cup {NULL}]
    BY <1>3, <1>4
  <1> HIDE DEF ids
  <1>9. ids \in Seq(Ids \cup {NULL}) /\ Len(ids) = Len(kids) /\ DOMAIN ids = DOMAIN kids
    BY <1>4, <1>8, FunctionIsSeq
  <1>10. ids # Abstract!Free
    <2>1. Len(kids) # 4
      <3>1. Len(kids) \in Nat /\ Len(kids) <= 3
        BY <1>1, <1>4, Zenon
      <3>2. \A n \in Nat : n <= 3 => n # 4
        OBVIOUS
      <3> QED
        BY <3>1, <3>2, Zenon
    <2>2. Len(ids) = Len(kids)
      BY <1>9
    <2> QED
      BY <2>1, <2>2, FreeFacts, Zenon
  <1> QED
    BY <1>2, <1>6, <1>7, <1>9, <1>10 DEF kids, ids

\* The children in the store are those of any function that describes the objects
\* in use, trimmed to them.
LEMMA StoreReadIs ==
    ASSUME Readable, NEW k, Describes(k)
    PROVE  /\ Abstract!InUse(Store_var, k) = {heap[a].id : a \in Live}
           /\ Store_kids = Abstract!Trim(Store_var, k)
  <1> DEFINE ids == {heap[a].id : a \in Live}
             next == [id \in Ids |-> Abstract!KidsOf(k, id)]
             S == {Store_var[s] : s \in Slots} \ {NULL}
             C == Closure(next, S)
  <1>1. /\ k \in [Ids -> Seq(Ids \cup {NULL})]
        /\ \A a \in Live : k[heap[a].id] = IdKids(a)
    BY DEF Describes
  <1>2. Live \subseteq DOMAIN heap /\ Held \subseteq Live
    BY LiveFacts DEF Readable, SlotsKnown, LiveClosed
  <1>3. \A a \in Live : heap[a].id \in Ids
    BY <1>2 DEF Readable
  <1>4. DOMAIN next = Ids /\ \A id \in Ids : next[id] \subseteq Ids
    <2>1. \A id \in Ids : \A i \in DOMAIN k[id] : k[id][i] \in Ids \cup {NULL}
      BY <1>1
    <2> QED
      BY <2>1 DEF Abstract!KidsOf
  <1>5. \A a \in Live : next[heap[a].id] =
            {IdKids(a)[i] : i \in DOMAIN IdKids(a)} \ {NULL}
    BY <1>1, <1>3, IdKidsFacts DEF Abstract!KidsOf
  <1>10. Abstract!InUse(Store_var, k) = C
    BY DEF Abstract!InUse, Abstract!Closure, Closure
  <1> HIDE DEF next
  <1>6. \A s \in Slots : slot[s] # NULL =>
            slot[s] \in Live /\ Store_var[s] = heap[slot[s]].id /\ Store_var[s] # NULL
    BY <1>2, <1>3, GcAssumption DEF Held, Store_var, IdAt
  <1>7. \A s \in Slots : slot[s] = NULL => Store_var[s] = NULL
    BY DEF Store_var, IdAt
  <1>8. S \subseteq ids /\ ids \subseteq Ids
    BY <1>3, <1>6, <1>7
  <1>9. \A id \in ids : next[id] \subseteq ids
    <2> SUFFICES ASSUME NEW a \in Live, NEW m \in next[heap[a].id] PROVE m \in ids
      OBVIOUS
    <2>1. PICK i \in DOMAIN IdKids(a) : m = IdKids(a)[i] /\ m # NULL
      BY <1>5
    <2>2. /\ i \in DOMAIN heap[a].kids
          /\ m = IdAt(heap[a].kids[i])
          /\ heap[a].kids[i] # NULL => heap[a].kids[i] \in Live
      BY <2>1, IdKidsFacts
    <2> QED
      BY <2>1, <2>2 DEF IdAt
  <1> HIDE DEF S
  <1>11. C \subseteq ids
    BY <1>4, <1>8, <1>9, ClosureLeast
  <1>12. S \subseteq C /\ \A m \in C : next[m] \subseteq C
    BY <1>4, <1>8, ClosureFacts
  <1> HIDE DEF C
  <1>13. ids \subseteq C
    <2> DEFINE T == {a \in Live : heap[a].id \in C}
    <2>1. Held \cap DOMAIN heap \subseteq T
      <3> SUFFICES ASSUME NEW s \in Slots, slot[s] # NULL PROVE slot[s] \in T
        BY DEF Held
      <3> QED
        BY <1>6, <1>12 DEF S
    <2>2. ASSUME NEW a \in T, NEW c \in Children(a) \cap DOMAIN heap
          PROVE  c \in T
      <3>1. PICK i \in DOMAIN heap[a].kids : heap[a].kids[i] = c /\ c # NULL
        BY <2>2 DEF Children
      <3>2. c \in Live /\ IdKids(a)[i] = IdAt(c) /\ IdKids(a)[i] # NULL
            /\ i \in DOMAIN IdKids(a)
        BY <3>1, IdKidsFacts
      <3>3. IdAt(c) = heap[c].id
        BY <3>1 DEF IdAt
      <3>4. heap[c].id \in next[heap[a].id]
        BY <1>5, <3>2, <3>3
      <3> QED
        BY <1>12, <3>2, <3>4
    <2> HIDE DEF T
    <2>3. Live \subseteq T
      BY <2>1, <2>2, LiveLeast DEF LiveIsLeast
    <2> QED
      BY <2>3 DEF T
  <1>14. Abstract!InUse(Store_var, k) = ids
    BY <1>10, <1>11, <1>13
  <1>15. Store_kids = [id \in Ids |-> IF id \in ids THEN k[id] ELSE Abstract!Free]
    <2>1. Store_kids =
            [id \in Ids |->
                IF \E a \in Live : heap[a].id = id
                THEN IdKids(CHOOSE a \in Live : heap[a].id = id)
                ELSE Abstract!Free]
      BY <1>2 DEF Store_kids, KidsIn, Abstract!Free
    <2>2. \A id \in ids : k[id] = IdKids(CHOOSE a \in Live : heap[a].id = id)
      <3> TAKE id \in ids
      <3> DEFINE a == CHOOSE x \in Live : heap[x].id = id
      <3>1. a \in Live /\ heap[a].id = id
        OBVIOUS
      <3> HIDE DEF a
      <3>2. k[id] = IdKids(a)
        BY <1>1, <3>1
      <3> QED
        BY <3>2 DEF a
    <2>3. \A id : id \in ids <=> \E a \in Live : heap[a].id = id
      OBVIOUS
    <2> HIDE DEF ids
    <2> QED
      BY <2>1, <2>2, <2>3, Zenon
  <1> QED
    BY <1>14, <1>15 DEF Abstract!Trim

\* The same before and after a step.
StoreReading ==
    \A k : Readable /\ Describes(k) => Store_kids = Abstract!Trim(Store_var, k)

LEMMA StoreRead == StoreReading
  BY StoreReadIs DEF StoreReading

LEMMA StoreReadAfter ==
    ASSUME Readable', NEW k, k \in [Ids -> Seq(Ids \cup {NULL})],
           \A a \in Live' : k[heap'[a].id] = IdKids(a)'
    PROVE  Store_kids' = Abstract!Trim(Store_var', k)
  <1>1. StoreReading'
    BY StoreRead, PTL
  <1> QED
    BY <1>1 DEF StoreReading, Describes

-----------------------------------------------------------------------------
(***************************************************************************)
(* The invariant makes the objects in use readable and unambiguous.        *)
(***************************************************************************)
LEMMA LiveOld ==
    ASSUME IncludesStore, phase \in {"run", "copy", "clear"}
    PROVE  Live \subseteq In(act)
  <1>1. Held \cap DOMAIN heap \subseteq In(act)
    BY DEF IncludesStore, IInv, VariablesOld, OldPointers, Held
  <1>2. \A a \in In(act) : Children(a) \subseteq In(act)
    BY DEF IncludesStore, IInv, Always, OldObjectsWhole, OldPointers, Children
  <1> QED
    BY <1>1, <1>2, LiveLeast DEF LiveIsLeast

LEMMA LiveWhole ==
    ASSUME IncludesStore, phase # "exit", NEW a \in Live, NEW i \in DOMAIN heap[a].kids
    PROVE  heap[a].kids[i] \in DOMAIN heap \cup {NULL}
  <1>1. a \in In(act) \/ a \in In(inactive)
    BY LiveFacts, SpaceFacts DEF IncludesStore, IInv, Always, LiveClosed
  <1>2. CASE a \in In(act)
    BY <1>2 DEF IncludesStore, IInv, Always, OldObjectsWhole, OldPointers, In
  <1>3. CASE a \in In(inactive)
    <2>1. phase = "assign"
      BY <1>3, LiveOld, SpaceFacts DEF IncludesStore, IInv, Always, TypeOK, Phases
    <2> QED
      BY <1>3, <2>1 DEF IncludesStore, IInv, CopyComplete, In
  <1> QED
    BY <1>1, <1>2, <1>3

LEMMA InvReadable ==
    ASSUME IncludesStore, phase # "exit"
    PROVE  Readable
  <1>1. SlotsKnown /\ TypeOK /\ WellFormed
    BY DEF IncludesStore, StoreInv, IInv, Always
  <1>2. \A a \in DOMAIN heap : a # NULL /\ heap[a].id \in Ids
    BY <1>1, ObjectTypes
  <1>3. ASSUME NEW a \in Live
        PROVE  heap[a].kids \in Seq(DOMAIN heap \cup {NULL}) /\ Len(heap[a].kids) <= 3
    <2> DEFINE kids == heap[a].kids
               P == DOMAIN heap \cup {NULL}
    <2>1. a \in DOMAIN heap
      BY LiveFacts DEF LiveClosed
    <2>2. /\ kids \in Seq(Pointers \cup {Garbage}) /\ DOMAIN kids = 1 .. Len(kids)
          /\ Len(kids) \in Nat
      BY <1>1, <2>1, ObjectTypes
    <2>3. \A i \in DOMAIN kids : kids[i] \in P
      BY LiveWhole
    <2>4. Len(kids) <= 3
      <3>1. Len(kids) = Arity[heap[a].id] /\ heap[a].id \in Ids
        BY <1>1, <1>2, <2>1 DEF WellFormed
      <3>2. Arity[heap[a].id] \in 0 .. 3
        BY <3>1, GcAssumption
      <3> QED
        BY <3>1, <3>2
    <2> HIDE DEF kids, P
    <2>5. kids \in [1 .. Len(kids) -> P]
      BY <2>2, <2>3
    <2>6. kids \in Seq(P)
      BY <2>2, <2>5, FunctionIsSeq
    <2> QED
      BY <2>4, <2>6 DEF kids, P
  <1> QED
    BY <1>1, <1>2, <1>3 DEF Readable

\* A copy has the payload of its original, and copies of its children.
LEMMA CopyFacts2 ==
    ASSUME IncludesStore, phase = "assign", NEW o \in Forwarded
    PROVE  /\ heap[o].fwd \in In(inactive) /\ heap[heap[o].fwd].id = heap[o].id
           /\ Len(heap[heap[o].fwd].kids) = Len(heap[o].kids)
           /\ \A i \in DOMAIN heap[o].kids :
                 /\ Settled(heap[o].kids[i])
                 /\ heap[heap[o].fwd].kids[i] = Copied(heap[o].kids[i])
                 /\ IdAt(heap[heap[o].fwd].kids[i]) = IdAt(heap[o].kids[i])
           /\ IdKids(heap[o].fwd) = IdKids(o)
  <1> DEFINE b == heap[o].fwd
  <1>1. /\ TypeOK /\ WellFormed /\ OldObjectsWhole /\ FieldsCopied
        /\ ForwardsLeadToCopies /\ CopyComplete
    BY DEF IncludesStore, StoreInv, IInv, Always
  <1>2. o \in In(act) /\ heap[o].fwd # NULL /\ o \in DOMAIN heap
    BY DEF Forwarded, In
  <1>3. b \in In(inactive) /\ b \in DOMAIN heap /\ heap[b].id = heap[o].id /\ b # NULL
    BY <1>1, <1>2 DEF ForwardsLeadToCopies, In
  <1> HIDE DEF b
  <1>4. /\ Len(heap[b].kids) = Len(heap[o].kids)
        /\ DOMAIN heap[b].kids = DOMAIN heap[o].kids
    BY <1>1, <1>2, <1>3, ObjectTypes DEF WellFormed
  <1>5. ASSUME NEW i \in DOMAIN heap[o].kids
        PROVE  /\ Settled(heap[o].kids[i])
               /\ heap[b].kids[i] = Copied(heap[o].kids[i])
               /\ IdAt(heap[b].kids[i]) = IdAt(heap[o].kids[i])
    <2>1. heap[b].kids[i] \in In(inactive) \cup {NULL}
      BY <1>1, <1>3, <1>4 DEF CopyComplete
    <2>2. heap[b].kids[i] # Garbage
      BY <1>1, <2>1, ObjectTypes, GcAssumption DEF In
    <2>3. Settled(heap[o].kids[i]) /\ heap[b].kids[i] = Copied(heap[o].kids[i])
      BY <1>1, <2>2 DEF FieldsCopied, FieldCopied, InCollection, b
    <2>4. heap[o].kids[i] \in In(act) \cup {NULL}
      BY <1>1, <1>2 DEF OldObjectsWhole, OldPointers
    <2>5. CASE heap[o].kids[i] = NULL
      BY <2>3, <2>5 DEF Copied, IdAt
    <2>6. CASE heap[o].kids[i] # NULL
      <3> DEFINE c == heap[o].kids[i]
      <3>1. c \in In(act) /\ heap[c].fwd # NULL /\ heap[b].kids[i] = heap[c].fwd
        BY <2>3, <2>4, <2>6 DEF Settled, Copied
      <3>2. heap[heap[c].fwd].id = heap[c].id
        BY <1>1, <3>1 DEF ForwardsLeadToCopies
      <3> HIDE DEF c
      <3>3. IdAt(heap[b].kids[i]) = heap[c].id
        BY <3>1, <3>2 DEF IdAt
      <3> QED
        BY <2>3, <2>6, <3>3 DEF IdAt, c
    <2> QED
      BY <2>3, <2>5, <2>6
  <1>6. IdKids(b) = IdKids(o)
    BY <1>4, <1>5 DEF IdKids
  <1> QED
    BY <1>3, <1>4, <1>5, <1>6 DEF b

\* An object in use has an original, which looks the same to the client.
LEMMA OriginalOf ==
    ASSUME IncludesStore, phase # "exit", NEW a \in Live
    PROVE  \E o \in Originals : heap[o].id = heap[a].id /\ IdKids(o) = IdKids(a)
  <1>1. a \in In(act) \/ a \in In(inactive)
    BY LiveFacts, SpaceFacts DEF IncludesStore, IInv, Always, LiveClosed
  <1>2. CASE a \in In(act)
    BY <1>2 DEF Originals
  <1>3. CASE a \in In(inactive)
    <2>1. phase = "assign"
      BY <1>3, LiveOld, SpaceFacts DEF IncludesStore, IInv, Always, TypeOK, Phases
    <2>2. PICK o \in Forwarded : heap[o].fwd = a
      BY <1>3, <2>1 DEF IncludesStore, StoreInv, CopiesMatch, InCollection
    <2> QED
      BY <2>1, <2>2, CopyFacts2 DEF Originals
  <1> QED
    BY <1>1, <1>2, <1>3

LEMMA InvDescribes ==
    ASSUME IncludesStore, phase # "exit"
    PROVE  /\ Describes(Store_kids)
           /\ Store_kids = Abstract!Trim(Store_var, Store_kids)
           /\ \A id \in Ids : (\A a \in Live : heap[a].id # id) =>
                                  Store_kids[id] = Abstract!Free
  <1>1. Readable
    BY InvReadable
  <1>2. Live \subseteq DOMAIN heap
    BY LiveFacts DEF LiveClosed
  <1>3. Store_kids =
          [id \in Ids |->
              IF \E a \in Live : heap[a].id = id
              THEN IdKids(CHOOSE a \in Live : heap[a].id = id)
              ELSE Abstract!Free]
    BY <1>2 DEF Store_kids, KidsIn, Abstract!Free
  <1>4. ASSUME NEW a \in Live, NEW b \in Live, heap[a].id = heap[b].id
        PROVE  IdKids(a) = IdKids(b)
    <2>1. PICK o \in Originals : heap[o].id = heap[a].id /\ IdKids(o) = IdKids(a)
      BY OriginalOf
    <2>2. PICK p \in Originals : heap[p].id = heap[b].id /\ IdKids(p) = IdKids(b)
      BY OriginalOf
    <2>3. o = p
      BY <1>4, <2>1, <2>2 DEF IncludesStore, StoreInv, IdsDistinct
    <2> QED
      BY <2>1, <2>2, <2>3
  <1>5. ASSUME NEW id \in Ids, NEW a \in Live, heap[a].id = id
        PROVE  Store_kids[id] = IdKids(a)
    <2> DEFINE x == CHOOSE y \in Live : heap[y].id = id
    <2>1. x \in Live /\ heap[x].id = id
      BY <1>5
    <2>2. Store_kids[id] = IdKids(x)
      BY <1>3, <1>5
    <2> HIDE DEF x
    <2> QED
      BY <1>4, <1>5, <2>1, <2>2
  <1>6. ASSUME NEW id \in Ids, \A a \in Live : heap[a].id # id
        PROVE  Store_kids[id] = Abstract!Free
    BY <1>3, <1>6
  <1>7. \A id \in Ids : Store_kids[id] \in Seq(Ids \cup {NULL})
    <2> TAKE id \in Ids
    <2>1. CASE \E a \in Live : heap[a].id = id
      BY <1>1, <1>5, <2>1, IdKidsFacts
    <2>2. CASE ~ \E a \in Live : heap[a].id = id
      BY <1>6, <2>2, FreeFacts
    <2> QED
      BY <2>1, <2>2
  <1>8. Store_kids \in [Ids -> Seq(Ids \cup {NULL})]
    BY <1>3, <1>7
  <1>9. \A a \in Live : Store_kids[heap[a].id] = IdKids(a)
    BY <1>1, <1>2, <1>5 DEF Readable
  <1>10. Describes(Store_kids)
    BY <1>8, <1>9 DEF Describes
  <1> QED
    BY <1>1, <1>6, <1>10, StoreReadIs

-----------------------------------------------------------------------------
(***************************************************************************)
(* A step that keeps the objects in use, and the variables, keeps what is  *)
(* in use.                                                                 *)
(***************************************************************************)
LEMMA LiveKept ==
    ASSUME IncludesStore, phase # "exit", slot' = slot, \A a \in Live : Kept(a)
    PROVE  /\ Live' = Live /\ SlotsKnown'
           /\ req' = NULL \/ (req # NULL /\ req'.id = req.id) => RequestFresh'
  <1>1. Live \subseteq DOMAIN heap /\ Held \subseteq Live
    BY LiveFacts DEF LiveClosed, IncludesStore, StoreInv, SlotsKnown
  <1>2. \A a \in Live : Children(a) \subseteq Live
    <2> SUFFICES ASSUME NEW a \in Live, NEW c \in Children(a) PROVE c \in Live
      OBVIOUS
    <2>1. c \in DOMAIN heap
      BY LiveWhole DEF Children
    <2> QED
      BY <2>1, LiveFacts DEF LiveClosed
  <1>3. Held' = Held /\ Live \subseteq DOMAIN heap'
    BY DEF Held, Kept
  <1>4. \A a \in Live : Children(a)' = Children(a)
    BY DEF Kept, Children
  <1>5. Live' \subseteq Live
    BY <1>1, <1>2, <1>3, <1>4, LiveAfter DEF LiveIsLeast
  <1>6. Held' \subseteq Live'
    BY <1>1, <1>3, LiveAfter DEF LiveClosed
  <1>7. Live \subseteq Live'
    <2>1. \A a \in Live' \cap DOMAIN heap : Children(a) \cap DOMAIN heap \subseteq Live'
      BY <1>2, <1>3, <1>4, <1>5, LiveAfter DEF LiveClosed
    <2> QED
      BY <1>3, <1>6, <2>1, LiveLeast DEF LiveIsLeast
  <1>8. SlotsKnown'
    BY <1>1, <1>3 DEF SlotsKnown
  <1>9. req' = NULL \/ (req # NULL /\ req'.id = req.id) => RequestFresh'
    BY <1>5, <1>7 DEF RequestFresh, IncludesStore, StoreInv, Kept
  <1> QED
    BY <1>5, <1>7, <1>8, <1>9

\* A step that changes neither objects nor variables.
LEMMA SameObjects ==
    ASSUME IncludesStore, phase # "exit", heap' = heap, slot' = slot, act' = act,
           req' = NULL \/ (req # NULL /\ req'.id = req.id) \/ RequestFresh',
           \/ phase' = phase
           \/ phase = "copy" /\ phase' = "assign"
           \/ Forwarded = {} /\ In(inactive) = {}
           \/ phase' = "exit"
    PROVE  Live' = Live /\ StoreInv'
  <1>1. \A a \in Live : Kept(a)
    BY LiveFacts DEF LiveClosed, Kept
  <1>2. Live' = Live /\ SlotsKnown' /\ RequestFresh'
    BY <1>1, LiveKept
  <1>3. /\ In(act)' = In(act) /\ In(inactive)' = In(inactive)
        /\ Forwarded' = Forwarded
    BY DEF In, inactive, Forwarded
  <1>4. Originals' = Originals
    BY <1>2, <1>3 DEF Originals
  <1>5. IdsDistinct'
    BY <1>4 DEF IdsDistinct, IncludesStore, StoreInv
  <1>6. EvacuatedAreLive'
    BY <1>2, <1>3 DEF EvacuatedAreLive, IncludesStore, StoreInv
  <1>7. CopiesMatch'
    BY <1>3 DEF CopiesMatch, InCollection, IncludesStore, StoreInv
  <1>8. FieldsCopied'
    BY <1>3 DEF FieldsCopied, FieldCopied, Settled, Copied, InCollection, IncludesStore,
                StoreInv
  <1> QED
    BY <1>2, <1>5, <1>6, <1>7, <1>8 DEF StoreInv

\* While objects are copied or cleared the old ones keep their payloads and fields.
LEMMA OldKept ==
    ASSUME IncludesStore, [Next]_vars, phase \in {"copy", "clear"}
    PROVE  /\ slot' = slot
           /\ \A a \in In(act) : Kept(a)
           /\ Live \subseteq In(act) /\ Live' = Live /\ SlotsKnown'
  <1>1. slot' = slot /\ \A a \in In(act) : Kept(a)
    BY StepKeepsOld DEF IncludesStore, Kept
  <1>2. Live \subseteq In(act)
    BY LiveOld
  <1> QED
    BY <1>1, <1>2, LiveKept

LEMMA OldKeptDistinct ==
    ASSUME IncludesStore, [Next]_vars, phase \in {"copy", "clear"},
           act' = act, req' = req,
           Forwarded' \subseteq Forwarded \cup Live
    PROVE  IdsDistinct' /\ RequestFresh'
  <1>1. /\ \A a \in In(act) : Kept(a)
        /\ Live \subseteq In(act) /\ Live' = Live
    BY OldKept
  <1>2. Originals \subseteq In(act) /\ Originals' \subseteq Originals
    BY <1>1 DEF Originals, Forwarded
  <1>3. IdsDistinct'
    BY <1>1, <1>2 DEF IdsDistinct, IncludesStore, StoreInv, Kept
  <1>4. RequestFresh'
    BY <1>1 DEF RequestFresh, IncludesStore, StoreInv, Kept
  <1> QED
    BY <1>3, <1>4

-----------------------------------------------------------------------------
(***************************************************************************)
(* Every step keeps this invariant too.  First the copying.                *)
(***************************************************************************)
LEMMA EvacuateKeepsStore ==
    ASSUME IncludesStore, [Next]_vars, phase = "copy", NEW a \in Live,
           heap[a].fwd = NULL, Evacuate(a)
    PROVE  StoreInv'
  <1> DEFINE b == Block(inactive)
             new == NewCopy(a)
  <1>1. UNCHANGED <<act, slot, roots, phase, index, req>>
    BY DEF Evacuate
  <1>2. /\ \A x \in In(act) : Kept(x)
        /\ Live \subseteq In(act) /\ Live' = Live /\ SlotsKnown'
    BY OldKept
  <1>3. a \in In(act) /\ IInv
    BY <1>2 DEF IncludesStore
  <1>4. /\ b \notin DOMAIN heap /\ b # NULL /\ DOMAIN heap' = DOMAIN heap \cup {b}
        /\ \A i \in DOMAIN heap[a].kids : new.kids[i] = Garbage
        /\ heap'[b] = new /\ heap'[a].fwd = b
        /\ \A x \in DOMAIN heap : heap'[x].id = heap[x].id /\ heap'[x].kids = heap[x].kids
        /\ \A x \in DOMAIN heap : x # a => heap'[x].fwd = heap[x].fwd
        /\ In(act)' = In(act) /\ In(inactive)' = In(inactive) \cup {b}
        /\ inactive' = inactive
    BY <1>3, EvacuatedHeap DEF NewCopy
  <1> HIDE DEF b, new
  <1>5. /\ \A x \in In(act) : x \in DOMAIN heap
        /\ \A x \in Forwarded : x # a /\ heap'[x].fwd = heap[x].fwd
                                /\ heap[x].fwd \in In(inactive) /\ heap[x].fwd # b
                                /\ heap[x].fwd \in DOMAIN heap
    <2>1. \A x \in In(act) : x \in DOMAIN heap
      BY DEF In
    <2>2. \A x \in Forwarded : heap[x].fwd \in In(inactive)
      BY CopyFacts DEF Forwarded, IncludesStore
    <2> QED
      BY <1>4, <2>1, <2>2 DEF Forwarded, In
  <1>6. Forwarded' = Forwarded \cup {a}
    BY <1>3, <1>4, <1>5 DEF Forwarded
  <1>7. IdsDistinct' /\ RequestFresh'
    BY <1>1, <1>6, OldKeptDistinct
  <1>8. EvacuatedAreLive'
    BY <1>2, <1>6 DEF EvacuatedAreLive, IncludesStore, StoreInv
  <1>9. CopiesMatch'
    <2>1. \A x \in In(inactive) : \E y \in Forwarded : heap'[y].fwd = x
      BY <1>5 DEF CopiesMatch, InCollection, IncludesStore, StoreInv
    <2>2. \A x, y \in Forwarded : heap'[x].fwd = heap'[y].fwd => x = y
      BY <1>5 DEF CopiesMatch, InCollection, IncludesStore, StoreInv
    <2> QED
      BY <1>4, <1>5, <1>6, <2>1, <2>2 DEF CopiesMatch
  <1>10. FieldsCopied'
    <2> SUFFICES ASSUME NEW x \in Forwarded', NEW j \in DOMAIN heap'[x].kids
                 PROVE  FieldCopied(x, j)'
      BY DEF FieldsCopied
    <2>1. CASE x = a
      <3>1. heap'[heap'[x].fwd].kids[j] = Garbage
        BY <1>3, <1>4, <1>5, <2>1
      <3> QED
        BY <3>1 DEF FieldCopied
    <2>2. CASE x \in Forwarded
      <3>1. /\ heap'[x].kids = heap[x].kids /\ heap'[x].fwd = heap[x].fwd
            /\ heap'[heap[x].fwd].kids = heap[heap[x].fwd].kids
            /\ x \in In(act)
        BY <1>4, <1>5, <2>2 DEF Forwarded
      <3>2. FieldCopied(x, j)
        BY <2>2, <3>1 DEF FieldsCopied, InCollection, IncludesStore, StoreInv
      <3>3. heap[x].kids[j] \in In(act) \cup {NULL}
        BY <3>1 DEF IncludesStore, IInv, Always, OldObjectsWhole, OldPointers
      <3>4. Settled(heap[x].kids[j]) =>
                /\ Settled(heap[x].kids[j])'
                /\ Copied(heap[x].kids[j])' = Copied(heap[x].kids[j])
        <4>1. CASE heap[x].kids[j] = NULL
          BY <3>1, <4>1 DEF Settled, Copied
        <4>2. CASE heap[x].kids[j] \in Forwarded
          BY <1>5, <3>1, <4>2 DEF Settled, Copied, Forwarded
        <4> QED
          BY <3>3, <4>1, <4>2 DEF Settled, Forwarded
      <3> QED
        BY <3>1, <3>2, <3>4 DEF FieldCopied
    <2> QED
      BY <1>6, <2>1, <2>2
  <1> QED
    BY <1>2, <1>7, <1>8, <1>9, <1>10 DEF StoreInv

LEMMA AbandonKeepsStore ==
    ASSUME IncludesStore, [Next]_vars, phase = "copy", NEW a, Abandon(a)
    PROVE  StoreInv'
  <1>1. CASE ResizeFails
    BY <1>1, SameObjects DEF ResizeFails
  <1>2. CASE ~ResizeFails
    <2>1. /\ heap' = Keep(heap, In(act)) /\ phase' = "clear"
          /\ UNCHANGED <<act, slot, roots, req>>
      BY <1>2 DEF Abandon
    <2>2. SlotsKnown'
      BY OldKept
    <2>3. Forwarded' \subseteq Forwarded
      BY <2>1 DEF Forwarded, Keep, In
    <2>4. IdsDistinct' /\ RequestFresh'
      BY <2>1, <2>3, OldKeptDistinct
    <2> QED
      BY <2>1, <2>2, <2>4 DEF StoreInv, EvacuatedAreLive, CopiesMatch, FieldsCopied,
                              InCollection
  <1> QED
    BY <1>1, <1>2

LEMMA CopyObjectKeepsStore ==
    ASSUME IncludesStore, [Next]_vars, CopyRoot \/ CopyChild
    PROVE  StoreInv'
  <1>1. phase = "copy" /\ IInv
    BY DEF CopyRoot, CopyChild, CopyingChild, IncludesStore
  <1>2. CASE CopyRoot
    <2>1. roots[index] \in Slots /\ RootValue # NULL /\ heap[RootValue].fwd = NULL
      BY <1>2 DEF CopyRoot, Settled, IncludesStore, IInv, Always, TypeOK
    <2>2. RootValue \in Live
      BY <2>1, LiveFacts DEF LiveClosed, IncludesStore, StoreInv, SlotsKnown, Held, RootValue
    <2> QED
      BY <1>1, <1>2, <2>1, <2>2, EvacuateKeepsStore, AbandonKeepsStore
         DEF CopyRoot, CopyObject
  <1>3. CASE CopyChild
    <2>1. /\ Top.old \in In(act) /\ Top.new = heap[Top.old].fwd /\ Top.new # NULL
          /\ Top.i \in DOMAIN heap[Top.old].kids /\ Child \in OldPointers
      BY <1>1, <1>3, TopFacts DEF CopyChild
    <2>2. Child # NULL /\ heap[Child].fwd = NULL
      BY <1>3 DEF CopyChild, Settled
    <2>3. Top.old \in Live
      BY <1>1, <2>1 DEF IncludesStore, StoreInv, EvacuatedAreLive, Forwarded
    <2>4. Child \in Children(Top.old) /\ Child \in DOMAIN heap
      BY <2>1, <2>2 DEF Children, Child, OldPointers, In
    <2>5. Child \in Live
      BY <2>3, <2>4, LiveFacts DEF LiveClosed
    <2> QED
      BY <1>1, <1>3, <2>2, <2>5, EvacuateKeepsStore, AbandonKeepsStore
         DEF CopyChild, CopyObject
  <1> QED
    BY <1>2, <1>3

LEMMA WriteChildKeepsStore ==
    ASSUME IncludesStore, [Next]_vars, WriteChild
    PROVE  StoreInv'
  <1> DEFINE b == Top.new
             i == Top.i
             p == Copied(Child)
             kids == [heap[b].kids EXCEPT ![i] = p]
  <1>1. /\ Settled(Child) /\ phase = "copy" /\ IInv
        /\ heap' = [heap EXCEPT ![b].kids = kids]
        /\ UNCHANGED <<act, slot, roots, phase, index, req>>
    BY DEF WriteChild, CopyingChild, IncludesStore
  <1>2. /\ Top.old \in In(act) /\ b = heap[Top.old].fwd /\ b # NULL
        /\ b \in In(inactive) /\ b \in DOMAIN heap
        /\ i \in DOMAIN heap[Top.old].kids
    BY <1>1, TopFacts DEF WriteChild
  <1>3. TypeOK /\ b \notin In(act) /\ heap[b] \in Objects
    BY <1>1, <1>2, CopyFacts, SpaceFacts, ObjectTypes
  <1>4. \A j : j # i /\ j \in DOMAIN heap[b].kids => kids[j] = heap[b].kids[j]
    OBVIOUS
  <1>5. i \in DOMAIN heap[b].kids => kids[i] = p
    OBVIOUS
  <1>6. \A o \in Forwarded : /\ heap[o].fwd \in DOMAIN heap
                             /\ DOMAIN heap[heap[o].fwd].kids = DOMAIN heap[o].kids
    <2>1. \A o \in Forwarded : o \in DOMAIN heap /\ heap[o].fwd \in DOMAIN heap
                               /\ heap[heap[o].fwd].id = heap[o].id
      BY <1>1, CopyFacts DEF Forwarded, In
    <2> QED
      BY <1>1, <1>3, <2>1, ObjectTypes DEF IInv, Always, WellFormed
  <1> HIDE DEF kids
  <1>7. /\ DOMAIN heap' = DOMAIN heap
        /\ heap'[b] = [heap[b] EXCEPT !.kids = kids]
        /\ \A x \in DOMAIN heap : x # b => heap'[x] = heap[x]
    BY <1>1, <1>2
  <1>8. heap'[b].kids = kids /\ heap'[b].fwd = heap[b].fwd
    BY <1>3, <1>7 DEF Objects
  <1>9. /\ In(act)' = In(act) /\ In(inactive)' = In(inactive)
        /\ \A x \in In(act) : heap'[x] = heap[x]
    BY <1>1, <1>3, <1>7 DEF In, inactive
  <1>10. Forwarded' = Forwarded
    BY <1>9 DEF Forwarded
  <1>11. Live' = Live /\ SlotsKnown'
    BY <1>1, OldKept
  <1>12. IdsDistinct' /\ RequestFresh'
    BY <1>1, <1>10, OldKeptDistinct
  <1>13. EvacuatedAreLive'
    BY <1>1, <1>10, <1>11 DEF EvacuatedAreLive, IncludesStore, StoreInv
  <1>14. CopiesMatch'
    BY <1>1, <1>9, <1>10 DEF CopiesMatch, InCollection, IncludesStore, StoreInv, Forwarded
  <1>15. FieldsCopied'
    <2> SUFFICES ASSUME NEW o \in Forwarded, NEW j \in DOMAIN heap[o].kids
                 PROVE  FieldCopied(o, j)'
      BY <1>9, <1>10 DEF FieldsCopied, Forwarded
    <2>1. o \in In(act) /\ heap'[o] = heap[o] /\ heap[o].fwd # NULL
      BY <1>9 DEF Forwarded
    <2>2. FieldCopied(o, j)
      BY <1>1 DEF FieldsCopied, InCollection, IncludesStore, StoreInv
    <2>3. heap[o].kids[j] \in In(act) \cup {NULL}
      BY <1>1, <2>1 DEF IInv, Always, OldObjectsWhole, OldPointers
    <2>4. /\ Settled(heap[o].kids[j])' = Settled(heap[o].kids[j])
          /\ Copied(heap[o].kids[j])' = Copied(heap[o].kids[j])
      BY <1>9, <2>1, <2>3 DEF Settled, Copied
    <2>5. CASE heap[o].fwd = b /\ j = i
      <3>1. o = Top.old
        BY <1>1, <1>2, <2>5 DEF CopiesMatch, InCollection, IncludesStore, StoreInv, Forwarded
      <3>2. heap'[b].kids[i] = p /\ Child = heap[o].kids[j]
        BY <1>5, <1>6, <1>8, <2>5, <3>1 DEF Child
      <3> QED
        BY <1>1, <2>1, <2>4, <2>5, <3>2 DEF FieldCopied
    <2>6. CASE heap[o].fwd # b \/ j # i
      <3>1. heap'[heap[o].fwd].kids[j] = heap[heap[o].fwd].kids[j]
        <4>1. heap[o].fwd \in DOMAIN heap /\ j \in DOMAIN heap[heap[o].fwd].kids
          BY <1>6
        <4>2. CASE heap[o].fwd # b
          BY <1>7, <4>1, <4>2
        <4>3. CASE heap[o].fwd = b
          BY <1>4, <1>8, <2>6, <4>1, <4>3
        <4> QED
          BY <4>2, <4>3
      <3> QED
        BY <2>1, <2>2, <2>4, <3>1 DEF FieldCopied
    <2> QED
      BY <2>5, <2>6
  <1> QED
    BY <1>11, <1>12, <1>13, <1>14, <1>15 DEF StoreInv

(***************************************************************************)
(* The clearing, and the steps of a collection that change no object.      *)
(***************************************************************************)
LEMMA ClearKeepsStore ==
    ASSUME IncludesStore, [Next]_vars, ClearRoot \/ ClearChild
    PROVE  StoreInv'
  <1>1. /\ phase = "clear" /\ phase' = "clear" /\ act' = act /\ req' = req
    BY DEF ClearRoot, ClearChild
  <1>2. \/ heap' = heap
        \/ \E c : heap' = [heap EXCEPT ![c].fwd = NULL]
    BY Zenon DEF ClearRoot, ClearChild
  <1>3. SlotsKnown' /\ \A a \in In(act) : Kept(a)
    BY <1>1, OldKept
  <1>4. Forwarded' \subseteq Forwarded
    <2>1. CASE heap' = heap
      BY <1>1, <2>1 DEF Forwarded, In
    <2>2. ASSUME NEW c, heap' = [heap EXCEPT ![c].fwd = NULL]
          PROVE  Forwarded' \subseteq Forwarded
      <3>1. DOMAIN heap' = DOMAIN heap /\ \A x \in DOMAIN heap : x # c => heap'[x] = heap[x]
        BY <2>2
      <3>2. ASSUME c \in DOMAIN heap PROVE heap'[c].fwd = NULL
        <4>1. heap[c] \in Objects /\ heap'[c] = [heap[c] EXCEPT !.fwd = NULL]
          BY <2>2, <3>2, ObjectTypes DEF IncludesStore, IInv, Always
        <4> QED
          BY <4>1 DEF Objects
      <3> QED
        BY <1>1, <3>1, <3>2 DEF Forwarded, In
    <2> QED
      BY <1>2, <2>1, <2>2
  <1>5. IdsDistinct' /\ RequestFresh'
    BY <1>1, <1>4, OldKeptDistinct
  <1> QED
    BY <1>1, <1>3, <1>5 DEF StoreInv, EvacuatedAreLive, CopiesMatch, FieldsCopied, InCollection

LEMMA PassKeepsStore ==
    ASSUME IncludesStore, SkipRoot \/ CopyReturn \/ CopyDone \/ ClearDone
    PROVE  StoreInv'
  <1>1. /\ phase # "exit" /\ heap' = heap /\ slot' = slot /\ act' = act /\ req' = req
        /\ phase' = phase \/ (phase = "copy" /\ phase' = "assign") \/ ClearDone
    BY DEF SkipRoot, CopyReturn, CopyDone, ClearDone
  <1>2. ASSUME ClearDone PROVE Forwarded = {} /\ In(inactive) = {}
    BY <1>2, AllCleared, ClearFacts DEF ClearDone, Forwarded, IncludesStore
  <1>3. req' = NULL \/ (req # NULL /\ req'.id = req.id) \/ RequestFresh'
    BY <1>1 DEF IncludesStore, IInv, Always, TypeOK
  <1> QED
    BY <1>1, <1>2, <1>3, SameObjects

(***************************************************************************)
(* The client's calls that change no object, and the start of a collection.*)
(***************************************************************************)
LEMMA RunEmpty ==
    ASSUME IncludesStore, phase = "run"
    PROVE  /\ Forwarded = {} /\ In(inactive) = {} /\ DOMAIN heap = In(act)
           /\ Originals = Live /\ Live \subseteq DOMAIN heap
  <1>1. Forwarded = {} /\ In(inactive) = {} /\ DOMAIN heap = In(act)
    BY RunFacts DEF Forwarded, IncludesStore
  <1> QED
    BY <1>1, LiveFacts DEF LiveClosed, Originals

LEMMA CallKeepsStore ==
    ASSUME IncludesStore,
           \/ \E s \in Slots : Root(s) \/ Unroot(s)
           \/ \E id \in Ids : Request(id)
           \/ RequestCollect \/ AllocCollect \/ AllocGrow
    PROVE  StoreInv'
  <1>1. /\ phase = "run" /\ heap' = heap /\ slot' = slot /\ act' = act
    BY DEF Root, Unroot, Request, RequestCollect, AllocCollect, AllocGrow, Idle, Waiting,
           ResizeFails
  <1>2. Forwarded = {} /\ In(inactive) = {} /\ Live \subseteq DOMAIN heap
    BY <1>1, RunEmpty
  <1>3. Live' = Live
    BY <1>1 DEF Live, Held, Reach, Children
  <1>4. req' = NULL \/ (req # NULL /\ req'.id = req.id) \/ RequestFresh'
    <2>1. CASE \E s \in Slots : Root(s) \/ Unroot(s)
      BY <2>1 DEF Root, Unroot, Idle
    <2>2. ASSUME NEW id \in Ids, Request(id) PROVE RequestFresh'
      BY <1>1, <1>3, <2>2 DEF Request, RequestFresh
    <2>3. CASE RequestCollect
      <3>1. req'.id = NULL
        BY <2>3 DEF RequestCollect
      <3>2. \A a \in Live : heap[a].id \in Ids
        BY <1>2, ObjectTypes DEF IncludesStore, IInv, Always
      <3> QED
        BY <1>1, <1>3, <3>1, <3>2, GcAssumption DEF RequestFresh
    <2>4. CASE AllocCollect
      <3>1. req # NULL /\ req \in Requests /\ req.stage \in {"stress", "try"}
        BY <2>4 DEF AllocCollect, Waiting, IncludesStore, IInv, Always, TypeOK
      <3>2. req'.id = req.id
        BY <2>4, <3>1 DEF AllocCollect, Requests
      <3> QED
        BY <3>1, <3>2
    <2>5. CASE AllocGrow
      <3>1. req # NULL /\ req' = req
        BY <2>5 DEF AllocGrow, Waiting, ResizeFails
      <3> QED
        BY <3>1
    <2> QED
      BY <2>1, <2>2, <2>3, <2>4, <2>5
  <1> QED
    BY <1>1, <1>2, <1>4, SameObjects

(***************************************************************************)
(* The client moves a pointer: what is in use can only become less.        *)
(***************************************************************************)
\* Outside a collection the invariant is about the objects in use alone.
LEMMA RunKeepsStore ==
    ASSUME phase' = "run", SlotsKnown', RequestFresh', Forwarded' = {},
           \A a, b \in Live' : heap'[a].id = heap'[b].id => a = b
    PROVE  StoreInv'
  <1>1. Originals' \subseteq Live'
    BY DEF Originals
  <1> QED
    BY <1>1 DEF StoreInv, IdsDistinct, EvacuatedAreLive, CopiesMatch, FieldsCopied,
                InCollection

LEMMA AssignEffect ==
    ASSUME IncludesStore, NEW s \in Slots, NEW p \in Live \cup {NULL}, Assign(s, p)
    PROVE  /\ slot' = [slot EXCEPT ![s] = p] /\ slot \in [Slots -> Pointers]
           /\ phase = "run" /\ req = NULL
           /\ UNCHANGED <<act, heap, roots, phase, req>>
           /\ Live' \subseteq Live /\ StoreInv'
  <1>1. /\ slot' = [slot EXCEPT ![s] = p] /\ slot \in [Slots -> Pointers]
        /\ phase = "run" /\ req = NULL
        /\ UNCHANGED <<act, heap, roots, phase, req>>
    BY DEF Assign, Idle, IncludesStore, IInv, Always, TypeOK
  <1>2. /\ Forwarded = {} /\ DOMAIN heap = In(act) /\ Originals = Live
        /\ Live \subseteq DOMAIN heap
    BY <1>1, RunEmpty
  <1>3. Held \subseteq Live /\ \A a \in Live : Children(a) \cap DOMAIN heap \subseteq Live
    BY LiveFacts DEF LiveClosed, IncludesStore, StoreInv, SlotsKnown
  <1>4. Held' \subseteq Live
    BY <1>1, <1>3 DEF Held
  <1>5. \A a : Children(a)' = Children(a)
    BY <1>1 DEF Children
  <1>6. Live' \subseteq Live
    BY <1>1, <1>3, <1>4, <1>5, LiveAfter DEF LiveIsLeast
  <1>7. SlotsKnown' /\ RequestFresh' /\ Forwarded' = {}
    BY <1>1, <1>2, <1>4 DEF SlotsKnown, RequestFresh, Forwarded, In
  <1>8. \A a, b \in Live' : heap'[a].id = heap'[b].id => a = b
    BY <1>1, <1>2, <1>6 DEF IdsDistinct, IncludesStore, StoreInv
  <1> QED
    BY <1>1, <1>6, <1>7, <1>8, RunKeepsStore

\* What the client moves it has a way to: a field of an object it holds, ...
LEMMA MovedIsLive ==
    ASSUME IncludesStore, NEW s \in Slots, NEW t \in Slots, Assign(s, slot[t]) \/ Load(s, t)
    PROVE  \E p \in Live \cup {NULL} : Assign(s, p)
  <1>1. phase = "run"
    BY DEF Assign, Load, Idle
  <1>2. Held \subseteq Live /\ \A a \in Live : Children(a) \cap DOMAIN heap \subseteq Live
    BY LiveFacts DEF LiveClosed, IncludesStore, StoreInv, SlotsKnown
  <1>3. slot[t] \in Live \cup {NULL}
    BY <1>2 DEF Held
  <1>4. ASSUME slot[t] # NULL, NEW p \in Children(slot[t]) PROVE p \in Live
    <2>1. p \in DOMAIN heap
      BY <1>1, <1>3, <1>4, LiveWhole DEF Children
    <2> QED
      BY <1>2, <1>3, <1>4, <2>1
  <1> QED
    BY <1>3, <1>4 DEF Load

\* ... and stores it in an object it holds.
LEMMA StoreEffect ==
    ASSUME IncludesStore, NEW o \in Slots, NEW v \in Slots, NEW i \in 1 .. 3, Store(o, i, v),
           NEW x, x = slot[o], NEW y, y = slot[v]
    PROVE  /\ phase = "run" /\ req = NULL
           /\ UNCHANGED <<act, slot, roots, phase, req>>
           /\ x \in Live /\ y \in Live \cup {NULL} /\ i \in DOMAIN heap[x].kids
           /\ heap'[x].kids = [heap[x].kids EXCEPT ![i] = y] /\ heap'[x].id = heap[x].id
           /\ \A a \in DOMAIN heap : a # x => heap'[a] = heap[a]
           /\ DOMAIN heap' = DOMAIN heap
           /\ Live' \subseteq Live /\ StoreInv'
  <1> DEFINE kids == [heap[x].kids EXCEPT ![i] = y]
  <1>1. /\ phase = "run" /\ req = NULL
        /\ UNCHANGED <<act, slot, roots, phase, req>>
        /\ x # NULL /\ i \in DOMAIN heap[x].kids
        /\ heap' = [heap EXCEPT ![x].kids = kids]
    BY DEF Store, Idle
  <1>2. /\ Forwarded = {} /\ DOMAIN heap = In(act) /\ Originals = Live
        /\ Live \subseteq DOMAIN heap
    BY <1>1, RunEmpty
  <1>3. Held \subseteq Live /\ \A a \in Live : Children(a) \cap DOMAIN heap \subseteq Live
    BY LiveFacts DEF LiveClosed, IncludesStore, StoreInv, SlotsKnown
  <1>4. x \in Live /\ y \in Live \cup {NULL} /\ x \in DOMAIN heap
    BY <1>1, <1>2, <1>3 DEF Held
  <1>5. \A j \in DOMAIN kids : kids[j] = y \/ (j \in DOMAIN heap[x].kids /\ kids[j] = heap[x].kids[j])
    OBVIOUS
  <1>6. heap[x] \in Objects
    BY <1>4, ObjectTypes DEF IncludesStore, IInv, Always
  <1> HIDE DEF kids
  <1>7. /\ DOMAIN heap' = DOMAIN heap
        /\ \A a \in DOMAIN heap : a # x => heap'[a] = heap[a]
        /\ heap'[x] = [heap[x] EXCEPT !.kids = kids]
    BY <1>1, <1>4
  <1>8. heap'[x].kids = kids /\ heap'[x].id = heap[x].id /\ heap'[x].fwd = heap[x].fwd
    BY <1>6, <1>7 DEF Objects
  <1>9. \A a \in Live : Children(a)' \cap DOMAIN heap' \subseteq Live
    <2>1. ASSUME NEW a \in Live, a # x PROVE Children(a)' = Children(a)
      <3>1. heap'[a] = heap[a]
        BY <1>2, <1>7, <2>1
      <3> QED
        BY <3>1 DEF Children
    <2>2. Children(x)' \subseteq Children(x) \cup {y}
      BY <1>5, <1>8 DEF Children
    <2>3. Children(x)' \cap DOMAIN heap' \subseteq Live
      <3>1. NULL \notin Children(x)'
        BY DEF Children
      <3> QED
        BY <1>3, <1>4, <1>7, <2>2, <3>1
    <2> QED
      BY <1>3, <1>7, <2>1, <2>3
  <1>10. Held' = Held
    BY <1>1 DEF Held
  <1>11. Live' \subseteq Live
    BY <1>3, <1>9, <1>10, LiveAfter DEF LiveIsLeast
  <1>12. SlotsKnown' /\ RequestFresh'
    BY <1>1, <1>7, <1>10 DEF SlotsKnown, RequestFresh, IncludesStore, StoreInv
  <1>13. Forwarded' = {}
    <2>1. In(act)' = In(act)
      BY <1>1, <1>7 DEF In
    <2>2. \A a \in In(act) : a \in DOMAIN heap /\ heap[a].fwd = NULL
      BY <1>2 DEF Forwarded, In
    <2>3. \A a \in In(act) : heap'[a].fwd = NULL
      BY <1>7, <1>8, <2>2
    <2> QED
      BY <2>1, <2>3 DEF Forwarded
  <1>14. \A a, b \in Live' : heap'[a].id = heap'[b].id => a = b
    <2>1. \A a \in Live : heap'[a].id = heap[a].id
      BY <1>2, <1>7, <1>8
    <2> QED
      BY <1>2, <1>11, <2>1 DEF IdsDistinct, IncludesStore, StoreInv
  <1>15. StoreInv'
    BY <1>1, <1>12, <1>13, <1>14, RunKeepsStore
  <1> QED
    BY <1>1, <1>4, <1>7, <1>8, <1>11, <1>15 DEF kids

(***************************************************************************)
(* gc_alloc returns: the new object is the only one that was not in use.   *)
(***************************************************************************)
LEMMA AllocEffect ==
    ASSUME IncludesStore, NEW s \in Slots, Waiting, NEW from \in Sources(req.id),
           AllocOk(s, from), NEW b, b = Block(act)
    PROVE  /\ phase = "run" /\ req # NULL /\ req.id \in Ids /\ req' = NULL
           /\ UNCHANGED <<act, roots, phase>> /\ MayBuild(from)
           /\ slot' = [slot EXCEPT ![s] = b] /\ b # NULL
           /\ DOMAIN heap' = DOMAIN heap \cup {b} /\ b \notin DOMAIN heap
           /\ \A a \in DOMAIN heap : heap'[a] = heap[a]
           /\ heap'[b].id = req.id /\ heap'[b].kids = Contents(from)
           /\ Live \subseteq DOMAIN heap
           /\ Live' \subseteq Live \cup {b} /\ StoreInv'
  <1> DEFINE id == req.id
             new == [id |-> id, kids |-> Contents(from), fwd |-> NULL]
  <1>1. /\ phase = "run" /\ req # NULL /\ Fits(act, id) /\ MayBuild(from)
        /\ heap' = Put(heap, b, new) /\ slot' = [slot EXCEPT ![s] = b]
        /\ req' = NULL /\ UNCHANGED <<act, roots, phase>>
    BY DEF AllocOk, Waiting
  <1>2. TypeOK /\ Layout /\ act \in Spaces /\ id \in Ids
    BY <1>1, SpaceFacts, RunFacts DEF IncludesStore, IInv, Always
  <1>3. b \notin DOMAIN heap /\ b # NULL /\ b[1] = act
    BY <1>1, <1>2, BlockFacts, GcAssumption DEF Places, Spaces
  <1>4. /\ new.id = id /\ new.kids = Contents(from) /\ new.fwd = NULL
    OBVIOUS
  <1> HIDE DEF id, new
  <1>5. /\ DOMAIN heap' = DOMAIN heap \cup {b} /\ heap'[b] = new
        /\ \A a \in DOMAIN heap : heap'[a] = heap[a]
    BY <1>1, <1>3 DEF Put
  <1>6. /\ Forwarded = {} /\ DOMAIN heap = In(act) /\ Originals = Live
        /\ Live \subseteq DOMAIN heap
    BY <1>1, RunEmpty
  <1>7. Held \subseteq Live /\ \A a \in Live : Children(a) \subseteq Live
    <2>1. Held \subseteq Live /\ \A a \in Live : Children(a) \cap DOMAIN heap \subseteq Live
      BY LiveFacts DEF LiveClosed, IncludesStore, StoreInv, SlotsKnown
    <2>2. \A a \in Live : Children(a) \subseteq DOMAIN heap
      BY <1>1, LiveWhole DEF Children
    <2> QED
      BY <2>1, <2>2
  <1>8. Held' \subseteq Live \cup {b}
    <2>1. slot \in [Slots -> Pointers]
      BY <1>2 DEF TypeOK
    <2> QED
      BY <1>1, <1>7, <2>1 DEF Held
  <1>9. \A a \in Live : Children(a)' = Children(a)
    BY <1>5, <1>6 DEF Children
  <1>10. Children(b)' \subseteq Live
    <2>1. \A i \in DOMAIN Contents(from) : Contents(from)[i] = NULL \/ Contents(from)[i] \in Held
      <3>1. Arity[id] \in Nat /\ from \in [1 .. Arity[id] -> Slots \cup {NULL}]
        BY <1>2, GcAssumption DEF Sources, id
      <3>2. ASSUME NEW i \in DOMAIN Contents(from)
            PROVE  Contents(from)[i] = NULL \/ Contents(from)[i] \in Held
        <4>1. /\ i \in DOMAIN from /\ from[i] \in Slots \cup {NULL}
              /\ Contents(from)[i] = IF from[i] = NULL THEN NULL ELSE slot[from[i]]
          BY <3>1, <3>2 DEF Contents
        <4> QED
          BY <4>1 DEF Held
      <3> QED
        BY <3>2
    <2> QED
      BY <1>4, <1>5, <1>7, <2>1 DEF Children
  <1>11. Live' \subseteq Live \cup {b}
    BY <1>7, <1>8, <1>9, <1>10, LiveAfter DEF LiveIsLeast
  <1>12. SlotsKnown' /\ RequestFresh'
    BY <1>1, <1>5, <1>6, <1>8 DEF SlotsKnown, RequestFresh
  <1>13. Forwarded' = {}
    BY <1>1, <1>4, <1>5, <1>6 DEF Forwarded, In
  <1>14. \A x, y \in Live' : heap'[x].id = heap'[y].id => x = y
    <2>1. \A x \in Live : heap'[x].id = heap[x].id /\ heap[x].id # id
      BY <1>1, <1>5, <1>6 DEF RequestFresh, IncludesStore, StoreInv, id
    <2>2. \A x, y \in Live : heap[x].id = heap[y].id => x = y
      BY <1>6 DEF IdsDistinct, IncludesStore, StoreInv
    <2>3. heap'[b].id = id
      BY <1>4, <1>5
    <2> QED
      BY <1>11, <2>1, <2>2, <2>3
  <1>15. StoreInv'
    BY <1>1, <1>12, <1>13, <1>14, RunKeepsStore
  <1> QED
    BY <1>1, <1>2, <1>3, <1>4, <1>5, <1>6, <1>11, <1>15 DEF id

(***************************************************************************)
(* A root is updated: it leads to the copies of what it led to.            *)
(***************************************************************************)
LEMMA AssignRootEffect ==
    ASSUME IncludesStore, AssignRoot
    PROVE  /\ phase = "assign" /\ UNCHANGED <<act, heap, roots, phase, req>>
           /\ slot' \in [Slots -> Pointers]
           /\ \A s \in Slots : slot'[s] = slot[s] \/
                  (slot[s] \in Forwarded /\ slot'[s] = heap[slot[s]].fwd)
           /\ Live' \subseteq Live \cup {heap[o].fwd : o \in Forwarded \cap Live}
           /\ StoreInv'
  <1> DEFINE T == Live \cup {heap[o].fwd : o \in Forwarded \cap Live}
             r == roots[index]
  <1>1. /\ phase = "assign" /\ UNCHANGED <<act, heap, roots, phase, req>> /\ TypeOK
        /\ r \in Slots /\ index \in DOMAIN roots
        /\ slot \in [Slots -> Pointers]
    BY DEF AssignRoot, IncludesStore, IInv, Always, TypeOK
  <1>2. CASE RootValue = NULL \/ heap[RootValue].fwd = NULL
    <2>1. slot' = slot
      BY <1>2 DEF AssignRoot
    <2>2. req' = NULL \/ (req # NULL /\ req'.id = req.id)
      BY <1>1
    <2>3. Live' = Live /\ StoreInv'
      BY <1>1, <2>1, <2>2, SameObjects
    <2> QED
      BY <1>1, <2>1, <2>3
  <1>3. CASE ~(RootValue = NULL \/ heap[RootValue].fwd = NULL)
    <2>1. slot' = [slot EXCEPT ![r] = heap[slot[r]].fwd]
      BY <1>3 DEF AssignRoot, RootValue
    <2>2. Live \subseteq DOMAIN heap /\ Held \subseteq Live
      BY LiveFacts DEF LiveClosed, IncludesStore, StoreInv, SlotsKnown
    <2>3. slot[r] \in Forwarded /\ slot[r] \in Live
      <3>1. slot[r] \in Live
        BY <1>1, <1>3, <2>2 DEF Held, RootValue
      <3>2. slot[r] \in In(act)
        BY <1>1, <1>3, <2>2, <3>1, SpaceFacts
           DEF RootValue, IncludesStore, IInv, Always, CopiesUnforwarded
      <3> QED
        BY <1>3, <3>1, <3>2 DEF Forwarded, RootValue
    <2> HIDE DEF r
    <2>4. \A s \in Slots : slot'[s] = slot[s] \/
              (slot[s] \in Forwarded /\ slot[s] \in Live /\ slot'[s] = heap[slot[s]].fwd)
      BY <1>1, <2>1, <2>3
    <2>5. slot' \in [Slots -> Pointers]
      BY <1>1, <2>1, <2>2, <2>3, ObjectTypes
    <2>6. Held' \subseteq T
      <3> SUFFICES ASSUME NEW s \in Slots, slot'[s] # NULL PROVE slot'[s] \in T
        BY DEF Held
      <3>1. slot[s] # NULL => slot[s] \in Live
        BY <2>2 DEF Held
      <3> QED
        BY <2>4, <3>1
    <2>7. \A a : Children(a)' = Children(a)
      BY <1>1 DEF Children
    <2>8. \A a \in Live : Children(a) \subseteq Live
      <3>1. \A a \in Live : Children(a) \subseteq DOMAIN heap
        BY <1>1, LiveWhole DEF Children
      <3> QED
        BY <3>1, LiveFacts DEF LiveClosed
    <2>9. ASSUME NEW o \in Forwarded \cap Live, NEW c \in Children(heap[o].fwd)
          PROVE  c \in T
      <3>1. PICK i \in DOMAIN heap[heap[o].fwd].kids : c = heap[heap[o].fwd].kids[i]
                                                       /\ c # NULL
        BY <2>9 DEF Children
      <3>2. /\ DOMAIN heap[heap[o].fwd].kids = DOMAIN heap[o].kids
            /\ Settled(heap[o].kids[i]) /\ c = Copied(heap[o].kids[i])
        <4>1. /\ o \in DOMAIN heap /\ heap[o].fwd \in DOMAIN heap
              /\ Len(heap[heap[o].fwd].kids) = Len(heap[o].kids)
          BY <1>1, <2>9, CopyFacts2 DEF Forwarded, In
        <4>2. DOMAIN heap[heap[o].fwd].kids = DOMAIN heap[o].kids
          BY <1>1, <4>1, ObjectTypes
        <4> QED
          BY <1>1, <2>9, <3>1, <4>2, CopyFacts2
      <3>3. heap[o].kids[i] # NULL
        BY <3>1, <3>2 DEF Copied
      <3>4. heap[o].kids[i] \in Live /\ heap[o].kids[i] \in In(act)
        <4>1. heap[o].kids[i] \in Children(o)
          BY <3>1, <3>2, <3>3 DEF Children
        <4>2. heap[o].kids[i] \in OldPointers
          BY <2>9, <3>1, <3>2
             DEF IncludesStore, IInv, Always, OldObjectsWhole, Forwarded
        <4> QED
          BY <2>8, <2>9, <3>3, <4>1, <4>2 DEF OldPointers
      <3> QED
        BY <3>2, <3>3, <3>4 DEF Settled, Copied, Forwarded
    <2>10. Live' \subseteq T
      <3>1. \A a \in T : Children(a)' \subseteq T
        BY <2>7, <2>8, <2>9
      <3> HIDE DEF T
      <3> QED
        BY <2>6, <3>1, LiveAfter DEF LiveIsLeast
    <2>11. \A a \in T : \E o \in Live : heap[a].id = heap[o].id
      BY <1>1, CopyFacts2
    <2>12. T \subseteq DOMAIN heap /\ \A a \in T : a \in In(act) => a \in Live
      BY <1>1, <2>2, CopyFacts2, SpaceFacts DEF In
    <2>13. SlotsKnown' /\ RequestFresh'
      BY <1>1, <2>6, <2>10, <2>11, <2>12
         DEF SlotsKnown, RequestFresh, IncludesStore, StoreInv
    <2>14. /\ In(act)' = In(act) /\ In(inactive)' = In(inactive)
           /\ Forwarded' = Forwarded
      BY <1>1 DEF In, inactive, Forwarded
    <2>15. Originals' \subseteq Originals
      BY <2>10, <2>12, <2>14 DEF Originals
    <2>16. IdsDistinct'
      BY <1>1, <2>15 DEF IdsDistinct, IncludesStore, StoreInv
    <2>17. CopiesMatch' /\ EvacuatedAreLive'
      BY <1>1, <2>14
         DEF CopiesMatch, EvacuatedAreLive, InCollection, IncludesStore, StoreInv
    <2>18. FieldsCopied'
      BY <1>1, <2>14 DEF FieldsCopied, FieldCopied, Settled, Copied, InCollection,
                         IncludesStore, StoreInv
    <2> QED
      BY <1>1, <2>4, <2>5, <2>10, <2>13, <2>16, <2>17, <2>18 DEF StoreInv
  <1> QED
    BY <1>2, <1>3

(***************************************************************************)
(* The copies take the place of the objects.                               *)
(***************************************************************************)
LEMMA FinishEffect ==
    ASSUME IncludesStore, FinishCollect
    PROVE  /\ phase = "assign" /\ phase' = "run" /\ req # NULL /\ roots' = roots
           /\ slot' = [s \in Slots |-> IF Rooted(s) THEN slot[s] ELSE NULL]
           /\ \A s \in Slots : slot'[s] = slot[s] \/ slot'[s] = NULL
           /\ DOMAIN heap' = In(inactive) /\ \A a \in In(inactive) : heap'[a] = heap[a]
           /\ Live' \subseteq Live /\ Live' \subseteq In(inactive) /\ StoreInv'
  <1>1. /\ phase = "assign" /\ phase' = "run" /\ roots' = roots
        /\ act' = inactive /\ heap' = Keep(heap, In(inactive))
        /\ slot' = [s \in Slots |-> IF Rooted(s) THEN slot[s] ELSE NULL]
        /\ req' = IF req.stage = "collect" THEN NULL ELSE req
    BY DEF FinishCollect
  <1>2. TypeOK /\ req # NULL
    BY <1>1 DEF IncludesStore, IInv, Always, TypeOK
  <1>3. DOMAIN heap' = In(inactive) /\ \A a \in In(inactive) : heap'[a] = heap[a]
    BY <1>1 DEF Keep
  <1>4. \A s \in Slots : slot'[s] = slot[s] \/ slot'[s] = NULL
    BY <1>1
  <1>5. Held \subseteq Live /\ Live \subseteq DOMAIN heap
        /\ \A a \in Live : Children(a) \cap DOMAIN heap \subseteq Live
    BY LiveFacts DEF LiveClosed, IncludesStore, StoreInv, SlotsKnown
  <1>6. Held' \subseteq Live
    BY <1>4, <1>5 DEF Held
  <1>7. \A a \in In(inactive) : Children(a)' = Children(a)
    BY <1>3 DEF Children
  <1>8. Live' \subseteq Live
    <2>1. In(inactive) \subseteq DOMAIN heap
      BY DEF In
    <2> QED
      BY <1>3, <1>5, <1>6, <1>7, <2>1, LiveAfter DEF LiveIsLeast
  <1>9. Live' \subseteq In(inactive)
    BY <1>3, LiveAfter DEF LiveClosed
  <1>10. SlotsKnown'
    <2>1. IInv' /\ phase' = "run"
      BY <1>1, FinishKeeps DEF IncludesStore
    <2>2. VariablesOld'
      BY <2>1 DEF IInv
    <2>3. \A s \in Slots : slot'[s] \in OldPointers'
      BY <2>1, <2>2 DEF VariablesOld
    <2> QED
      BY <2>3 DEF SlotsKnown, Held, OldPointers, In
  <1>11. RequestFresh'
    BY <1>1, <1>2, <1>3, <1>8, <1>9 DEF RequestFresh, IncludesStore, StoreInv
  <1>12. Forwarded' = {}
    BY <1>3 DEF Forwarded, In, IncludesStore, IInv, Always, CopiesUnforwarded
  <1>13. \A a, b \in Live' : heap'[a].id = heap'[b].id => a = b
    <2> SUFFICES ASSUME NEW a \in In(inactive), NEW b \in In(inactive),
                        heap[a].id = heap[b].id
                 PROVE  a = b
      BY <1>3, <1>9
    <2>1. PICK o \in Forwarded : heap[o].fwd = a
      BY <1>1 DEF CopiesMatch, InCollection, IncludesStore, StoreInv
    <2>2. PICK p \in Forwarded : heap[p].fwd = b
      BY <1>1 DEF CopiesMatch, InCollection, IncludesStore, StoreInv
    <2>3. heap[o].id = heap[p].id
      BY <1>1, <2>1, <2>2, CopyFacts2
    <2> QED
      BY <2>1, <2>2, <2>3 DEF IdsDistinct, Originals, IncludesStore, StoreInv
  <1>14. StoreInv'
    BY <1>1, <1>10, <1>11, <1>12, <1>13, RunKeepsStore
  <1> QED
    BY <1>1, <1>2, <1>3, <1>4, <1>8, <1>9, <1>14

-----------------------------------------------------------------------------
(***************************************************************************)
(* The invariant.                                                          *)
(***************************************************************************)
LEMMA InitEmpty ==
    ASSUME Init
    PROVE  DOMAIN heap = {} /\ Held = {} /\ Live = {} /\ phase = "run" /\ req = NULL
  <1>1. DOMAIN heap = {} /\ phase = "run" /\ req = NULL
    BY DEF Init
  <1>2. Held = {}
    BY DEF Init, Held
  <1>3. Live = {}
    BY <1>1, LiveFacts DEF LiveClosed
  <1> QED
    BY <1>1, <1>2, <1>3

LEMMA InitEstablishesStore == Init => IncludesStore
  <1> SUFFICES ASSUME Init PROVE StoreInv
    BY InitEstablishes DEF IncludesStore
  <1> QED
    BY InitEmpty
       DEF StoreInv, SlotsKnown, IdsDistinct, RequestFresh, EvacuatedAreLive, CopiesMatch,
           FieldsCopied, InCollection, Originals, Forwarded, In

LEMMA StutterKeepsStore ==
    ASSUME IncludesStore, UNCHANGED vars
    PROVE  StoreInv'
  <1>1. UNCHANGED <<act, heap, slot, phase, req>>
    BY DEF vars
  <1>2. Held' = Held /\ Live' = Live
    BY <1>1 DEF Live, Held, Reach, Children
  <1>3. In(act)' = In(act) /\ In(inactive)' = In(inactive) /\ Forwarded' = Forwarded
    BY <1>1 DEF In, inactive, Forwarded
  <1>4. Originals' = Originals
    BY <1>2, <1>3 DEF Originals
  <1>5. SlotsKnown' /\ IdsDistinct' /\ RequestFresh' /\ EvacuatedAreLive'
    BY <1>1, <1>2, <1>3, <1>4
       DEF SlotsKnown, IdsDistinct, RequestFresh, EvacuatedAreLive, IncludesStore, StoreInv
  <1>6. CopiesMatch'
    BY <1>1, <1>3 DEF CopiesMatch, InCollection, IncludesStore, StoreInv
  <1>7. FieldsCopied'
    BY <1>1, <1>3 DEF FieldsCopied, FieldCopied, Settled, Copied, InCollection,
                      IncludesStore, StoreInv
  <1> QED
    BY <1>5, <1>6, <1>7 DEF StoreInv

LEMMA StepKeepsStore == IncludesStore /\ [Next]_vars => IncludesStore'
  <1> SUFFICES ASSUME IncludesStore, [Next]_vars PROVE IncludesStore'
    OBVIOUS
  <1> SUFFICES StoreInv'
    BY StepKeeps DEF IncludesStore
  <1>1. CASE Client
    <2>1. CASE \/ \E s \in Slots : Root(s) \/ Unroot(s)
               \/ \E id \in Ids : Request(id)
               \/ RequestCollect
      BY <2>1, CallKeepsStore
    <2>2. ASSUME NEW s \in Slots, Assign(s, NULL) PROVE StoreInv'
      BY <2>2, AssignEffect
    <2>3. ASSUME NEW s \in Slots, NEW t \in Slots, Assign(s, slot[t]) \/ Load(s, t)
          PROVE  StoreInv'
      BY <2>3, MovedIsLive, AssignEffect
    <2>4. ASSUME NEW o \in Slots, NEW v \in Slots, NEW i \in 1 .. 3, Store(o, i, v)
          PROVE  StoreInv'
      BY <2>4, StoreEffect
    <2> QED
      BY <1>1, <2>1, <2>2, <2>3, <2>4 DEF Client
  <1>2. CASE Allocate
    <2>1. ASSUME Waiting, NEW s \in Slots, NEW from \in Sources(req.id), AllocOk(s, from)
          PROVE  StoreInv'
      BY <2>1, AllocEffect
    <2> QED
      BY <1>2, <2>1, CallKeepsStore DEF Allocate
  <1>3. CASE Collect
    BY <1>3, CopyObjectKeepsStore, WriteChildKeepsStore, PassKeepsStore, ClearKeepsStore,
       AssignRootEffect, FinishEffect DEF Collect
  <1>4. CASE Exited \/ UNCHANGED vars
    BY <1>4, StutterKeepsStore DEF Exited
  <1> QED
    BY <1>1, <1>2, <1>3, <1>4 DEF Next

LEMMA AlwaysIncludesStore == Spec => []IncludesStore
  BY InitEstablishesStore, StepKeepsStore, PTL DEF Spec

\* An object is copied once however many ways lead to it and however often the
\* copying starts again, so the copies share what the objects shared.
THEOREM SharingAlwaysPreserved == Spec => []SharingPreserved
  <1>1. ASSUME IncludesStore, phase \in {"copy", "assign"},
               NEW a \in In(inactive), NEW b \in In(inactive), heap[a].id = heap[b].id
        PROVE  a = b
    <2>1. PICK o \in Forwarded : heap[o].fwd = a
      BY <1>1 DEF IncludesStore, StoreInv, CopiesMatch, InCollection
    <2>2. PICK p \in Forwarded : heap[p].fwd = b
      BY <1>1 DEF IncludesStore, StoreInv, CopiesMatch, InCollection
    <2>3. heap[o].id = heap[p].id
      BY <1>1, <2>1, <2>2 DEF IncludesStore, IInv, ForwardsLeadToCopies, Forwarded
    <2>4. o \in Originals /\ p \in Originals
      BY DEF Originals
    <2>5. o = p
      BY <1>1, <2>3, <2>4 DEF IncludesStore, StoreInv, IdsDistinct
    <2> QED
      BY <2>1, <2>2, <2>5
  <1>2. IncludesStore => SharingPreserved
    BY <1>1 DEF SharingPreserved
  <1> QED
    BY <1>2, AlwaysIncludesStore, PTL

-----------------------------------------------------------------------------
(***************************************************************************)
(* The refinement.  First the steps the store does not see, ...            *)
(***************************************************************************)
ReadableBeforeExit == IncludesStore /\ phase # "exit" => Readable

LEMMA ReadableAfter == ReadableBeforeExit'
  <1>1. ReadableBeforeExit
    BY InvReadable DEF ReadableBeforeExit
  <1> QED
    BY <1>1, PTL

LEMMA VariablesLive ==
    ASSUME IncludesStore, NEW s \in Slots
    PROVE  /\ slot[s] \in Live \cup {NULL}
           /\ slot[s] \in DOMAIN heap \cup {NULL}
  BY LiveFacts DEF LiveClosed, IncludesStore, StoreInv, SlotsKnown, Held

\* The objects still in use have their payload and children from objects in use
\* before: the store forgets some objects, and that is all.
LEMMA KidsTrimmed ==
    ASSUME IncludesStore, IncludesStore', phase # "exit", phase' # "exit",
           \A a \in Live' : \E o \in Live : /\ heap'[a].id = heap[o].id
                                          /\ IdKids(a)' = IdKids(o)
    PROVE  Store_kids' = Abstract!Trim(Store_var', Store_kids)
  <1>1. Readable'
    BY ReadableAfter DEF ReadableBeforeExit
  <1>2. Describes(Store_kids)
    BY InvDescribes
  <1>3. /\ Store_kids \in [Ids -> Seq(Ids \cup {NULL})]
        /\ \A o \in Live : Store_kids[heap[o].id] = IdKids(o)
    BY <1>2 DEF Describes
  <1>4. \A a \in Live' : Store_kids[heap'[a].id] = IdKids(a)'
    BY <1>3
  <1> QED
    BY <1>1, <1>3, <1>4, StoreReadAfter

\* An object keeps its children when no payload in use changes.
LEMMA KidsKept ==
    ASSUME IncludesStore, phase # "exit", NEW a \in Live, heap'[a].kids = heap[a].kids,
           \A b \in Live : heap'[b].id = heap[b].id
    PROVE  IdKids(a)' = IdKids(a)
  <1>1. \A i \in DOMAIN heap[a].kids :
            heap[a].kids[i] # NULL => heap[a].kids[i] \in Live
    BY InvReadable, IdKidsFacts
  <1>2. \A i \in DOMAIN heap[a].kids : IdAt(heap[a].kids[i])' = IdAt(heap[a].kids[i])
    BY <1>1 DEF IdAt
  <1> QED
    BY <1>2 DEF IdKids

LEMMA StoreKept ==
    ASSUME IncludesStore, IncludesStore', phase # "exit", phase' # "exit",
           slot' = slot, \A a \in Live : Kept(a)
    PROVE  Store_var' = Store_var /\ Store_kids' = Store_kids
  <1>1. Live' = Live
    BY LiveKept
  <1>2. \A a \in Live : heap'[a].id = heap[a].id /\ heap'[a].kids = heap[a].kids
    BY DEF Kept
  <1>3. \A a \in Live : IdKids(a)' = IdKids(a)
    BY <1>2, KidsKept
  <1>4. Store_kids' = Abstract!Trim(Store_var', Store_kids)
    BY <1>1, <1>2, <1>3, KidsTrimmed
  <1>5. Store_var' = Store_var
    BY <1>2, VariablesLive DEF Store_var, IdAt
  <1> QED
    BY <1>4, <1>5, InvDescribes

StoreUnchanged == UNCHANGED <<Store_var, Store_pins, Store_kids>>

LEMMA HeapAndSlotsSame ==
    ASSUME heap' = heap, slot' = slot, roots' = roots
    PROVE  StoreUnchanged
  <1>1. Live' = Live
    BY DEF Live, Held, Reach, Children
  <1> QED
    BY <1>1 DEF StoreUnchanged, Store_var, Store_pins, Store_kids, KidsIn, IdKids, IdAt, Count

\* A step of the copying or the clearing.
LEMMA CollectUnseen ==
    ASSUME IncludesStore, IncludesStore', [Next]_vars, phase \in {"copy", "clear"}
    PROVE  StoreUnchanged
  <1>1. slot' = slot /\ \A a \in Live : Kept(a)
    BY OldKept
  <1>2. ~Client /\ ~Allocate /\ ~AssignRoot /\ ~FinishCollect
    BY DEF Client, Root, Unroot, Assign, Load, Store, Request, RequestCollect,
       Idle, Allocate, AllocCollect, AllocGrow, Waiting, AssignRoot, FinishCollect
  <1>3. roots' = roots /\ (phase' = "exit" => heap' = heap)
    BY <1>2 DEF Next, Exited, vars, Collect, CopyRoot, SkipRoot, CopyChild, CopyObject,
       Evacuate, Abandon, ResizeFails, WriteChild, CopyReturn, CopyDone, ClearRoot,
       ClearChild, ClearDone
  <1>4. CASE phase' = "exit"
    BY <1>1, <1>3, <1>4, HeapAndSlotsSame
  <1>5. CASE phase' # "exit"
    <2>1. Store_var' = Store_var /\ Store_kids' = Store_kids
      BY <1>1, <1>5, StoreKept
    <2> QED
      BY <1>3, <2>1 DEF StoreUnchanged, Store_pins, Count
  <1> QED
    BY <1>4, <1>5

\* A root is updated: the copy looks like the object.
LEMMA AssignUnseen ==
    ASSUME IncludesStore, IncludesStore', AssignRoot
    PROVE  StoreUnchanged
  <1>1. /\ phase = "assign" /\ phase' = "assign" /\ heap' = heap /\ roots' = roots
        /\ \A s \in Slots : slot'[s] = slot[s] \/
               (slot[s] \in Forwarded /\ slot'[s] = heap[slot[s]].fwd)
        /\ Live' \subseteq Live \cup {heap[o].fwd : o \in Forwarded \cap Live}
    BY AssignRootEffect
  <1>2. \A p : IdAt(p)' = IdAt(p)
    BY <1>1 DEF IdAt
  <1>3. Store_var' = Store_var
    <2> SUFFICES ASSUME NEW s \in Slots PROVE IdAt(slot'[s]) = IdAt(slot[s])
      BY <1>2 DEF Store_var
    <2>1. CASE slot'[s] = slot[s]
      BY <2>1
    <2>2. CASE slot[s] \in Forwarded /\ slot'[s] = heap[slot[s]].fwd
      <3>1. heap[slot[s]].fwd \in In(inactive) /\ heap[heap[slot[s]].fwd].id = heap[slot[s]].id
        BY <1>1, <2>2, CopyFacts2
      <3>2. slot'[s] # NULL /\ slot[s] # NULL
        BY <2>2, <3>1, InvReadable, <1>1 DEF Readable, In, Forwarded
      <3> QED
        BY <2>2, <3>1, <3>2 DEF IdAt
    <2> QED
      BY <1>1, <2>1, <2>2
  <1>4. \A a \in Live' : \E o \in Live : heap'[a].id = heap[o].id /\ IdKids(a)' = IdKids(o)
    <2>1. \A a : IdKids(a)' = IdKids(a)
      BY <1>1, <1>2 DEF IdKids
    <2> QED
      BY <1>1, <2>1, CopyFacts2
  <1>5. Store_kids' = Abstract!Trim(Store_var', Store_kids)
    BY <1>1, <1>4, KidsTrimmed
  <1>6. Store_kids' = Store_kids
    BY <1>1, <1>3, <1>5, InvDescribes
  <1> QED
    BY <1>1, <1>3, <1>6 DEF StoreUnchanged, Store_pins, Count

(***************************************************************************)
(* ... then the calls, ...                                                 *)
(***************************************************************************)
LEMMA CallSeen ==
    ASSUME IncludesStore, IncludesStore',
           \/ \E id \in Ids : Request(id)
           \/ RequestCollect \/ AllocCollect \/ AllocGrow
    PROVE  [Abstract!Call]_(Abstract!storeVars)
  <1>1. heap' = heap /\ slot' = slot /\ roots' = roots
    BY DEF Request, RequestCollect, AllocCollect, AllocGrow, ResizeFails
  <1>3. req' # NULL
    <2>1. ASSUME NEW id \in Ids, Request(id) PROVE req' # NULL
      <3> DEFINE stage == IF Stress THEN "stress" ELSE "try"
      <3>1. req' = [id |-> id, stage |-> stage]
        BY <2>1 DEF Request
      <3>2. stage \in {"stress", "try", "loop", "collect"}
        OBVIOUS
      <3> HIDE DEF stage
      <3>3. [id |-> id, stage |-> stage] \in
              [id : Ids \cup {NULL}, stage : {"stress", "try", "loop", "collect"}]
        BY <3>2
      <3> QED
        BY <3>1, <3>3, GcAssumption
    <2>2. CASE phase' # "run"
      BY <2>2 DEF IncludesStore, IInv, Always, TypeOK
    <2> QED
      BY <2>1, <2>2 DEF RequestCollect, AllocCollect, AllocGrow, ResizeFails
  <1>2. StoreUnchanged
    BY <1>1, HeapAndSlotsSame
  <1> QED
    BY <1>2, <1>3, Zenon DEF Abstract!Call, Abstract!storeVars, StoreUnchanged

\* ... the variables ...
LEMMA AssignSeen ==
    ASSUME IncludesStore, IncludesStore', NEW s \in Slots, NEW p \in Live \cup {NULL},
           Assign(s, p)
    PROVE  \E id \in Ids \cup {NULL} : Abstract!Refer(s, id)
  <1>1. /\ slot' = [slot EXCEPT ![s] = p] /\ slot \in [Slots -> Pointers]
        /\ phase = "run" /\ phase' = "run" /\ req = NULL /\ req' = NULL
        /\ heap' = heap /\ roots' = roots /\ Live' \subseteq Live
    BY AssignEffect
  <1>2. \A q : IdAt(q)' = IdAt(q)
    BY <1>1 DEF IdAt
  <1>3. Store_var' = [Store_var EXCEPT ![s] = IdAt(p)]
    <2>1. Store_var' = [t \in Slots |-> IdAt(slot'[t])]
      BY <1>2 DEF Store_var
    <2> QED
      BY <1>1, <2>1 DEF Store_var
  <1>4. Store_kids' = Abstract!Trim(Store_var', Store_kids)
    <2>1. \A a : IdKids(a)' = IdKids(a)
      BY <1>1, <1>2 DEF IdKids
    <2> QED
      BY <1>1, <2>1, KidsTrimmed
  <1>5. IdAt(p) \in Ids \cup {NULL} /\ (IdAt(p) # NULL => Store_kids[IdAt(p)] # Abstract!Free)
    <2>1. CASE p = NULL
      BY <2>1 DEF IdAt
    <2>2. CASE p \in Live
      <3>1. IdKids(p) # Abstract!Free /\ Store_kids[heap[p].id] = IdKids(p)
        BY <1>1, <2>2, InvReadable, IdKidsFacts, InvDescribes DEF Describes
      <3>2. p # NULL /\ heap[p].id \in Ids
        BY <1>1, <2>2, InvReadable, LiveFacts DEF Readable, LiveClosed
      <3> QED
        BY <3>1, <3>2 DEF IdAt
    <2> QED
      BY <2>1, <2>2
  <1>6. Store_pins' = Store_pins
    BY <1>1 DEF Store_pins, Count
  <1>7. Abstract!Refer(s, IdAt(p))
    BY <1>1, <1>3, <1>4, <1>5, <1>6, Zenon DEF Abstract!Refer
  <1> QED
    BY <1>5, <1>7

(***************************************************************************)
(* ... the roots, which are counted, ...                                   *)
(***************************************************************************)
Entries(r, t) == {i \in DOMAIN r : r[i] = t}

LEMMA EntriesFacts ==
    ASSUME NEW r \in Seq(Slots), NEW t
    PROVE  /\ IsFiniteSet(Entries(r, t)) /\ Cardinality(Entries(r, t)) \in Nat
           /\ (Cardinality(Entries(r, t)) > 0 <=> \E i \in DOMAIN r : r[i] = t)
  <1>1. Len(r) \in Nat /\ DOMAIN r = 1 .. Len(r)
    BY LenProperties
  <1>2. IsFiniteSet(1 .. Len(r)) /\ Entries(r, t) \in SUBSET (1 .. Len(r))
    BY <1>1, FS_Interval DEF Entries
  <1>3. IsFiniteSet(Entries(r, t))
    BY <1>2, FS_Subset
  <1>4. Cardinality(Entries(r, t)) \in Nat
    BY <1>3, FS_CardinalityType
  <1>5. Cardinality(Entries(r, t)) = 0 <=> Entries(r, t) = {}
    BY <1>3, FS_EmptySet
  <1>6. Entries(r, t) = {} <=> ~ \E i \in DOMAIN r : r[i] = t
    BY DEF Entries
  <1> QED
    BY <1>3, <1>4, <1>5, <1>6

LEMMA EntriesAppended ==
    ASSUME NEW r \in Seq(Slots), NEW s \in Slots, NEW t
    PROVE  Cardinality(Entries(Append(r, s), t)) =
               Cardinality(Entries(r, t)) + IF t = s THEN 1 ELSE 0
  <1> DEFINE E == Entries(r, t)
             n == Len(r) + 1
  <1>1. /\ DOMAIN Append(r, s) = 1 .. n
        /\ \A k \in 1 .. Len(r) : Append(r, s)[k] = r[k]
        /\ Append(r, s)[n] = s
    BY PushFacts
  <1>2. Len(r) \in Nat /\ DOMAIN r = 1 .. Len(r)
    BY LenProperties
  <1>3. IsFiniteSet(E) /\ Cardinality(E) \in Nat
    BY EntriesFacts
  <1>4. n \notin E
    BY <1>2 DEF Entries
  <1>5. CASE t = s
    <2>1. Entries(Append(r, s), t) = E \cup {n}
      BY <1>1, <1>2, <1>5 DEF Entries
    <2> HIDE DEF E, n
    <2>2. Cardinality(E \cup {n}) = Cardinality(E) + 1
      BY <1>3, <1>4, FS_AddElement
    <2> QED
      BY <1>5, <2>1, <2>2 DEF E
  <1>6. CASE t # s
    <2>1. Entries(Append(r, s), t) = E
      BY <1>1, <1>2, <1>6 DEF Entries
    <2> QED
      BY <1>3, <1>6, <2>1
  <1> QED
    BY <1>5, <1>6

\* gc_unroot finds the last entry there is.
LEMMA LastEntry ==
    ASSUME NEW r \in Seq(Slots), NEW s, \E i \in DOMAIN r : r[i] = s
    PROVE  \E i \in DOMAIN r : /\ r[i] = s
                              /\ \A j \in DOMAIN r : r[j] = s => j <= i
  <1> DEFINE T == {n \in Nat : \E i \in DOMAIN r : r[i] = s /\ i + n = Len(r)}
  <1>1. Len(r) \in Nat /\ DOMAIN r = 1 .. Len(r)
    BY LenProperties
  <1>2. \A i \in DOMAIN r : Len(r) - i \in Nat /\ i + (Len(r) - i) = Len(r)
    BY <1>1
  <1>3. \A i \in DOMAIN r : r[i] = s => Len(r) - i \in T
    BY <1>2
  <1>4. T # {} /\ T \in SUBSET Nat
    BY <1>3
  <1>5. PICK n \in T : \A m \in T : n <= m
    <2> HIDE DEF T
    <2> QED
      BY <1>4, LeastElement
  <1>6. PICK i \in DOMAIN r : r[i] = s /\ i + n = Len(r)
    BY <1>5
  <1>7. \A j \in DOMAIN r : r[j] = s => n <= Len(r) - j
    BY <1>3, <1>5
  <1>8. \A j \in DOMAIN r : r[j] = s => j <= i
    BY <1>1, <1>5, <1>6, <1>7
  <1> QED
    BY <1>6, <1>8

\* Its place is taken by the last entry of all, which is another variable's or its own.
Removed(r, i) == SubSeq([r EXCEPT ![i] = r[Len(r)]], 1, Len(r) - 1)

LEMMA EntriesRemoved ==
    ASSUME NEW r \in Seq(Slots), NEW i \in DOMAIN r, NEW t, NEW s, r[i] = s,
           \A j \in DOMAIN r : r[j] = s => j <= i
    PROVE  Cardinality(Entries(Removed(r, i), t)) =
               Cardinality(Entries(r, t)) - IF t = s THEN 1 ELSE 0
  <1> DEFINE E == Entries(r, t)
             n == Len(r)
             x == [r EXCEPT ![i] = r[n]]
             q == Removed(r, i)
  <1>1. n \in Nat /\ DOMAIN r = 1 .. n /\ n \in 1 .. n /\ r[n] \in Slots /\ i <= n /\ i \in Nat
    BY LenProperties
  <1>2. /\ x \in Seq(Slots) /\ Len(x) = n /\ x[i] = r[n]
        /\ \A k \in DOMAIN r : k # i => x[k] = r[k]
    BY <1>1, ReplaceFacts
  <1>3. IsFiniteSet(E) /\ Cardinality(E) \in Nat
    BY EntriesFacts
  <1>4. q = SubSeq(x, 1, Len(x) - 1)
    BY <1>2 DEF Removed
  <1> HIDE DEF n, x, q
  <1>5. DOMAIN q = 1 .. n - 1 /\ \A k \in 1 .. n - 1 : q[k] = x[k]
    <2>1. x # <<>>
      BY <1>1, <1>2
    <2> QED
      BY <1>2, <1>4, <2>1, PopFacts
  <1>6. CASE t = s
    <2>1. Entries(q, t) = E \ {i}
      <3>1. CASE i = n
        BY <1>1, <1>2, <1>5, <1>6, <3>1 DEF Entries
      <3>2. CASE i # n
        <4>1. r[n] # s
          BY <1>1, <3>2
        <4> QED
          BY <1>1, <1>2, <1>5, <1>6, <3>2, <4>1 DEF Entries
      <3> QED
        BY <3>1, <3>2
    <2>2. i \in E
      BY <1>6 DEF Entries
    <2> HIDE DEF E
    <2>3. Cardinality(E \ {i}) = Cardinality(E) - 1
      BY <1>3, <2>2, FS_RemoveElement
    <2>4. Cardinality(E \ {i}) = Cardinality(E) - IF t = s THEN 1 ELSE 0
      BY <1>3, <1>6, <2>3
    <2> QED
      BY <2>1, <2>4 DEF E, q
  <1>7. CASE t # s /\ r[n] # t
    <2>1. Entries(q, t) = E
      BY <1>1, <1>2, <1>5, <1>7 DEF Entries
    <2> QED
      BY <1>3, <1>7, <2>1 DEF q
  <1>8. CASE t # s /\ r[n] = t
    <2>1. i # n
      BY <1>8
    <2>2. Entries(q, t) = (E \ {n}) \cup {i}
      BY <1>1, <1>2, <1>5, <1>8, <2>1 DEF Entries
    <2>3. n \in E /\ i \notin E
      BY <1>1, <1>8 DEF Entries
    <2> HIDE DEF E
    <2>4. IsFiniteSet(E \ {n}) /\ Cardinality(E \ {n}) = Cardinality(E) - 1
      BY <1>3, <2>3, FS_RemoveElement
    <2>5. Cardinality((E \ {n}) \cup {i}) = Cardinality(E) - 1 + 1
      BY <2>3, <2>4, FS_AddElement
    <2>6. Cardinality((E \ {n}) \cup {i}) = Cardinality(E) - IF t = s THEN 1 ELSE 0
      BY <1>3, <1>8, <2>5
    <2> QED
      BY <2>2, <2>6 DEF E, q
  <1> QED
    BY <1>6, <1>7, <1>8

LEMMA RootSeen ==
    ASSUME IncludesStore, IncludesStore', NEW s \in Slots, Root(s) \/ Unroot(s)
    PROVE  Abstract!Pin(s) \/ Abstract!Unpin(s)
  <1>1. /\ roots \in Seq(Slots) /\ phase = "run" /\ phase' = "run"
        /\ req = NULL /\ req' = NULL /\ heap' = heap /\ slot' = slot
    BY DEF Root, Unroot, Idle, IncludesStore, IInv, Always, TypeOK
  <1>2. Store_var' = Store_var /\ Store_kids' = Store_kids
    <2>1. \A a \in Live : Kept(a)
      BY <1>1, LiveFacts DEF LiveClosed, Kept
    <2> QED
      BY <1>1, <2>1, StoreKept
  <1>3. /\ Store_pins = [t \in Slots |-> Cardinality(Entries(roots, t))]
        /\ Store_pins' = [t \in Slots |-> Cardinality(Entries(roots', t))]
    BY DEF Store_pins, Count, Entries
  <1>4. \A t \in Slots : Store_pins[t] \in Nat
    BY <1>1, <1>3, EntriesFacts
  <1>5. CASE Root(s)
    <2>1. roots' = Append(roots, s)
      BY <1>5 DEF Root
    <2>2. \A t \in Slots : Store_pins'[t] = Store_pins[t] + IF t = s THEN 1 ELSE 0
      BY <1>1, <1>3, <2>1, EntriesAppended
    <2>3. Store_pins' = [Store_pins EXCEPT ![s] = @ + 1]
      BY <1>3, <1>4, <2>2
    <2> QED
      BY <1>1, <1>2, <2>3, Zenon DEF Abstract!Pin
  <1>6. CASE Unroot(s)
    <2> DEFINE Last(i) == /\ roots[i] = s
                          /\ \A j \in DOMAIN roots : roots[j] = s => j <= i
               i == CHOOSE i \in DOMAIN roots : Last(i)
    <2>1. roots' = Removed(roots, i) /\ \E j \in DOMAIN roots : roots[j] = s
      BY <1>6 DEF Unroot, Rooted, Removed
    <2>2. i \in DOMAIN roots /\ Last(i)
      <3>1. \E j \in DOMAIN roots : Last(j)
        BY <1>1, <2>1, LastEntry
      <3> QED
        BY <3>1, Zenon
    <2> HIDE DEF i
    <2>3. \A t \in Slots : Cardinality(Entries(Removed(roots, i), t)) =
                               Cardinality(Entries(roots, t)) - IF t = s THEN 1 ELSE 0
      BY <1>1, <2>2, EntriesRemoved
    <2>4. \A t \in Slots : Store_pins'[t] = Store_pins[t] - IF t = s THEN 1 ELSE 0
      BY <1>3, <2>1, <2>3
    <2> HIDE DEF Last
    <2>5. Store_pins' = [Store_pins EXCEPT ![s] = @ - 1]
      BY <1>3, <1>4, <2>4
    <2>6. Store_pins[s] > 0
      BY <1>1, <1>3, <2>1, EntriesFacts
    <2> QED
      BY <1>1, <1>2, <2>5, <2>6, Zenon DEF Abstract!Unpin
  <1> QED
    BY <1>5, <1>6

(***************************************************************************)
(* ... the objects, ...                                                    *)
(***************************************************************************)
LEMMA StoreSeen ==
    ASSUME IncludesStore, IncludesStore',
           NEW o \in Slots, NEW v \in Slots, NEW i \in 1 .. 3, Store(o, i, v)
    PROVE  /\ UNCHANGED <<Store_var, Store_pins, req>>
           /\ \E id \in Ids, child \in Ids \cup {NULL} : Abstract!Mutate(id, i, child)
  <1>1. PICK x : x = slot[o]
    OBVIOUS
  <1>2. PICK y : y = slot[v]
    OBVIOUS
  <1> DEFINE id == heap[x].id
             child == IdAt(y)
             ids == IdKids(x)
             k == [Store_kids EXCEPT ![id] = [ids EXCEPT ![i] = child]]
  <1>3. /\ phase = "run" /\ phase' = "run" /\ req = NULL
        /\ UNCHANGED <<act, slot, roots, phase, req>>
        /\ x \in Live /\ y \in Live \cup {NULL} /\ i \in DOMAIN heap[x].kids
        /\ heap'[x].kids = [heap[x].kids EXCEPT ![i] = y] /\ heap'[x].id = heap[x].id
        /\ \A a \in DOMAIN heap : a # x => heap'[a] = heap[a]
        /\ Live' \subseteq Live
    BY <1>1, <1>2, StoreEffect
  <1>4. Readable /\ Live \subseteq DOMAIN heap
    BY <1>3, InvReadable, LiveFacts DEF LiveClosed
  <1>5. \A a \in DOMAIN heap : /\ heap'[a].id = heap[a].id /\ a # NULL
                               /\ heap[a].id \in Ids
    BY <1>3, <1>4 DEF Readable
  <1>6. /\ ids \in Seq(Ids \cup {NULL}) /\ DOMAIN ids = DOMAIN heap[x].kids
        /\ ids # Abstract!Free
        /\ \A j \in DOMAIN heap[x].kids : /\ heap[x].kids[j] \in DOMAIN heap \cup {NULL}
                                         /\ ids[j] = IdAt(heap[x].kids[j])
    BY <1>3, <1>4, IdKidsFacts
  <1>7. /\ Store_kids \in [Ids -> Seq(Ids \cup {NULL})]
        /\ \A a \in Live : Store_kids[heap[a].id] = IdKids(a)
    BY <1>3, InvDescribes DEF Describes
  <1>8. id \in Ids /\ child \in Ids \cup {NULL}
    BY <1>3, <1>4, <1>5 DEF IdAt
  <1>9. child # NULL => Store_kids[child] # Abstract!Free
    BY <1>3, <1>4, <1>5, <1>7, IdKidsFacts DEF IdAt
  <1>10. /\ [ids EXCEPT ![i] = child] \in Seq(Ids \cup {NULL})
         /\ DOMAIN [ids EXCEPT ![i] = child] = DOMAIN ids
    <2> HIDE DEF ids, child
    <2> QED
      BY <1>3, <1>6, <1>8, ReplaceFacts
  <1>11. IdKids(x)' = [ids EXCEPT ![i] = child]
    <2>1. IdKids(x)' = [j \in DOMAIN heap'[x].kids |-> IdAt(heap[x].kids[j])']
      BY DEF IdKids
    <2>2. DOMAIN heap'[x].kids = DOMAIN heap[x].kids
      BY <1>3
    <2>3. \A j \in DOMAIN heap[x].kids :
              heap'[x].kids[j] = IF j = i THEN y ELSE heap[x].kids[j]
      BY <1>3
    <2>4. y \in DOMAIN heap \cup {NULL}
      BY <1>3, <1>4
    <2>5. \A j \in DOMAIN heap[x].kids :
              IdAt(heap[x].kids[j])' = IF j = i THEN child ELSE ids[j]
      BY <1>5, <1>6, <2>3, <2>4 DEF IdAt
    <2> HIDE DEF ids, child
    <2> QED
      BY <1>6, <2>1, <2>2, <2>5
  <1>12. \A a \in Live : a # x => heap[a].id # id /\ IdKids(a)' = IdKids(a)
    <2> SUFFICES ASSUME NEW a \in Live, a # x PROVE heap[a].id # id /\ IdKids(a)' = IdKids(a)
      OBVIOUS
    <2>1. heap[a].id # id
      BY <1>3, RunEmpty DEF IncludesStore, StoreInv, IdsDistinct
    <2>2. IdKids(a)' = IdKids(a)
      BY <1>3, <1>4, <1>5, KidsKept
    <2> QED
      BY <2>1, <2>2
  <1>13. /\ k \in [Ids -> Seq(Ids \cup {NULL})] /\ k[id] = [ids EXCEPT ![i] = child]
         /\ \A other \in Ids : other # id => k[other] = Store_kids[other]
    <2> HIDE DEF id, ids, child
    <2> QED
      BY <1>7, <1>8, <1>10
  <1>14. k = [Store_kids EXCEPT ![id][i] = child]
    BY <1>3, <1>7
  <1> HIDE DEF k
  <1>15. \A a \in Live' : k[heap'[a].id] = IdKids(a)'
    <2> SUFFICES ASSUME NEW a \in Live PROVE k[heap[a].id] = IdKids(a)'
      BY <1>3, <1>4, <1>5
    <2>1. CASE a = x
      BY <1>11, <1>13, <2>1
    <2>2. CASE a # x
      BY <1>4, <1>5, <1>7, <1>12, <1>13, <2>2
    <2> QED
      BY <2>1, <2>2
  <1>16. Store_kids' = Abstract!Trim(Store_var', k)
    BY <1>3, <1>13, <1>15, ReadableAfter, StoreReadAfter DEF ReadableBeforeExit
  <1>17. Store_var' = Store_var /\ Store_pins' = Store_pins
    <2>1. Store_var' = Store_var
      BY <1>3, <1>5, VariablesLive DEF Store_var, IdAt
    <2> QED
      BY <1>3, <2>1 DEF Store_pins, Count
  <1>18. Store_kids[id] # Abstract!Free /\ i \in DOMAIN Store_kids[id]
    BY <1>3, <1>6, <1>7
  <1>19. Abstract!Mutate(id, i, child)
    BY <1>3, <1>9, <1>14, <1>16, <1>17, <1>18, Zenon DEF Abstract!Mutate
  <1> QED
    BY <1>3, <1>8, <1>17, <1>19

LEMMA AllocSeen ==
    ASSUME IncludesStore, IncludesStore', NEW s \in Slots, Waiting,
           NEW from \in Sources(req.id), AllocOk(s, from)
    PROVE  \E id \in Ids : \E source \in [1 .. Arity[id] -> Slots \cup {NULL}] :
               Abstract!New(s, id, source)
  <1>1. PICK b : b = Block(act)
    OBVIOUS
  <1>2. PICK id : id = req.id
    OBVIOUS
  <1> DEFINE ids == [i \in DOMAIN from |-> IF from[i] = NULL THEN NULL ELSE Store_var[from[i]]]
             k == [Store_kids EXCEPT ![id] = ids]
  <1>3. /\ phase = "run" /\ phase' = "run" /\ req # NULL /\ id \in Ids /\ req' = NULL
        /\ roots' = roots /\ MayBuild(from)
        /\ slot' = [slot EXCEPT ![s] = b] /\ b # NULL /\ b \notin DOMAIN heap
        /\ \A a \in DOMAIN heap : heap'[a] = heap[a]
        /\ heap'[b].id = id /\ heap'[b].kids = Contents(from)
        /\ Live \subseteq DOMAIN heap /\ Live' \subseteq Live \cup {b}
    BY <1>1, <1>2, AllocEffect
  <1>4. /\ slot \in [Slots -> Pointers] /\ roots \in Seq(Slots)
        /\ from \in [1 .. Arity[id] -> Slots \cup {NULL}] /\ Arity[id] \in Nat
    <2>1. slot \in [Slots -> Pointers] /\ roots \in Seq(Slots)
      BY DEF IncludesStore, IInv, Always, TypeOK
    <2>2. Arity[id] \in Nat
      BY <1>3, GcAssumption
    <2> QED
      BY <1>2, <2>1, <2>2 DEF Sources
  <1>5. Readable
    BY <1>3, InvReadable
  <1>6. \A i \in DOMAIN from : from[i] # NULL =>
            from[i] \in Slots /\ Rooted(from[i]) /\ slot[from[i]] \in Live
            /\ slot[from[i]] # NULL
    BY <1>3, <1>4, VariablesLive DEF MayBuild
  <1>7. \A i \in DOMAIN from : from[i] = NULL \/ Store_pins[from[i]] > 0
    <2>1. \A t \in Slots : Rooted(t) => Store_pins[t] > 0
      BY <1>4, EntriesFacts DEF Store_pins, Count, Entries, Rooted
    <2> QED
      BY <1>6, <2>1
  <1>8. \A a \in Live : /\ a # NULL /\ heap[a].id \in Ids /\ heap[a].id # id
                        /\ heap'[a] = heap[a]
    BY <1>2, <1>3, <1>5 DEF Readable, RequestFresh, IncludesStore, StoreInv
  <1>9. Store_kids[id] = Abstract!Free
    BY <1>3, <1>8, InvDescribes
  <1>10. Store_var' = [Store_var EXCEPT ![s] = id]
    <2>1. \A t \in Slots : slot'[t] = IF t = s THEN b ELSE slot[t]
      BY <1>3, <1>4
    <2>2. \A t \in Slots : IdAt(slot[t])' = IF t = s THEN id ELSE IdAt(slot[t])
      BY <1>3, <1>8, <2>1, VariablesLive DEF IdAt
    <2> QED
      BY <2>2 DEF Store_var
  <1>11. ids \in Seq(Ids \cup {NULL})
    <2>1. \A i \in DOMAIN from : ids[i] \in Ids \cup {NULL}
      BY <1>6, <1>8 DEF Store_var, IdAt
    <2>2. ids \in [1 .. Arity[id] -> Ids \cup {NULL}]
      BY <1>4, <2>1
    <2> HIDE DEF ids
    <2> QED
      BY <1>4, <2>2, FunctionIsSeq
  <1>12. IdKids(b)' = ids
    <2>1. IdKids(b)' = [i \in DOMAIN heap'[b].kids |-> IdAt(heap[b].kids[i])']
      BY DEF IdKids
    <2>2. DOMAIN heap'[b].kids = DOMAIN from
      BY <1>3 DEF Contents
    <2>3. \A i \in DOMAIN from : heap'[b].kids[i] = IF from[i] = NULL THEN NULL ELSE slot[from[i]]
      BY <1>3 DEF Contents
    <2>4. \A i \in DOMAIN from : IdAt(heap[b].kids[i])' = ids[i]
      BY <1>6, <1>8, <2>3 DEF IdAt, Store_var
    <2> QED
      BY <2>1, <2>2, <2>4
  <1>13. \A a \in Live : IdKids(a)' = IdKids(a)
    BY <1>3, <1>8, KidsKept
  <1>14. /\ Store_kids \in [Ids -> Seq(Ids \cup {NULL})]
         /\ \A a \in Live : Store_kids[heap[a].id] = IdKids(a)
    BY <1>3, InvDescribes DEF Describes
  <1>15. /\ k \in [Ids -> Seq(Ids \cup {NULL})] /\ k[id] = ids
         /\ \A other \in Ids : other # id => k[other] = Store_kids[other]
    <2> HIDE DEF ids
    <2> QED
      BY <1>3, <1>11, <1>14
  <1> HIDE DEF ids, k
  <1>16. \A a \in Live' : k[heap'[a].id] = IdKids(a)'
    <2> SUFFICES ASSUME NEW a \in Live \cup {b} PROVE k[heap'[a].id] = IdKids(a)'
      BY <1>3
    <2>1. CASE a = b
      BY <1>3, <1>12, <1>15, <2>1
    <2>2. CASE a \in Live
      BY <1>8, <1>13, <1>14, <1>15, <2>2
    <2> QED
      BY <2>1, <2>2
  <1>17. Store_kids' = Abstract!Trim(Store_var', k)
    BY <1>3, <1>15, <1>16, ReadableAfter, StoreReadAfter DEF ReadableBeforeExit
  <1>18. Store_pins' = Store_pins
    BY <1>3 DEF Store_pins, Count
  <1>19. Abstract!New(s, id, from)
    BY <1>3, <1>7, <1>9, <1>10, <1>17, <1>18, Zenon DEF Abstract!New, ids, k
  <1> QED
    BY <1>3, <1>4, <1>19

(***************************************************************************)
(* ... and the end of a collection.                                        *)
(***************************************************************************)
LEMMA FinishSeen ==
    ASSUME IncludesStore, IncludesStore', FinishCollect
    PROVE  Abstract!Forget
  <1>1. /\ phase = "assign" /\ phase' = "run" /\ req # NULL /\ roots' = roots
        /\ slot' = [s \in Slots |-> IF Rooted(s) THEN slot[s] ELSE NULL]
        /\ DOMAIN heap' = In(inactive) /\ \A a \in In(inactive) : heap'[a] = heap[a]
        /\ Live' \subseteq Live /\ Live' \subseteq In(inactive)
    BY FinishEffect
  <1>2. roots \in Seq(Slots)
    BY DEF IncludesStore, IInv, Always, TypeOK
  <1>3. \A s \in Slots : Rooted(s) <=> Store_pins[s] > 0
    BY <1>2, EntriesFacts DEF Store_pins, Count, Entries, Rooted
  <1>4. \A s \in Slots : Rooted(s) => slot[s] \in In(inactive) \cup {NULL}
    <2>1. Held' \subseteq DOMAIN heap'
      BY DEF IncludesStore, StoreInv, SlotsKnown
    <2> QED
      BY <1>1, <2>1 DEF Held
  <1>5. Store_var' = [s \in Slots |-> IF Store_pins[s] > 0 THEN Store_var[s] ELSE NULL]
    <2>1. \A s \in Slots : IdAt(slot[s])' = IF Rooted(s) THEN IdAt(slot[s]) ELSE NULL
      BY <1>1, <1>4 DEF IdAt
    <2> QED
      BY <1>3, <2>1 DEF Store_var
  <1>6. \A a \in Live' : IdKids(a)' = IdKids(a)
    <2> SUFFICES ASSUME NEW a \in In(inactive) PROVE IdKids(a)' = IdKids(a)
      BY <1>1
    <2>1. \A i \in DOMAIN heap[a].kids : heap[a].kids[i] \in In(inactive) \cup {NULL}
      BY <1>1 DEF IncludesStore, IInv, CopyComplete
    <2>2. \A i \in DOMAIN heap[a].kids : IdAt(heap[a].kids[i])' = IdAt(heap[a].kids[i])
      BY <1>1, <2>1 DEF IdAt
    <2> QED
      BY <1>1, <2>2 DEF IdKids
  <1>7. Store_kids' = Abstract!Trim(Store_var', Store_kids)
    BY <1>1, <1>6, KidsTrimmed
  <1>8. Store_pins' = Store_pins
    BY <1>1 DEF Store_pins, Count
  <1> QED
    BY <1>1, <1>5, <1>7, <1>8, Zenon DEF Abstract!Forget

-----------------------------------------------------------------------------
LEMMA StepSeen ==
    IncludesStore /\ IncludesStore' /\ [Next]_vars => [Abstract!StoreNext]_(Abstract!storeVars)
  <1> SUFFICES ASSUME IncludesStore, IncludesStore', [Next]_vars
               PROVE  Abstract!StoreNext \/ UNCHANGED Abstract!storeVars
    OBVIOUS
  <1>1. ASSUME StoreUnchanged, req' = req PROVE UNCHANGED Abstract!storeVars
    BY <1>1 DEF StoreUnchanged, Abstract!storeVars
  <1>2. CASE Client
    <2>1. ASSUME NEW s \in Slots, Root(s) \/ Unroot(s) PROVE Abstract!StoreNext
      BY <2>1, RootSeen, Zenon DEF Abstract!StoreNext
    <2>2. ASSUME NEW s \in Slots, NEW p \in Live \cup {NULL}, Assign(s, p)
          PROVE  Abstract!StoreNext
      BY <2>2, AssignSeen, Zenon DEF Abstract!StoreNext
    <2>3. ASSUME NEW s \in Slots, NEW t \in Slots, Assign(s, slot[t]) \/ Load(s, t)
          PROVE  Abstract!StoreNext
      BY <2>2, <2>3, MovedIsLive
    <2>4. ASSUME NEW o \in Slots, NEW v \in Slots, NEW i \in 1 .. 3, Store(o, i, v)
          PROVE  Abstract!StoreNext
      <3>1. UNCHANGED <<Store_var, Store_pins, req # NULL>>
        BY <2>4, StoreSeen
      <3> QED
        BY <2>4, <3>1, StoreSeen, Zenon DEF Abstract!StoreNext
    <2>5. CASE (\E id \in Ids : Request(id)) \/ RequestCollect
      BY <2>5, CallSeen, Zenon DEF Abstract!StoreNext
    <2> QED
      BY <1>2, <2>1, <2>2, <2>3, <2>4, <2>5 DEF Client
  <1>3. CASE Allocate
    <2>1. ASSUME Waiting, NEW s \in Slots, NEW from \in Sources(req.id), AllocOk(s, from)
          PROVE  Abstract!StoreNext
      BY <2>1, AllocSeen, Zenon DEF Abstract!StoreNext
    <2>2. CASE AllocCollect \/ AllocGrow
      BY <2>2, CallSeen, Zenon DEF Abstract!StoreNext
    <2> QED
      BY <1>3, <2>1, <2>2 DEF Allocate
  <1>4. CASE Collect
    <2>1. CASE FinishCollect
      BY <2>1, FinishSeen, Zenon DEF Abstract!StoreNext
    <2>2. CASE AssignRoot
      BY <1>1, <2>2, AssignUnseen DEF AssignRoot
    <2>3. CASE ~FinishCollect /\ ~AssignRoot
      <3>1. phase \in {"copy", "clear"} /\ req' = req
        BY <1>4, <2>3
           DEF Collect, CopyRoot, SkipRoot, CopyChild, CopyingChild, CopyObject, Evacuate,
               Abandon, ResizeFails, WriteChild, CopyReturn, CopyDone, ClearRoot, ClearChild,
               ClearDone
      <3> QED
        BY <1>1, <3>1, CollectUnseen
    <2> QED
      BY <2>1, <2>2, <2>3
  <1>5. CASE Exited \/ UNCHANGED vars
    <2>1. heap' = heap /\ slot' = slot /\ roots' = roots /\ req' = req
      BY <1>5 DEF Exited, vars
    <2> QED
      BY <1>1, <2>1, HeapAndSlotsSame
  <1> QED
    BY <1>2, <1>3, <1>4, <1>5 DEF Next

LEMMA InitSeen == Init => Abstract!StoreInit
  <1> SUFFICES ASSUME Init PROVE Abstract!StoreInit
    OBVIOUS
  <1>1. Live = {} /\ req = NULL
    BY InitEmpty
  <1>2. Store_var = [s \in Slots |-> NULL]
    BY DEF Init, Store_var, IdAt
  <1>3. Store_pins = [s \in Slots |-> 0]
    <2>1. roots = <<>> /\ <<>> \in Seq(Slots) /\ DOMAIN <<>> = {}
      BY DEF Init
    <2>2. \A s \in Slots : Count(s) = 0
      BY <2>1, FS_EmptySet DEF Count
    <2> QED
      BY <2>2 DEF Store_pins
  <1>4. Store_kids = [id \in Ids |-> Abstract!Free]
    BY <1>1 DEF Store_kids, KidsIn, Abstract!Free
  <1> QED
    BY <1>1, <1>2, <1>3, <1>4, Zenon DEF Abstract!StoreInit

\* Collecting, growing and restarting are invisible: what the client sees of its
\* rooted variables, and of the objects they lead to, is a store in which nothing
\* moves.
THEOREM ImplementsTheStore == Spec => ImplementsStore
  <1>1. Init /\ [][Next]_vars => Abstract!StoreInit /\ [][Abstract!StoreNext]_(Abstract!storeVars)
    BY InitSeen, StepSeen, InitEstablishesStore, StepKeepsStore, PTL
  <1>2. Spec => Init /\ [][Next]_vars
    BY PTL DEF Spec
  <1> QED
    BY <1>1, <1>2, PTL DEF ImplementsStore, Abstract!StoreSpec

=============================================================================
