------------------------------ MODULE GcProofs ------------------------------
(***************************************************************************)
(* The safety of the collector for every set of variables and objects,     *)
(* every arity, size and alignment, and every word size: each action of    *)
(* Gc.tla keeps the invariant IInv.                                        *)
(***************************************************************************)
EXTENDS GcInvariant, CommonFacts

-----------------------------------------------------------------------------
(***************************************************************************)
(* Facts the proofs rest on: the types of what the heap holds, and what    *)
(* allocating an object does to the layout.                                *)
(***************************************************************************)
(***************************************************************************)
(* The types of an object and of its fields.                               *)
(***************************************************************************)
LEMMA ObjectTypes ==
    ASSUME TypeOK, NEW a \in DOMAIN heap
    PROVE  /\ a \in Places /\ a # NULL /\ a # Garbage
           /\ a[1] \in Spaces /\ a[2] \in Nat /\ a = <<a[1], a[2]>>
           /\ heap[a] \in Objects
           /\ heap[a].id \in Ids
           /\ heap[a].kids \in Seq(Pointers \cup {Garbage})
           /\ DOMAIN heap[a].kids = 1 .. Len(heap[a].kids)
           /\ Len(heap[a].kids) \in Nat
           /\ heap[a].fwd \in Pointers
  BY GcAssumption DEF TypeOK, Places, Spaces, Objects

LEMMA SpaceFacts ==
    ASSUME TypeOK
    PROVE  /\ act \in Spaces /\ inactive \in Spaces /\ inactive # act
           /\ \A s \in Spaces : s = act \/ s = inactive
           /\ inactive = 0 \/ inactive = 1
           /\ \A a \in DOMAIN heap : a \in In(act) \/ a \in In(inactive)
           /\ \A a \in In(act) : a \in DOMAIN heap /\ a \notin In(inactive)
           /\ \A a \in In(inactive) : a \in DOMAIN heap /\ a \notin In(act)
  BY ObjectTypes DEF TypeOK, Spaces, inactive, In

LEMMA ArenaTypes ==
    ASSUME TypeOK, Layout, NEW s \in Spaces
    PROVE  /\ arena[s] \in Arenas
           /\ arena[s].base \in Nat /\ arena[s].next \in Nat /\ arena[s].end \in Nat
           /\ arena[s].base <= arena[s].next /\ arena[s].next <= arena[s].end
           /\ ArenaCapacity(arena[s]) \in Nat
  BY DEF TypeOK, Layout, Arenas, ArenaCapacity

-----------------------------------------------------------------------------
(***************************************************************************)
(* The set of what some nodes lead to contains them, is closed, and is the *)
(* least such set.                                                         *)
(***************************************************************************)
LEMMA ClosureFacts ==
    ASSUME NEW next, NEW S,
           S \subseteq DOMAIN next, \A m \in DOMAIN next : next[m] \subseteq DOMAIN next
    PROVE  /\ S \subseteq Closure(next, S)
           /\ Closure(next, S) \subseteq DOMAIN next
           /\ \A m \in Closure(next, S) : next[m] \subseteq Closure(next, S)
  <1> DEFINE led == UNION {next[m] : m \in DOMAIN next}
             Closed(T) == \A m \in S \cup T : next[m] \subseteq T
             C == Closure(next, S)
  <1>1. led \subseteq DOMAIN next
    OBVIOUS
  <1>2. \A n : n \in C <=> n \in S \/ (n \in led /\ \A T \in SUBSET led : Closed(T) => n \in T)
    BY DEF Closure
  <1>3. ASSUME NEW m \in C, NEW n \in next[m]
        PROVE  n \in C
    <2>1. n \in led
      BY <1>1, <1>2, <1>3
    <2>2. ASSUME NEW T \in SUBSET led, Closed(T)
          PROVE  n \in T
      <3>1. m \in S \cup T
        BY <1>2, <2>2
      <3> QED
        BY <1>3, <2>2, <3>1
    <2> QED
      BY <1>2, <2>1, <2>2
  <1> HIDE DEF C, Closed
  <1> QED
    BY <1>1, <1>2, <1>3 DEF C

LEMMA ClosureLeast ==
    ASSUME NEW next, NEW S, NEW T,
           S \subseteq DOMAIN next, \A m \in DOMAIN next : next[m] \subseteq DOMAIN next,
           S \subseteq T, \A m \in T \cap DOMAIN next : next[m] \subseteq T
    PROVE  Closure(next, S) \subseteq T
  <1> DEFINE led == UNION {next[m] : m \in DOMAIN next}
             U == T \cap led
  <1>1. led \subseteq DOMAIN next /\ U \in SUBSET led
    OBVIOUS
  <1>2. \A m \in S \cup U : next[m] \subseteq U
    OBVIOUS
  <1>3. ASSUME NEW n \in Closure(next, S), n \notin S
        PROVE  n \in U
    <2>1. \A V \in SUBSET led : (\A m \in S \cup V : next[m] \subseteq V) => n \in V
      BY <1>3 DEF Closure
    <2> QED
      BY <1>1, <1>2, <2>1
  <1> QED
    BY <1>3

-----------------------------------------------------------------------------
(***************************************************************************)
(* A request that fits gets a place of its own, beyond every other object  *)
(* of that space, and leaves the arena in order.                           *)
(***************************************************************************)
LEMMA BlockFacts ==
    ASSUME TypeOK, Layout, NEW s \in Spaces, NEW id \in Ids, Fits(s, id)
    PROVE  /\ Block(s) \in Places /\ Block(s)[1] = s /\ Block(s)[2] \in Nat
           /\ Block(s) \notin DOMAIN heap
           /\ \A a \in DOMAIN heap :
                 a[1] = s => a[2] + Size[heap[a].id] <= Block(s)[2]
           /\ \A a \in DOMAIN heap : a[1] = s => a[2] < Block(s)[2]
           /\ (arena[s].base + Block(s)[2]) % Align = 0
           /\ Bump(s, id) \in [Spaces -> Arenas]
           /\ Bump(s, id)[s].base = arena[s].base
           /\ Bump(s, id)[s].next - arena[s].base = Block(s)[2] + Size[id]
           /\ arena[s].base <= Bump(s, id)[s].next
           /\ arena[s].next <= Bump(s, id)[s].next
           /\ Bump(s, id)[s].next <= Bump(s, id)[s].end
           /\ \A t \in Spaces : t # s => Bump(s, id)[t] = arena[t]
  <1> DEFINE a == arena[s]
             pad == ArenaPadding(a, Align)
             off == a.next + pad - a.base
             size == Size[id]
  <1>1. /\ a \in Arenas /\ a.base \in Nat /\ a.next \in Nat /\ a.end \in Nat
        /\ a.base <= a.next /\ a.next <= a.end
    BY ArenaTypes
  <1>2. Align \in Nat \ {0} /\ size \in Nat \ {0}
    BY GcAssumption
  <1>3. pad \in Nat /\ pad < Align
    BY <1>1, <1>2, PaddingBounds DEF ArenaPadding
  <1>4. 1 * size <= a.end - a.next - pad
    <2>1. a.end - a.next >= pad /\ 1 <= (a.end - a.next - pad) \div size
      BY DEF Fits, ArenaFits
    <2>2. a.end - a.next - pad \in Nat
      BY <1>1, <1>3, <2>1
    <2> QED
      BY <1>2, <2>1, <2>2, QuotientGuardsProduct
  <1>5. (a.next + pad) % Align = 0
    BY <1>1, <1>2, PaddingAligns DEF ArenaPadding
  <1>6. Block(s) = <<s, off>> /\ off \in Nat
    BY <1>1, <1>3 DEF Block, ArenaBlock
  <1>7. Bump(s, id) = [arena EXCEPT ![s] = [a EXCEPT !.next = a.next + pad + 1 * size]]
    BY DEF Bump, ArenaBump, ArenaBlock
  <1>8. arena \in [Spaces -> Arenas]
    BY DEF TypeOK
  <1> HIDE DEF pad, size
  <1>9. a.base + off = a.next + pad
    BY <1>1, <1>3
  <1>10. \A x \in DOMAIN heap :
            x[1] = s => x[2] \in Nat /\ Size[heap[x].id] \in Nat \ {0}
                        /\ x[2] + Size[heap[x].id] <= a.next - a.base
    BY ObjectTypes, GcAssumption DEF Layout
  <1>11. \A x \in DOMAIN heap : x[1] = s => x[2] + Size[heap[x].id] <= off /\ x[2] < off
    BY <1>1, <1>3, <1>10
  <1>12. Block(s) \notin DOMAIN heap
    BY <1>6, <1>11
  <1>13. /\ Bump(s, id) \in [Spaces -> Arenas]
         /\ Bump(s, id)[s].base = a.base /\ Bump(s, id)[s].end = a.end
         /\ Bump(s, id)[s].next = a.next + pad + size
         /\ \A t \in Spaces : t # s => Bump(s, id)[t] = arena[t]
    BY <1>1, <1>2, <1>3, <1>7, <1>8 DEF Arenas
  <1> QED
    <2>1. /\ Block(s) \in Places /\ Block(s)[1] = s /\ Block(s)[2] = off
      BY <1>6 DEF Places
    <2>2. (a.base + off) % Align = 0
      BY <1>5, <1>9
    <2>3. /\ Bump(s, id)[s].next - a.base = off + size
          /\ a.base <= Bump(s, id)[s].next
          /\ a.next <= Bump(s, id)[s].next
          /\ Bump(s, id)[s].next <= Bump(s, id)[s].end
      BY <1>1, <1>2, <1>3, <1>4, <1>9, <1>13
    <2> QED
      BY <1>6, <1>11, <1>12, <1>13, <2>1, <2>2, <2>3 DEF size

(***************************************************************************)
(* The layout survives an allocation, ...                                  *)
(***************************************************************************)
LEMMA LayoutGrows ==
    ASSUME TypeOK, Layout, NEW s \in Spaces, NEW id \in Ids, Fits(s, id),
           arena' = Bump(s, id),
           DOMAIN heap' = DOMAIN heap \cup {Block(s)},
           \A a \in DOMAIN heap : heap'[a].id = heap[a].id,
           heap'[Block(s)].id = id
    PROVE  Layout'
  <1> DEFINE b == Block(s)
             ar == Bump(s, id)
  <1>1. /\ b[1] = s /\ b[2] \in Nat /\ b \notin DOMAIN heap
        /\ \A a \in DOMAIN heap : a[1] = s => a[2] + Size[heap[a].id] <= b[2]
        /\ (arena[s].base + b[2]) % Align = 0
        /\ ar[s].base = arena[s].base
        /\ ar[s].next - arena[s].base = b[2] + Size[id]
        /\ arena[s].base <= ar[s].next
        /\ arena[s].next <= ar[s].next
        /\ ar[s].next <= ar[s].end
        /\ ar \in [Spaces -> Arenas]
        /\ \A t \in Spaces : t # s => ar[t] = arena[t]
    BY BlockFacts
  <1>2. \A t \in Spaces : /\ arena[t].base \in Nat /\ arena[t].next \in Nat
                          /\ ar[t].next \in Nat /\ ar[t].base = arena[t].base
                          /\ arena[t].next <= ar[t].next
    <2>1. \A t \in Spaces : arena[t].base \in Nat /\ arena[t].next \in Nat
      BY ArenaTypes
    <2>2. \A t \in Spaces : ar[t].next \in Nat
      BY <1>1 DEF Arenas
    <2> QED
      BY <1>1, <2>1, <2>2
  <1>3. \A a \in DOMAIN heap :
            a[1] \in Spaces /\ a[2] \in Nat /\ Size[heap[a].id] \in Nat \ {0}
    BY ObjectTypes, GcAssumption
  <1>4. Size[id] \in Nat \ {0} /\ \A a \in DOMAIN heap' : a \in DOMAIN heap \/ a = b
    BY GcAssumption
  <1> HIDE DEF b, ar
  <1>5. \A a \in DOMAIN heap' :
            /\ a[2] + Size[heap'[a].id] <= ar[a[1]].next - ar[a[1]].base
            /\ (ar[a[1]].base + a[2]) % Align = 0
    <2>1. ASSUME NEW a \in DOMAIN heap
          PROVE  /\ a[2] + Size[heap'[a].id] <= ar[a[1]].next - ar[a[1]].base
                 /\ (ar[a[1]].base + a[2]) % Align = 0
      <3>1. /\ a[2] + Size[heap[a].id] <= arena[a[1]].next - arena[a[1]].base
            /\ (arena[a[1]].base + a[2]) % Align = 0
        BY DEF Layout
      <3>2. heap'[a].id = heap[a].id
        OBVIOUS
      <3> QED
        BY <1>2, <1>3, <3>1, <3>2
    <2>2. heap'[b].id = id
      BY DEF b
    <2> QED
      BY <1>1, <1>4, <2>1, <2>2
  <1>6. \A t \in Spaces : ar[t].base <= ar[t].next /\ ar[t].next <= ar[t].end
    BY <1>1 DEF Layout
  <1>7. \A x, y \in DOMAIN heap' :
            x[1] = y[1] /\ x # y => \/ x[2] + Size[heap'[x].id] <= y[2]
                                    \/ y[2] + Size[heap'[y].id] <= x[2]
    <2>1. \A x, y \in DOMAIN heap :
            x[1] = y[1] /\ x # y => \/ x[2] + Size[heap'[x].id] <= y[2]
                                    \/ y[2] + Size[heap'[y].id] <= x[2]
      BY DEF Layout
    <2>2. \A x \in DOMAIN heap : x[1] = b[1] => x[2] + Size[heap'[x].id] <= b[2]
      BY <1>1
    <2> QED
      BY <1>4, <2>1, <2>2
  <1> QED
    BY <1>5, <1>6, <1>7 DEF Layout, ar

(***************************************************************************)
(* ... and the loss of objects, also when a space without objects gets     *)
(* another arena.                                                          *)
(***************************************************************************)
LEMMA LayoutShrinks ==
    ASSUME TypeOK, Layout,
           DOMAIN heap' \subseteq DOMAIN heap,
           \A a \in DOMAIN heap' : heap'[a].id = heap[a].id,
           NEW s \in Spaces,
           \A t \in Spaces : t = s \/ arena'[t] = arena[t],
           arena'[s] = arena[s] \/ \A a \in DOMAIN heap' : a[1] # s,
           arena'[s].base <= arena'[s].next /\ arena'[s].next <= arena'[s].end
    PROVE  Layout'
  <1>1. \A a \in DOMAIN heap' : a[1] \in Spaces /\ arena'[a[1]] = arena[a[1]]
    BY ObjectTypes
  <1>2. \A t \in Spaces : arena'[t].base <= arena'[t].next /\ arena'[t].next <= arena'[t].end
    BY DEF Layout
  <1>3. \A a \in DOMAIN heap' :
            /\ a[2] + Size[heap'[a].id] <= arena'[a[1]].next - arena'[a[1]].base
            /\ (arena'[a[1]].base + a[2]) % Align = 0
    BY <1>1 DEF Layout
  <1>4. \A x, y \in DOMAIN heap' :
            x[1] = y[1] /\ x # y => \/ x[2] + Size[heap'[x].id] <= y[2]
                                    \/ y[2] + Size[heap'[y].id] <= x[2]
    BY DEF Layout
  <1> QED
    BY <1>2, <1>3, <1>4 DEF Layout

(***************************************************************************)
(* The arena gc_arena_resize leaves behind.                                *)
(***************************************************************************)
LEMMA ResizedFacts ==
    ASSUME TypeOK, Layout, InactiveGrows
    PROVE  /\ Resized \in [Spaces -> Arenas]
           /\ Resized[inactive].base <= Resized[inactive].next
           /\ Resized[inactive].next <= Resized[inactive].end
           /\ \A t \in Spaces : t = inactive \/ Resized[t] = arena[t]
  <1> DEFINE capacity == ArenaCapacity(arena[inactive])
             grown == GrownCapacity(capacity, 1, InitialRegionSize)
  <1>1. inactive \in Spaces /\ arena \in [Spaces -> Arenas]
    BY SpaceFacts DEF TypeOK
  <1>2. capacity \in Nat
    BY <1>1, ArenaTypes
  <1>3. grown \in Nat
    <2>1. (2 * capacity) % SizeMod \in Nat /\ PtrdiffMax \div 1 \in Nat
      BY <1>2, SizeModAssumption DEF PtrdiffMax
    <2> QED
      BY <2>1, GcAssumption DEF GrownCapacity
  <1>4. Resized = [arena EXCEPT ![inactive] = ArenaInit(Address, grown)]
    BY <1>1 DEF Resized
  <1> HIDE DEF grown, capacity
  <1>5. /\ ArenaInit(Address, grown) \in Arenas
        /\ ArenaInit(Address, grown).base <= ArenaInit(Address, grown).next
        /\ ArenaInit(Address, grown).next <= ArenaInit(Address, grown).end
    BY <1>3, GcAssumption DEF ArenaInit, NoArena, Arenas
  <1> QED
    BY <1>1, <1>4, <1>5

-----------------------------------------------------------------------------
(***************************************************************************)
(* IInv is inductive.                                                      *)
(***************************************************************************)
LEMMA InitEstablishes == Init => IInv
  <1> SUFFICES ASSUME Init PROVE IInv
    OBVIOUS
  <1> DEFINE first == ArenaInit(Address, InitialRegionSize)
  <1>1. /\ first \in Arenas
        /\ first.base <= first.next /\ first.next <= first.end
    BY GcAssumption DEF ArenaInit, NoArena, Arenas
  <1> HIDE DEF first
  <1>2. DOMAIN heap = {} /\ roots = <<>> /\ stack = <<>> /\ phase = "run"
    BY DEF Init
  <1>3. TypeOK
    <2>1. arena \in [Spaces -> Arenas]
      BY <1>1 DEF Init, first
    <2>2. heap \in [DOMAIN heap -> Objects]
      BY <1>2 DEF Init
    <2>3. slot \in [Slots -> Pointers]
      BY DEF Init, Pointers
    <2> QED
      BY <1>2, <2>1, <2>2, <2>3 DEF Init, TypeOK, Spaces, Phases
  <1>4. Layout
    BY <1>1, <1>2 DEF Init, Layout, first
  <1>5. /\ WellFormed /\ OldObjectsWhole /\ CopiesUnforwarded
        /\ ForwardsLeadToCopies /\ CopyComplete
    BY <1>2 DEF WellFormed, OldObjectsWhole, CopiesUnforwarded, ForwardsLeadToCopies,
                CopyComplete, In
  <1>6. VariablesOld
    BY DEF Init, VariablesOld, OldPointers
  <1>7. RunInv /\ CopyInv /\ ClearInv /\ AssignInv
    BY <1>2 DEF Init, RunInv, CopyInv, ClearInv, AssignInv, In
  <1> QED
    BY <1>3, <1>4, <1>5, <1>6, <1>7 DEF IInv, Always

(***************************************************************************)
(* Outside a collection only these parts of the invariant are at stake.    *)
(***************************************************************************)
LEMMA RunKeeps ==
    ASSUME phase' = "run", stack' = <<>>, TypeOK', Layout', WellFormed', OldObjectsWhole',
           \A s \in Slots : slot'[s] \in OldPointers',
           In(inactive)' = {},
           \A a \in In(act)' : heap'[a].fwd = NULL,
           req' # NULL => req'.id \in Ids
    PROVE  IInv'
  BY DEF IInv, Always, VariablesOld, CopiesUnforwarded, ForwardsLeadToCopies, CopyComplete,
         RunInv, CopyInv, ClearInv, AssignInv

(***************************************************************************)
(* A step that leaves the objects alone.                                   *)
(***************************************************************************)
LEMMA HeapUnchanged ==
    ASSUME IInv, heap' = heap, act' = act
    PROVE  /\ In(act)' = In(act) /\ In(inactive)' = In(inactive)
           /\ OldPointers' = OldPointers /\ NewPointers' = NewPointers
           /\ WellFormed' /\ OldObjectsWhole' /\ CopiesUnforwarded'
           /\ arena' = arena => Layout'
  <1>1. In(act)' = In(act) /\ In(inactive)' = In(inactive)
    BY DEF In, inactive
  <1>2. OldPointers' = OldPointers /\ NewPointers' = NewPointers
    BY <1>1 DEF OldPointers, NewPointers
  <1>3. WellFormed' /\ (arena' = arena => Layout')
    BY DEF IInv, Always, WellFormed, Layout
  <1>4. OldObjectsWhole' /\ CopiesUnforwarded'
    BY <1>1, <1>2 DEF IInv, Always, OldObjectsWhole, CopiesUnforwarded
  <1> QED
    BY <1>1, <1>2, <1>3, <1>4

LEMMA RunFacts ==
    ASSUME IInv, phase = "run"
    PROVE  /\ stack = <<>> /\ In(inactive) = {}
           /\ \A a \in In(act) : heap[a].fwd = NULL
           /\ \A s \in Slots : slot[s] \in OldPointers
           /\ DOMAIN heap = In(act)
           /\ req # NULL => req.id \in Ids
  <1>1. /\ stack = <<>> /\ In(inactive) = {}
        /\ req # NULL => req.id \in Ids
        /\ \A a \in In(act) : heap[a].fwd = NULL
        /\ \A s \in Slots : slot[s] \in OldPointers
    BY DEF IInv, RunInv, VariablesOld
  <1>2. TypeOK
    BY DEF IInv, Always
  <1>3. DOMAIN heap = In(act)
    BY <1>1, <1>2, SpaceFacts
  <1> QED
    BY <1>1, <1>3

(***************************************************************************)
(* The client roots, unroots and asks: neither objects nor variables       *)
(* change.                                                                 *)
(***************************************************************************)
LEMMA RootKeeps == ASSUME IInv, NEW s \in Slots, Root(s) \/ Unroot(s) PROVE IInv'
  <1>1. /\ phase = "run" /\ phase' = "run" /\ stack' = stack
        /\ heap' = heap /\ act' = act /\ slot' = slot /\ arena' = arena
        /\ index' = index /\ req' = req
    BY DEF Root, Unroot, Idle
  <1>2. roots' \in Seq(Slots)
    <2>1. roots \in Seq(Slots)
      BY DEF IInv, Always, TypeOK
    <2>2. CASE Root(s)
      BY <2>1, <2>2 DEF Root
    <2>3. CASE Unroot(s)
      <3>1. PICK i : roots' = SubSeq([roots EXCEPT ![i] = roots[Len(roots)]],
                                     1, Len(roots) - 1)
        BY <2>3 DEF Unroot
      <3>2. roots # <<>> /\ roots[Len(roots)] \in Slots
        BY <2>1, <2>3 DEF Unroot, Rooted
      <3>3. /\ [roots EXCEPT ![i] = roots[Len(roots)]] \in Seq(Slots)
            /\ Len([roots EXCEPT ![i] = roots[Len(roots)]]) = Len(roots)
        <4>1. CASE i \in DOMAIN roots
          BY <2>1, <3>2, <4>1, ReplaceFacts
        <4>2. CASE i \notin DOMAIN roots
          <5>1. roots \in [DOMAIN roots -> Slots]
            BY <2>1, LenProperties
          <5>2. [roots EXCEPT ![i] = roots[Len(roots)]] = roots
            BY <4>2, <5>1
          <5> QED
            BY <2>1, <5>2
        <4> QED
          BY <4>1, <4>2
      <3> QED
        BY <2>1, <3>1, <3>2, <3>3, PopFacts
    <2> QED
      BY <2>2, <2>3
  <1>3. TypeOK'
    BY <1>1, <1>2 DEF IInv, Always, TypeOK
  <1> QED
    BY <1>1, <1>3, HeapUnchanged, RunFacts, RunKeeps

(***************************************************************************)
(* The client moves a pointer it holds, or found in an object it holds.    *)
(***************************************************************************)
LEMMA AssignKeeps ==
    ASSUME IInv, NEW s \in Slots, NEW p \in OldPointers, Assign(s, p)
    PROVE  IInv'
  <1>1. /\ phase = "run" /\ UNCHANGED <<arena, act, heap, roots, phase, index, stack, req>>
        /\ slot' = [slot EXCEPT ![s] = p]
    BY DEF Assign, Idle
  <1>2. TypeOK
    BY DEF IInv, Always
  <1>3. p \in Pointers
    BY <1>2, ObjectTypes DEF OldPointers, In, Pointers
  <1>4. TypeOK'
    BY <1>1, <1>2, <1>3 DEF TypeOK
  <1>5. \A t \in Slots : slot'[t] \in OldPointers
    BY <1>1, <1>2, RunFacts DEF TypeOK
  <1> QED
    BY <1>1, <1>4, <1>5, HeapUnchanged, RunFacts, RunKeeps

LEMMA MoveKeeps ==
    ASSUME IInv, NEW s \in Slots, NEW t \in Slots,
           Assign(s, NULL) \/ Assign(s, slot[t]) \/ Load(s, t)
    PROVE  IInv'
  <1>1. phase = "run"
    BY DEF Assign, Load, Idle
  <1>2. NULL \in OldPointers /\ slot[t] \in OldPointers
    BY <1>1, RunFacts DEF OldPointers
  <1>3. ASSUME slot[t] # NULL, NEW p \in Children(slot[t])
        PROVE  p \in OldPointers
    <2>1. slot[t] \in In(act)
      BY <1>2, <1>3 DEF OldPointers
    <2> QED
      BY <1>3, <2>1 DEF Children, IInv, Always, OldObjectsWhole
  <1> QED
    BY <1>2, <1>3, AssignKeeps DEF Load

(***************************************************************************)
(* The client stores a pointer into an object it holds.                    *)
(***************************************************************************)
LEMMA StoreKeeps ==
    ASSUME IInv, NEW o \in Slots, NEW v \in Slots, NEW i \in 1 .. 3, Store(o, i, v)
    PROVE  IInv'
  <1> DEFINE a == slot[o]
             kids == [heap[a].kids EXCEPT ![i] = slot[v]]
  <1>1. /\ phase = "run" /\ UNCHANGED <<arena, act, slot, roots, phase, index, stack, req>>
        /\ a # NULL /\ i \in DOMAIN heap[a].kids
        /\ KidsAllowed(kids)
        /\ heap' = [heap EXCEPT ![a].kids = kids]
    BY DEF Store, Idle
  <1>2. TypeOK /\ Layout
    BY DEF IInv, Always
  <1>3. a \in In(act) /\ a \in DOMAIN heap /\ slot[v] \in OldPointers
    BY <1>1, RunFacts DEF OldPointers
  <1>4. slot[v] \in Pointers \cup {Garbage}
    BY <1>2, <1>3, ObjectTypes DEF OldPointers, In, Pointers
  <1>5. /\ kids \in Seq(Pointers \cup {Garbage})
        /\ Len(kids) = Len(heap[a].kids) /\ DOMAIN kids = DOMAIN heap[a].kids
        /\ kids[i] = slot[v]
        /\ \A j \in DOMAIN kids : j # i => kids[j] = heap[a].kids[j]
    BY <1>1, <1>2, <1>3, <1>4, ObjectTypes, ReplaceFacts
  <1> HIDE DEF kids, a
  <1>6. heap[a] \in Objects
    BY <1>2, <1>3, ObjectTypes
  <1>7. /\ DOMAIN heap' = DOMAIN heap
        /\ heap'[a] = [heap[a] EXCEPT !.kids = kids]
        /\ \A x \in DOMAIN heap : x # a => heap'[x] = heap[x]
    BY <1>1, <1>3
  <1>8. heap'[a] \in Objects /\ heap'[a].kids = kids
        /\ heap'[a].id = heap[a].id /\ heap'[a].fwd = heap[a].fwd
    BY <1>5, <1>6, <1>7 DEF Objects
  <1>9. /\ In(act)' = In(act) /\ In(inactive)' = In(inactive) /\ OldPointers' = OldPointers
    BY <1>1, <1>7 DEF In, OldPointers, inactive
  <1>10. TypeOK'
    <2>1. heap' \in [DOMAIN heap' -> Objects] /\ DOMAIN heap' \subseteq Places
      BY <1>1, <1>2, <1>7, <1>8 DEF TypeOK
    <2> QED
      BY <1>1, <1>2, <2>1 DEF TypeOK
  <1>11. Layout'
    <2>1. \A x \in DOMAIN heap' : heap'[x].id = heap[x].id
      BY <1>7, <1>8
    <2> QED
      BY <1>1, <1>2, <1>7, <2>1 DEF Layout
  <1>12. WellFormed'
    <2>1. Len(kids) = Arity[heap[a].id]
      BY <1>3, <1>5 DEF IInv, Always, WellFormed
    <2>2. Len(kids) = 3 => kids[1] # NULL /\ kids[2] # NULL
      BY <1>1 DEF KidsAllowed
    <2>3. ASSUME NEW x \in DOMAIN heap, x # a
          PROVE  /\ Len(heap'[x].kids) = Arity[heap'[x].id]
                 /\ Len(heap'[x].kids) = 3 =>
                        heap'[x].kids[1] # NULL /\ heap'[x].kids[2] # NULL
      <3>1. heap'[x] = heap[x]
        BY <1>7, <2>3
      <3> QED
        BY <3>1 DEF IInv, Always, WellFormed
    <2> QED
      BY <1>7, <1>8, <2>1, <2>2, <2>3 DEF WellFormed
  <1>13. OldObjectsWhole'
    <2>1. \A j \in DOMAIN kids : kids[j] \in OldPointers
      BY <1>3, <1>5 DEF IInv, Always, OldObjectsWhole
    <2>2. \A x \in In(act) : \A j \in DOMAIN heap'[x].kids : heap'[x].kids[j] \in OldPointers
      BY <1>7, <1>8, <2>1 DEF IInv, Always, OldObjectsWhole, In
    <2> QED
      BY <1>9, <2>2 DEF OldObjectsWhole
  <1>14. \A x \in In(act)' : heap'[x].fwd = NULL
    BY <1>1, <1>7, <1>8, <1>9, RunFacts
  <1> QED
    BY <1>1, <1>9, <1>10, <1>11, <1>12, <1>13, <1>14, RunFacts, RunKeeps

-----------------------------------------------------------------------------
(***************************************************************************)
(* A collection starts, or starts again: no object has a forwarding        *)
(* pointer and there are no copies.                                        *)
(***************************************************************************)
LEMMA EnterCopy ==
    ASSUME IInv, UNCHANGED <<act, heap, slot, roots>>,
           phase' = "copy", index' = 1, stack' = <<>>,
           TypeOK', Layout',
           In(inactive) = {},
           \A a \in In(act) : heap[a].fwd = NULL,
           \A s \in Slots : slot[s] \in OldPointers
    PROVE  IInv'
  <1>1. /\ In(act)' = In(act) /\ In(inactive)' = {} /\ OldPointers' = OldPointers
        /\ WellFormed' /\ OldObjectsWhole' /\ CopiesUnforwarded'
    BY HeapUnchanged
  <1>2. \A a \in In(act)' : heap'[a].fwd = NULL
    BY <1>1
  <1>3. CopyInv'
    <2>1. stack' \in Seq(Copying) /\ DOMAIN stack' = {}
      OBVIOUS
    <2>2. \A n \in DOMAIN roots' : ~(n < index')
      BY DEF TypeOK
    <2> QED
      BY <1>1, <1>2, <2>1, <2>2 DEF CopyInv
  <1>4. /\ VariablesOld' /\ ForwardsLeadToCopies' /\ CopyComplete'
        /\ RunInv' /\ ClearInv' /\ AssignInv'
    BY <1>1, <1>2 DEF VariablesOld, ForwardsLeadToCopies, CopyComplete, RunInv,
                      ClearInv, AssignInv
  <1> QED
    BY <1>1, <1>3, <1>4 DEF IInv, Always

\* The process exits, and everything is left as it is.
LEMMA ExitKeeps == ASSUME IInv, req # NULL, ResizeFails PROVE IInv'
  <1>1. /\ phase' = "exit" /\ UNCHANGED <<arena, act, heap, slot, roots, index, stack, req>>
    BY DEF ResizeFails
  <1>2. TypeOK'
    BY <1>1 DEF IInv, Always, TypeOK, Phases
  <1>3. Layout' /\ WellFormed' /\ OldObjectsWhole' /\ CopiesUnforwarded'
    BY <1>1, HeapUnchanged
  <1> QED
    BY <1>1, <1>2, <1>3 DEF IInv, Always, VariablesOld, ForwardsLeadToCopies, CopyComplete,
                            RunInv, CopyInv, ClearInv, AssignInv

(***************************************************************************)
(* The client calls gc_alloc or gc_collect.                                *)
(***************************************************************************)
LEMMA RequestKeeps ==
    ASSUME IInv, (\E id \in Ids : Request(id)) \/ RequestCollect
    PROVE  IInv'
  <1>1. phase = "run" /\ TypeOK /\ UNCHANGED <<arena, act, heap, slot, roots, stack>>
    BY DEF IInv, Always, Request, RequestCollect, Idle
  <1>2. CASE \E id \in Ids : Request(id)
    <2>1. phase' = "run" /\ index' = index /\ req' \in Requests /\ req'.id \in Ids
      BY <1>1, <1>2 DEF Request, Requests
    <2>2. TypeOK'
      BY <1>1, <2>1 DEF TypeOK
    <2> QED
      BY <1>1, <2>1, <2>2, HeapUnchanged, RunFacts, RunKeeps
  <1>3. CASE RequestCollect
    <2>1. /\ phase' = "copy" /\ index' = 1 /\ req' \in Requests /\ req' # NULL
      <3>1. req' = [id |-> NULL, stage |-> "collect"]
        BY <1>3 DEF RequestCollect
      <3>2. req' # NULL
        BY <3>1, GcAssumption
      <3> QED
        BY <1>3, <3>1, <3>2 DEF RequestCollect, Requests
    <2>2. TypeOK'
      BY <1>1, <2>1 DEF TypeOK, Phases
    <2> QED
      BY <1>1, <2>1, <2>2, HeapUnchanged, RunFacts, EnterCopy
  <1> QED
    BY <1>2, <1>3

(***************************************************************************)
(* gc_alloc returns a new object, filled in from rooted variables.         *)
(***************************************************************************)
LEMMA AllocKeeps ==
    ASSUME IInv, NEW s \in Slots, Waiting, NEW from \in Sources(req.id), AllocOk(s, from)
    PROVE  IInv'
  <1> DEFINE b == Block(act)
             id == req.id
             kids == Contents(from)
             new == [id |-> id, kids |-> kids, fwd |-> NULL]
  <1>1. /\ phase = "run" /\ req # NULL /\ req.stage # "stress" /\ Fits(act, id)
        /\ MayBuild(from)
        /\ heap' = Put(heap, b, new)
        /\ slot' = [slot EXCEPT ![s] = b]
        /\ arena' = Bump(act, id)
        /\ req' = NULL /\ UNCHANGED <<act, roots, phase, index, stack>>
    BY DEF AllocOk, Waiting
  <1>2. TypeOK /\ Layout /\ act \in Spaces
    BY SpaceFacts DEF IInv, Always
  <1>3. id \in Ids
    BY <1>1, RunFacts
  <1>4. /\ kids \in Seq(Pointers \cup {Garbage}) /\ Len(kids) = Arity[id]
        /\ \A i \in DOMAIN kids : kids[i] \in OldPointers
        /\ Len(kids) = 3 => kids[1] # NULL /\ kids[2] # NULL
    <2>1. Arity[id] \in Nat /\ from \in [1 .. Arity[id] -> Slots \cup {NULL}]
      BY <1>3, GcAssumption DEF Sources
    <2>2. \A i \in DOMAIN from : from[i] # NULL => slot[from[i]] \in OldPointers
      BY <1>1, <2>1, RunFacts
    <2>3. OldPointers \subseteq Pointers \cup {Garbage}
      BY <1>2, ObjectTypes DEF OldPointers, In, Pointers
    <2>4. /\ kids \in [1 .. Arity[id] -> Pointers \cup {Garbage}]
          /\ \A i \in DOMAIN kids : kids[i] \in OldPointers
      BY <2>1, <2>2, <2>3 DEF Contents, OldPointers
    <2>5. KidsAllowed(kids)
      BY <1>1 DEF MayBuild
    <2> QED
      BY <2>1, <2>4, <2>5, FunctionIsSeq DEF KidsAllowed
  <1>5. /\ b \in Places /\ b[1] = act /\ b \notin DOMAIN heap
        /\ arena' \in [Spaces -> Arenas]
    BY <1>1, <1>2, <1>3, BlockFacts
  <1> HIDE DEF b, id, kids
  <1>6. /\ new \in Objects /\ new.id = id /\ new.kids = kids /\ new.fwd = NULL
    BY <1>3, <1>4 DEF Objects, Pointers
  <1> HIDE DEF new
  <1>7. /\ heap' \in [DOMAIN heap' -> Objects]
        /\ DOMAIN heap' = DOMAIN heap \cup {b} /\ heap'[b] = new
        /\ \A x \in DOMAIN heap : heap'[x] = heap[x]
    <2>1. heap \in [DOMAIN heap -> Objects]
      BY <1>2 DEF TypeOK
    <2> QED
      BY <1>1, <1>5, <1>6, <2>1 DEF Put
  <1>8. /\ In(act)' = In(act) \cup {b} /\ In(inactive)' = {}
        /\ OldPointers' = OldPointers \cup {b}
    <2>1. In(act)' = In(act) \cup {b}
      BY <1>1, <1>5, <1>7 DEF In
    <2>2. In(inactive)' = {}
      BY <1>1, <1>2, <1>5, <1>7, RunFacts, SpaceFacts DEF In, inactive
    <2> QED
      BY <2>1, <2>2 DEF OldPointers
  <1>9. TypeOK'
    <2>1. DOMAIN heap' \subseteq Places
      BY <1>2, <1>5, <1>7 DEF TypeOK
    <2>2. slot' \in [Slots -> Pointers]
      BY <1>1, <1>2, <1>5 DEF TypeOK, Pointers
    <2> QED
      BY <1>1, <1>2, <1>5, <1>7, <2>1, <2>2 DEF TypeOK
  <1>10. Layout'
    BY <1>1, <1>2, <1>3, <1>6, <1>7, LayoutGrows DEF b
  <1>11. WellFormed'
    BY <1>4, <1>6, <1>7 DEF IInv, Always, WellFormed
  <1>12. OldObjectsWhole'
    <2>1. ASSUME NEW x \in In(act)
          PROVE  \A i \in DOMAIN heap'[x].kids : heap'[x].kids[i] \in OldPointers'
      <3>1. x \in DOMAIN heap /\ heap'[x] = heap[x]
        BY <1>7 DEF In
      <3> QED
        BY <1>8, <3>1 DEF IInv, Always, OldObjectsWhole
    <2>2. \A i \in DOMAIN heap'[b].kids : heap'[b].kids[i] \in OldPointers'
      BY <1>4, <1>6, <1>7, <1>8
    <2> QED
      BY <1>8, <2>1, <2>2 DEF OldObjectsWhole
  <1>13. \A t \in Slots : slot'[t] \in OldPointers'
    BY <1>1, <1>2, <1>8, RunFacts DEF TypeOK
  <1>14. \A a \in In(act)' : heap'[a].fwd = NULL
    BY <1>1, <1>6, <1>7, <1>8, RunFacts DEF In
  <1> QED
    BY <1>1, <1>8, <1>9, <1>10, <1>11, <1>12, <1>13, <1>14, RunFacts, RunKeeps

(***************************************************************************)
(* gc_alloc collects, and grows the inactive arena to collect once more.   *)
(***************************************************************************)
LEMMA AllocCollectKeeps == ASSUME IInv, AllocCollect PROVE IInv'
  <1>1. /\ phase = "run" /\ req # NULL /\ TypeOK
        /\ UNCHANGED <<arena, act, heap, slot, roots, stack>>
        /\ phase' = "copy" /\ index' = 1
    BY DEF AllocCollect, Waiting, IInv, Always
  <1>2. req' \in Requests /\ req' # NULL
    <2>1. /\ req \in Requests /\ req.stage \in {"stress", "try"}
          /\ \/ req' = [req EXCEPT !.stage = "try"]
             \/ req' = [req EXCEPT !.stage = "loop"]
      BY <1>1 DEF AllocCollect, TypeOK
    <2>2. req \in [id : Ids, stage : {"stress", "try", "loop"}]
      BY <2>1 DEF Requests
    <2>3. req' \in [id : Ids, stage : {"stress", "try", "loop"}]
      BY <2>1, <2>2
    <2> QED
      BY <2>3, GcAssumption DEF Requests
  <1>3. TypeOK'
    BY <1>1, <1>2 DEF TypeOK, Phases
  <1> QED
    BY <1>1, <1>3, HeapUnchanged, RunFacts, EnterCopy

LEMMA AllocGrowKeeps == ASSUME IInv, AllocGrow PROVE IInv'
  <1>1. phase = "run" /\ req # NULL /\ TypeOK /\ Layout
    BY DEF AllocGrow, Waiting, IInv, Always
  <1>2. CASE ResizeFails
    BY <1>1, <1>2, ExitKeeps
  <1>3. CASE ~ResizeFails
    <2>1. /\ InactiveGrows /\ arena' = Resized /\ phase' = "copy" /\ index' = 1
          /\ UNCHANGED <<act, heap, slot, roots, stack, req>>
      BY <1>3 DEF AllocGrow
    <2>2. TypeOK'
      BY <1>1, <2>1, ResizedFacts DEF TypeOK, Phases
    <2>3. Layout'
      <3>1. \A a \in DOMAIN heap : a[1] # inactive
        BY <1>1, RunFacts, SpaceFacts DEF In
      <3> QED
        BY <1>1, <2>1, <3>1, ResizedFacts, SpaceFacts, LayoutShrinks
    <2> QED
      BY <1>1, <2>1, <2>2, <2>3, RunFacts, EnterCopy
  <1> QED
    BY <1>2, <1>3

-----------------------------------------------------------------------------
(***************************************************************************)
(* What is known while objects are copied.                                 *)
(***************************************************************************)
LEMMA CopyFacts ==
    ASSUME IInv, phase = "copy"
    PROVE  /\ TypeOK /\ Layout /\ stack \in Seq(Copying)
           /\ \A s \in Slots : slot[s] \in OldPointers
           /\ \A x \in In(act) : heap[x].fwd # NULL =>
                  heap[x].fwd \in In(inactive) /\ heap[heap[x].fwd].id = heap[x].id
           /\ \A k \in DOMAIN stack :
                  /\ stack[k].old \in In(act)
                  /\ stack[k].new = heap[stack[k].old].fwd
                  /\ stack[k].new \in In(inactive) /\ stack[k].new # NULL
                  /\ heap[stack[k].new].id = heap[stack[k].old].id
           /\ \A x \in In(inactive) : heap[x].fwd = NULL
  <1>1. TypeOK /\ Layout /\ stack \in Seq(Copying)
    BY DEF IInv, Always, CopyInv
  <1>2. /\ \A s \in Slots : slot[s] \in OldPointers
        /\ \A x \in In(act) : heap[x].fwd # NULL =>
               heap[x].fwd \in In(inactive) /\ heap[heap[x].fwd].id = heap[x].id
        /\ \A x \in In(inactive) : heap[x].fwd = NULL
    BY DEF IInv, Always, VariablesOld, ForwardsLeadToCopies, CopiesUnforwarded
  <1>3. ASSUME NEW k \in DOMAIN stack
        PROVE  /\ stack[k].old \in In(act)
               /\ stack[k].new = heap[stack[k].old].fwd
               /\ stack[k].new # NULL
    <2>1. stack[k] \in Copying
      BY <1>1
    <2>2. stack[k].new # NULL
      BY <2>1, GcAssumption DEF Copying, Places, Spaces
    <2> QED
      BY <2>2 DEF IInv, CopyInv
  <1> QED
    BY <1>1, <1>2, <1>3

(***************************************************************************)
(* An object gets its copy, whose fields are not written yet.              *)
(***************************************************************************)
NewCopy(a) == [id   |-> heap[a].id,
               kids |-> [i \in DOMAIN heap[a].kids |-> Garbage],
               fwd  |-> NULL]

LEMMA EvacuatedHeap ==
    ASSUME IInv, phase = "copy", NEW a \in In(act), Evacuate(a)
    PROVE  /\ Block(inactive) \in Places /\ Block(inactive)[1] = inactive
           /\ Block(inactive) \notin DOMAIN heap /\ Block(inactive) # NULL
           /\ \A x \in In(inactive) : x[2] < Block(inactive)[2]
           /\ NewCopy(a) \in Objects /\ NewCopy(a).id = heap[a].id
           /\ NewCopy(a).fwd = NULL /\ Len(NewCopy(a).kids) = Len(heap[a].kids)
           /\ \A i \in DOMAIN NewCopy(a).kids : NewCopy(a).kids[i] = Garbage
           /\ heap' \in [DOMAIN heap' -> Objects]
           /\ DOMAIN heap' = DOMAIN heap \cup {Block(inactive)}
           /\ heap'[Block(inactive)] = NewCopy(a)
           /\ \A x \in DOMAIN heap : heap'[x].id = heap[x].id /\ heap'[x].kids = heap[x].kids
           /\ \A x \in DOMAIN heap : x # a => heap'[x].fwd = heap[x].fwd
           /\ heap'[a].fwd = Block(inactive)
           /\ In(act)' = In(act) /\ In(inactive)' = In(inactive) \cup {Block(inactive)}
           /\ OldPointers' = OldPointers
           /\ NewPointers' = NewPointers \cup {Block(inactive)}
           /\ inactive' = inactive
  <1> DEFINE b == Block(inactive)
             id == heap[a].id
             kids == [i \in DOMAIN heap[a].kids |-> Garbage]
             new == [id |-> id, kids |-> kids, fwd |-> NULL]
  <1>1. /\ Fits(inactive, id)
        /\ heap' = Put([heap EXCEPT ![a].fwd = b], b, new)
        /\ act' = act
    BY DEF Evacuate
  <1>2. /\ TypeOK /\ Layout /\ inactive \in Spaces /\ inactive # act
        /\ a \in DOMAIN heap /\ a \notin In(inactive)
    BY CopyFacts, SpaceFacts
  <1>3. /\ heap[a] \in Objects /\ id \in Ids /\ a \in Places
        /\ heap[a].kids \in Seq(Pointers \cup {Garbage})
    BY <1>2, ObjectTypes
  <1>4. /\ b \in Places /\ b[1] = inactive /\ b \notin DOMAIN heap
        /\ \A x \in In(inactive) : x[2] < b[2]
    BY <1>1, <1>2, <1>3, BlockFacts DEF In
  <1>5. b # NULL /\ b \in Pointers
    BY <1>4, GcAssumption DEF Pointers, Places, Spaces
  <1>6. kids \in Seq(Pointers \cup {Garbage}) /\ Len(kids) = Len(heap[a].kids)
        /\ \A i \in DOMAIN kids : kids[i] = Garbage
    BY <1>3, FillFacts
  <1> HIDE DEF b, id, kids
  <1>7. /\ new \in Objects /\ new.id = id /\ new.kids = kids /\ new.fwd = NULL
    BY <1>3, <1>6 DEF Objects, Pointers
  <1>8. new = NewCopy(a)
    BY DEF NewCopy, id, kids
  <1> HIDE DEF new
  <1>9. /\ heap' \in [DOMAIN heap' -> Objects]
        /\ DOMAIN heap' = DOMAIN heap \cup {b} /\ heap'[b] = new
        /\ heap'[a] = [heap[a] EXCEPT !.fwd = b]
        /\ \A x \in DOMAIN heap : x # a => heap'[x] = heap[x]
    <2>1. heap \in [DOMAIN heap -> Objects]
      BY <1>2 DEF TypeOK
    <2>2. [heap[a] EXCEPT !.fwd = b] \in Objects
      BY <1>3, <1>5 DEF Objects
    <2> QED
      BY <1>1, <1>2, <1>4, <1>7, <2>1, <2>2 DEF Put
  <1>10. /\ \A x \in DOMAIN heap : heap'[x].id = heap[x].id /\ heap'[x].kids = heap[x].kids
         /\ \A x \in DOMAIN heap : x # a => heap'[x].fwd = heap[x].fwd
         /\ heap'[a].fwd = b
    BY <1>3, <1>9 DEF Objects
  <1>11. /\ In(act)' = In(act) /\ In(inactive)' = In(inactive) \cup {b}
         /\ OldPointers' = OldPointers /\ NewPointers' = NewPointers \cup {b}
         /\ inactive' = inactive
    <2>1. In(act)' = In(act)
      BY <1>1, <1>2, <1>4, <1>9 DEF In
    <2>2. inactive' = inactive
      BY <1>1 DEF inactive
    <2>3. In(inactive)' = In(inactive) \cup {b}
      BY <1>4, <1>9, <2>2 DEF In
    <2> QED
      BY <2>1, <2>2, <2>3 DEF OldPointers, NewPointers
  <1>12. /\ new \in Objects /\ new.id = heap[a].id /\ new.fwd = NULL
         /\ Len(new.kids) = Len(heap[a].kids)
         /\ \A i \in DOMAIN new.kids : new.kids[i] = Garbage
    BY <1>6, <1>7 DEF id
  <1> QED
    BY <1>4, <1>5, <1>8, <1>9, <1>10, <1>11, <1>12 DEF b

LEMMA EvacuateKeeps ==
    ASSUME IInv, phase = "copy", NEW a \in In(act), heap[a].fwd = NULL, Evacuate(a),
           \/ \E n \in DOMAIN roots : slot[roots[n]] = a
           \/ \E p \in In(act) : heap[p].fwd # NULL /\ a \in Children(p)
    PROVE  IInv'
  <1> DEFINE b == Block(inactive)
             id == heap[a].id
             new == NewCopy(a)
             kids == new.kids
             frame == [old |-> a, new |-> b, i |-> 1]
  <1>1. /\ Fits(inactive, id)
        /\ arena' = Bump(inactive, id)
        /\ stack' = Append(stack, frame)
        /\ UNCHANGED <<act, slot, roots, phase, index, req>>
    BY DEF Evacuate
  <1>2. /\ TypeOK /\ Layout /\ inactive \in Spaces /\ inactive # act
        /\ a \in DOMAIN heap /\ a \notin In(inactive) /\ stack \in Seq(Copying)
    BY CopyFacts, SpaceFacts
  <1>3. /\ heap[a] \in Objects /\ id \in Ids /\ a \in Places
        /\ heap[a].kids \in Seq(Pointers \cup {Garbage})
    BY <1>2, ObjectTypes
  <1>4. /\ b \in Places /\ b[1] = inactive /\ b \notin DOMAIN heap
        /\ \A x \in In(inactive) : x[2] < b[2]
        /\ arena' \in [Spaces -> Arenas]
    BY <1>1, <1>2, <1>3, EvacuatedHeap, BlockFacts
  <1>5. b # NULL
    BY EvacuatedHeap
  <1>6. /\ Len(kids) = Len(heap[a].kids)
        /\ \A i \in DOMAIN kids : kids[i] = Garbage
        /\ kids \in Seq(Pointers \cup {Garbage})
    BY EvacuatedHeap DEF Objects
  <1>7. /\ new \in Objects /\ new.id = id /\ new.kids = kids /\ new.fwd = NULL
    BY EvacuatedHeap
  <1>8. frame \in Copying /\ frame.old = a /\ frame.new = b /\ frame.i = 1
    BY <1>3, <1>4 DEF Copying
  <1>9. /\ heap' \in [DOMAIN heap' -> Objects]
        /\ DOMAIN heap' = DOMAIN heap \cup {b} /\ heap'[b] = new
    BY EvacuatedHeap
  <1>10. /\ \A x \in DOMAIN heap : heap'[x].id = heap[x].id /\ heap'[x].kids = heap[x].kids
         /\ \A x \in DOMAIN heap : x # a => heap'[x].fwd = heap[x].fwd
         /\ heap'[a].fwd = b
    BY EvacuatedHeap
  <1>11. /\ In(act)' = In(act) /\ In(inactive)' = In(inactive) \cup {b}
         /\ OldPointers' = OldPointers /\ NewPointers' = NewPointers \cup {b}
         /\ inactive' = inactive
    BY EvacuatedHeap
  <1> HIDE DEF b, id, kids, new, frame
  <1>12. /\ stack' \in Seq(Copying)
         /\ DOMAIN stack' = DOMAIN stack \cup {Len(stack) + 1}
         /\ \A k \in DOMAIN stack : stack'[k] = stack[k]
         /\ stack'[Len(stack) + 1] = frame
    BY <1>1, <1>2, <1>8, PushFacts
  <1>13. TypeOK'
    <2>1. DOMAIN heap' \subseteq Places
      BY <1>2, <1>4, <1>9 DEF TypeOK
    <2> QED
      BY <1>1, <1>2, <1>4, <1>9, <1>12, <2>1 DEF TypeOK, Copying
  <1>14. Layout'
    BY <1>1, <1>2, <1>3, <1>7, <1>9, <1>10, LayoutGrows DEF b
  <1>15. WellFormed'
    <2>1. Len(kids) = Arity[id] /\ (Len(kids) = 3 => kids[1] # NULL /\ kids[2] # NULL)
      <3>1. Len(kids) = Arity[id]
        BY <1>2, <1>6 DEF IInv, Always, WellFormed, id
      <3>2. Len(kids) = 3 => 1 \in DOMAIN kids /\ 2 \in DOMAIN kids
        BY <1>6
      <3> QED
        BY <1>6, <3>1, <3>2, GcAssumption
    <2>2. ASSUME NEW x \in DOMAIN heap
          PROVE  /\ Len(heap'[x].kids) = Arity[heap'[x].id]
                 /\ Len(heap'[x].kids) = 3 =>
                        heap'[x].kids[1] # NULL /\ heap'[x].kids[2] # NULL
      <3>1. heap'[x].kids = heap[x].kids /\ heap'[x].id = heap[x].id
        BY <1>10
      <3> QED
        BY <3>1 DEF IInv, Always, WellFormed
    <2> QED
      BY <1>7, <1>9, <2>1, <2>2 DEF WellFormed
  <1>16. OldObjectsWhole'
    <2>1. ASSUME NEW x \in In(act)
          PROVE  \A i \in DOMAIN heap'[x].kids : heap'[x].kids[i] \in OldPointers
      <3>1. heap'[x].kids = heap[x].kids
        BY <1>10 DEF In
      <3> QED
        BY <3>1 DEF IInv, Always, OldObjectsWhole
    <2> QED
      BY <1>11, <2>1 DEF OldObjectsWhole
  <1>17. CopiesUnforwarded'
    BY <1>2, <1>7, <1>9, <1>10, <1>11, CopyFacts DEF CopiesUnforwarded, In
  <1>18. VariablesOld'
    BY <1>1, <1>11, CopyFacts DEF VariablesOld
  <1>19. ForwardsLeadToCopies'
    <2>1. ASSUME NEW x \in In(act), heap'[x].fwd # NULL
          PROVE  heap'[x].fwd \in In(inactive)' /\ heap'[heap'[x].fwd].id = heap'[x].id
      <3>1. CASE x = a
        BY <1>7, <1>9, <1>10, <1>11, <1>2, <3>1 DEF id
      <3>2. CASE x # a
        <4>1. x \in DOMAIN heap /\ heap'[x].fwd = heap[x].fwd /\ heap'[x].id = heap[x].id
          BY <1>10, <3>2 DEF In
        <4>2. heap[x].fwd \in In(inactive) /\ heap[heap[x].fwd].id = heap[x].id
          BY <2>1, <4>1, CopyFacts
        <4> QED
          BY <1>10, <1>11, <4>1, <4>2 DEF In
      <3> QED
        BY <3>1, <3>2
    <2> QED
      BY <1>11, <2>1 DEF ForwardsLeadToCopies
  <1>20. CopyInv'
    <2>1. ASSUME NEW k \in DOMAIN stack'
          PROVE  stack'[k].old \in In(act)' /\ stack'[k].new = heap'[stack'[k].old].fwd
      <3>1. CASE k \in DOMAIN stack
        <4>1. stack[k].old \in In(act) /\ stack[k].old # a
              /\ stack[k].new = heap[stack[k].old].fwd
          BY <3>1, CopyFacts
        <4> QED
          BY <1>10, <1>11, <1>12, <3>1, <4>1 DEF In
      <3>2. CASE k = Len(stack) + 1
        BY <1>8, <1>10, <1>11, <1>12, <3>2
      <3> QED
        BY <1>12, <3>1, <3>2
    <2>2. ASSUME NEW x \in In(inactive)', NEW j \in DOMAIN heap'[x].kids
          PROVE  Written(x, j)'
      <3>1. CASE x = b
        <4>1. /\ Len(stack) + 1 \in DOMAIN stack'
              /\ stack'[Len(stack) + 1].new = b /\ stack'[Len(stack) + 1].i = 1
          BY <1>8, <1>12
        <4>2. 1 <= j
          BY <1>6, <1>7, <1>9, <3>1
        <4> QED
          BY <3>1, <4>1, <4>2 DEF Written
      <3>2. CASE x \in In(inactive)
        <4>1. x \in DOMAIN heap /\ heap'[x].kids = heap[x].kids
          BY <1>10, <3>2 DEF In
        <4>2. Written(x, j)
          BY <3>2, <4>1 DEF IInv, CopyInv
        <4> QED
          BY <1>11, <1>12, <4>1, <4>2 DEF Written
      <3> QED
        BY <1>11, <3>1, <3>2
    <2>3. ASSUME NEW n \in DOMAIN roots', n < index'
          PROVE  Settled(slot[roots[n]])'
      <3>1. Settled(slot[roots[n]])
        BY <1>1, <2>3 DEF IInv, CopyInv
      <3>2. slot[roots[n]] \in OldPointers
        BY <1>1, <1>2, CopyFacts DEF TypeOK
      <3> QED
        BY <1>1, <1>5, <1>10, <3>1, <3>2 DEF Settled, OldPointers, In
    <2>4. ASSUME NEW x \in In(act)', heap'[x].fwd # NULL
          PROVE  RootedFrom(1, x)' \/ HasParent(x)'
      <3>1. \A y \in DOMAIN heap : Children(y)' = Children(y)
        BY <1>10 DEF Children
      <3>2. CASE x = a
        <4>1. CASE \E n \in DOMAIN roots : slot[roots[n]] = a
          BY <1>1, <1>2, <3>2, <4>1 DEF RootedFrom, TypeOK
        <4>2. ASSUME NEW p \in In(act), heap[p].fwd # NULL, a \in Children(p)
              PROVE  HasParent(a)'
          <5>1. p # a /\ heap[p].fwd \in In(inactive) /\ p \in DOMAIN heap
            BY <4>2, CopyFacts DEF In
          <5>2. heap'[p].fwd = heap[p].fwd /\ heap[p].fwd[2] < b[2]
            BY <1>4, <1>10, <5>1
          <5> QED
            BY <1>10, <1>11, <3>1, <4>2, <5>1, <5>2 DEF HasParent
        <4> QED
          BY <3>2, <4>1, <4>2
      <3>3. CASE x # a
        <4>1. x \in In(act) /\ heap'[x].fwd = heap[x].fwd
          BY <1>10, <1>11, <3>3 DEF In
        <4>2. RootedFrom(1, x) \/ HasParent(x)
          BY <2>4, <4>1 DEF IInv, CopyInv
        <4>3. CASE RootedFrom(1, x)
          BY <1>1, <4>3 DEF RootedFrom
        <4>4. ASSUME NEW p \in In(act), heap[p].fwd # NULL,
                     heap[p].fwd[2] < heap[x].fwd[2], x \in Children(p)
              PROVE  HasParent(x)'
          <5>1. p # a /\ p \in DOMAIN heap
            BY <4>4 DEF In
          <5> QED
            BY <1>10, <1>11, <3>1, <4>1, <4>4, <5>1 DEF HasParent
        <4> QED
          BY <4>2, <4>3, <4>4 DEF HasParent
      <3> QED
        BY <3>2, <3>3
    <2> QED
      BY <1>12, <2>1, <2>2, <2>3, <2>4 DEF CopyInv
  <1> QED
    <2>1. CopyComplete' /\ RunInv' /\ ClearInv' /\ AssignInv'
      BY <1>1 DEF CopyComplete, RunInv, ClearInv, AssignInv
    <2> QED
      BY <1>13, <1>14, <1>15, <1>16, <1>17, <1>18, <1>19, <1>20, <2>1 DEF IInv, Always

(***************************************************************************)
(* The inactive arena is full: the copies are dropped with it and the      *)
(* forwarding pointers, which now lead nowhere, are to be cleared.         *)
(***************************************************************************)
LEMMA AbandonKeeps == ASSUME IInv, phase = "copy", NEW a, Abandon(a) PROVE IInv'
  <1>1. /\ TypeOK /\ Layout /\ req # NULL
        /\ inactive \in Spaces /\ inactive # act
    BY SpaceFacts DEF IInv, Always, TypeOK
  <1>2. CASE ResizeFails
    BY <1>1, <1>2, ExitKeeps
  <1>3. CASE ~ResizeFails
    <2>1. /\ InactiveGrows /\ arena' = Resized /\ heap' = Keep(heap, In(act))
          /\ phase' = "clear" /\ index' = 1 /\ stack' = <<>>
          /\ UNCHANGED <<act, slot, roots, req>>
      BY <1>3 DEF Abandon
    <2>2. /\ DOMAIN heap' = In(act) /\ \A x \in In(act) : heap'[x] = heap[x]
          /\ In(act) \subseteq DOMAIN heap
      BY <2>1 DEF Keep, In
    <2>3. /\ In(act)' = In(act) /\ In(inactive)' = {} /\ OldPointers' = OldPointers
      <3>1. In(act)' = In(act) /\ In(inactive)' = {}
        BY <1>1, <2>1, <2>2 DEF In, inactive
      <3> QED
        BY <3>1 DEF OldPointers
    <2>4. TypeOK'
      <3>1. heap \in [DOMAIN heap -> Objects] /\ DOMAIN heap' \subseteq Places
        BY <1>1, <2>2 DEF TypeOK
      <3>2. heap' \in [DOMAIN heap' -> Objects]
        BY <2>1, <2>2, <3>1 DEF Keep
      <3>3. arena' \in [Spaces -> Arenas]
        BY <1>1, <2>1, ResizedFacts
      <3> QED
        BY <1>1, <2>1, <3>1, <3>2, <3>3 DEF TypeOK, Phases
    <2>5. Layout'
      <3>1. \A x \in DOMAIN heap' : heap'[x].id = heap[x].id /\ x[1] # inactive
        BY <1>1, <2>2 DEF In
      <3>2. /\ Resized[inactive].base <= Resized[inactive].next
            /\ Resized[inactive].next <= Resized[inactive].end
            /\ \A t \in Spaces : t = inactive \/ Resized[t] = arena[t]
        BY <1>1, <2>1, ResizedFacts
      <3> QED
        BY <1>1, <2>1, <2>2, <3>1, <3>2, LayoutShrinks
    <2>6. WellFormed'
      BY <2>2 DEF IInv, Always, WellFormed
    <2>7. OldObjectsWhole'
      BY <2>2, <2>3 DEF IInv, Always, OldObjectsWhole
    <2>8. CopiesUnforwarded' /\ VariablesOld'
      BY <2>1, <2>3, CopyFacts DEF CopiesUnforwarded, VariablesOld
    <2>9. ClearInv'
      <3>1. \A x \in In(act) : Children(x)' = Children(x)
        BY <2>2 DEF Children
      <3>2. ASSUME NEW x \in In(act)', heap'[x].fwd # NULL
            PROVE  RootedFrom(index, x)' \/ HasParent(x)'
        <4>1. x \in In(act) /\ heap'[x] = heap[x]
          BY <2>2, <2>3
        <4>2. RootedFrom(1, x) \/ HasParent(x)
          BY <3>2, <4>1 DEF IInv, CopyInv
        <4>3. RootedFrom(1, x) => RootedFrom(index, x)'
          BY <2>1 DEF RootedFrom
        <4>4. HasParent(x) => HasParent(x)'
          BY <2>2, <2>3, <3>1, <4>1 DEF HasParent
        <4> QED
          BY <4>2, <4>3, <4>4
      <3>3. stack' \in Seq(Clearing) /\ DOMAIN stack' = {}
        BY <2>1
      <3> QED
        BY <2>3, <3>2, <3>3 DEF ClearInv
    <2>10. /\ ForwardsLeadToCopies' /\ CopyComplete' /\ RunInv' /\ CopyInv' /\ AssignInv'
      BY <2>1 DEF ForwardsLeadToCopies, CopyComplete, RunInv, CopyInv, AssignInv
    <2> QED
      BY <2>4, <2>5, <2>6, <2>7, <2>8, <2>9, <2>10 DEF IInv, Always
  <1> QED
    BY <1>2, <1>3

(***************************************************************************)
(* gc_copy_object is called for a root, or for a child of the object at    *)
(* the top of the stack, which has its copy.                               *)
(***************************************************************************)
LEMMA CopyRootKeeps == ASSUME IInv, CopyRoot PROVE IInv'
  <1>1. /\ phase = "copy" /\ index \in DOMAIN roots /\ roots[index] \in Slots
    BY DEF CopyRoot, IInv, Always, TypeOK
  <1>2. RootValue \in In(act) /\ heap[RootValue].fwd = NULL
    BY <1>1, CopyFacts DEF CopyRoot, Settled, RootValue, OldPointers
  <1>3. \E n \in DOMAIN roots : slot[roots[n]] = RootValue
    BY <1>1 DEF RootValue
  <1> QED
    BY <1>1, <1>2, <1>3, EvacuateKeeps, AbandonKeeps DEF CopyRoot, CopyObject

LEMMA TopFacts ==
    ASSUME IInv, CopyingChild
    PROVE  /\ phase = "copy" /\ Len(stack) \in DOMAIN stack /\ Top \in Copying
           /\ Top.old \in In(act) /\ Top.old \in DOMAIN heap
           /\ Top.new = heap[Top.old].fwd /\ Top.new \in In(inactive)
           /\ Top.new \in DOMAIN heap /\ Top.new # NULL
           /\ heap[Top.new].id = heap[Top.old].id
           /\ Top.i \in DOMAIN heap[Top.old].kids
           /\ Child \in OldPointers
  <1>1. /\ phase = "copy" /\ stack # <<>> /\ Top.i <= Len(heap[Top.old].kids)
        /\ TypeOK /\ stack \in Seq(Copying)
    BY CopyFacts DEF CopyingChild
  <1>2. Len(stack) \in DOMAIN stack /\ Top \in Copying
    BY <1>1, PopFacts DEF Top
  <1>3. /\ Top.old \in In(act)
        /\ Top.new = heap[Top.old].fwd /\ Top.new \in In(inactive) /\ Top.new # NULL
        /\ heap[Top.new].id = heap[Top.old].id
    BY <1>1, <1>2, CopyFacts DEF Top
  <1>4. Top.old \in DOMAIN heap /\ Top.new \in DOMAIN heap
    BY <1>3 DEF In
  <1>5. Top.i \in Nat \ {0}
    BY <1>2 DEF Copying
  <1>6. Top.i \in DOMAIN heap[Top.old].kids
    BY <1>1, <1>4, <1>5, ObjectTypes
  <1> QED
    BY <1>1, <1>2, <1>3, <1>4, <1>6 DEF Child, IInv, Always, OldObjectsWhole

LEMMA CopyChildKeeps == ASSUME IInv, CopyChild PROVE IInv'
  <1>1. /\ phase = "copy" /\ Top.old \in In(act) /\ heap[Top.old].fwd # NULL
        /\ Top.i \in DOMAIN heap[Top.old].kids /\ Child \in OldPointers
    BY TopFacts DEF CopyChild
  <1>2. Child \in In(act) /\ heap[Child].fwd = NULL /\ Child # NULL
    BY <1>1 DEF CopyChild, Settled, OldPointers
  <1>3. Child \in Children(Top.old)
    BY <1>1, <1>2 DEF Children, Child
  <1> QED
    BY <1>1, <1>2, <1>3, EvacuateKeeps, AbandonKeeps DEF CopyChild, CopyObject

(***************************************************************************)
(* The next root is NULL or has its copy; and the roots are all passed.    *)
(***************************************************************************)
LEMMA SkipRootKeeps == ASSUME IInv, SkipRoot PROVE IInv'
  <1>1. /\ phase = "copy" /\ phase' = "copy" /\ index' = index + 1 /\ index \in Nat \ {0}
        /\ UNCHANGED <<arena, act, heap, slot, roots, stack, req>>
        /\ Settled(slot[roots[index]])
    BY DEF SkipRoot, IInv, Always, TypeOK, RootValue
  <1>2. /\ In(act)' = In(act) /\ In(inactive)' = In(inactive)
        /\ OldPointers' = OldPointers /\ NewPointers' = NewPointers
        /\ WellFormed' /\ OldObjectsWhole' /\ CopiesUnforwarded' /\ Layout'
    BY <1>1, HeapUnchanged
  <1>3. TypeOK'
    BY <1>1 DEF IInv, Always, TypeOK
  <1>4. VariablesOld' /\ ForwardsLeadToCopies'
    BY <1>1, <1>2, CopyFacts DEF VariablesOld, ForwardsLeadToCopies
  <1>5. CopyInv'
    <2>1. \A n \in DOMAIN roots : n < index + 1 => Settled(slot[roots[n]])'
      <3>1. \A n \in DOMAIN roots : n < index => Settled(slot[roots[n]])
        BY <1>1 DEF IInv, CopyInv
      <3>2. \A n \in DOMAIN roots : n < index + 1 => n < index \/ n = index
        BY <1>1 DEF IInv, Always, TypeOK
      <3> QED
        BY <1>1, <3>1, <3>2 DEF Settled
    <2>2. \A x : Children(x)' = Children(x)
      BY <1>1 DEF Children
    <2>3. \A x \in In(act) : heap[x].fwd # NULL => RootedFrom(1, x)' \/ HasParent(x)'
      <3>1. \A x \in In(act) : heap[x].fwd # NULL => RootedFrom(1, x) \/ HasParent(x)
        BY <1>1 DEF IInv, CopyInv
      <3> QED
        BY <1>1, <1>2, <2>2, <3>1 DEF RootedFrom, HasParent
    <2>4. \A b \in In(inactive) : \A j \in DOMAIN heap[b].kids : Written(b, j)'
      BY <1>1, <1>2 DEF IInv, CopyInv, Written
    <2>5. \A k \in DOMAIN stack :
              stack[k].old \in In(act) /\ stack[k].new = heap[stack[k].old].fwd
      BY <1>1 DEF IInv, CopyInv
    <2>6. stack' \in Seq(Copying)
      BY <1>1, CopyFacts
    <2> QED
      BY <1>1, <1>2, <2>1, <2>3, <2>4, <2>5, <2>6 DEF CopyInv
  <1>6. CopyComplete' /\ RunInv' /\ ClearInv' /\ AssignInv'
    BY <1>1 DEF CopyComplete, RunInv, ClearInv, AssignInv
  <1> QED
    BY <1>2, <1>3, <1>4, <1>5, <1>6 DEF IInv, Always

LEMMA CopyDoneKeeps == ASSUME IInv, CopyDone PROVE IInv'
  <1>1. /\ phase = "copy" /\ phase' = "assign" /\ index' = 1 /\ index > Len(roots)
        /\ stack = <<>> /\ UNCHANGED <<arena, act, heap, slot, roots, stack, req>>
        /\ TypeOK
    BY DEF CopyDone, IInv, Always
  <1>2. /\ In(act)' = In(act) /\ In(inactive)' = In(inactive)
        /\ OldPointers' = OldPointers /\ NewPointers' = NewPointers
        /\ WellFormed' /\ OldObjectsWhole' /\ CopiesUnforwarded' /\ Layout'
    BY <1>1, HeapUnchanged
  <1>3. TypeOK'
    BY <1>1 DEF TypeOK, Phases
  <1>4. VariablesOld' /\ ForwardsLeadToCopies'
    BY <1>1, <1>2, CopyFacts DEF VariablesOld, ForwardsLeadToCopies
  <1>5. CopyComplete'
    <2>1. \A b \in In(inactive) : \A j \in DOMAIN heap[b].kids : Written(b, j)
      BY <1>1 DEF IInv, CopyInv
    <2> QED
      BY <1>1, <1>2, <2>1 DEF CopyComplete, Written, NewPointers
  <1>6. AssignInv'
    <2>1. ASSUME NEW n \in DOMAIN roots
          PROVE  \/ slot[roots[n]] \in NewPointers
                 \/ slot[roots[n]] \in In(act) /\ heap[slot[roots[n]]].fwd # NULL /\ n >= 1
      <3>1. n < index /\ n >= 1 /\ roots[n] \in Slots
        BY <1>1 DEF TypeOK
      <3>2. Settled(slot[roots[n]]) /\ slot[roots[n]] \in OldPointers
        BY <1>1, <3>1, CopyFacts DEF IInv, CopyInv
      <3> QED
        BY <3>1, <3>2 DEF Settled, OldPointers, NewPointers
    <2> QED
      BY <1>1, <1>2, <2>1 DEF AssignInv
  <1>7. RunInv' /\ CopyInv' /\ ClearInv'
    BY <1>1 DEF RunInv, CopyInv, ClearInv
  <1> QED
    BY <1>2, <1>3, <1>4, <1>5, <1>6, <1>7 DEF IInv, Always

(***************************************************************************)
(* A field of a copy is written: it leads to a copy, and the activation    *)
(* goes on to the next field.                                              *)
(***************************************************************************)
LEMMA WriteChildKeeps == ASSUME IInv, WriteChild PROVE IInv'
  <1> DEFINE b == Top.new
             i == Top.i
             p == Copied(Child)
             kids == [heap[b].kids EXCEPT ![i] = p]
             frame == [Top EXCEPT !.i = i + 1]
  <1>1. /\ Settled(Child)
        /\ heap' = [heap EXCEPT ![b].kids = kids]
        /\ stack' = [stack EXCEPT ![Len(stack)] = frame]
        /\ UNCHANGED <<arena, act, slot, roots, phase, index, req>>
    BY DEF WriteChild, Top
  <1>2. /\ phase = "copy" /\ Len(stack) \in DOMAIN stack /\ Top \in Copying
        /\ b \in In(inactive) /\ b \in DOMAIN heap /\ heap[b].id = heap[Top.old].id
        /\ i \in DOMAIN heap[Top.old].kids
        /\ Child \in OldPointers /\ Top.old \in DOMAIN heap
    BY TopFacts DEF WriteChild
  <1>3. TypeOK /\ Layout /\ stack \in Seq(Copying) /\ b \notin In(act)
    BY <1>2, CopyFacts, SpaceFacts
  <1>4. p \in NewPointers /\ (Child # NULL => p # NULL)
    BY <1>1, <1>2, CopyFacts DEF Settled, Copied, NewPointers, OldPointers
  <1>5. p \in Pointers \cup {Garbage}
    BY <1>3, <1>4, ObjectTypes DEF NewPointers, In, Pointers
  <1>6. heap[b] \in Objects /\ heap[b].kids \in Seq(Pointers \cup {Garbage})
    BY <1>2, <1>3, ObjectTypes
  <1>7. i \in DOMAIN heap[b].kids /\ Len(heap[b].kids) = Len(heap[Top.old].kids)
    <2>1. Len(heap[b].kids) = Len(heap[Top.old].kids)
      BY <1>2 DEF IInv, Always, WellFormed
    <2> QED
      BY <1>2, <1>3, <2>1, ObjectTypes
  <1>8. /\ kids \in Seq(Pointers \cup {Garbage})
        /\ Len(kids) = Len(heap[b].kids) /\ DOMAIN kids = DOMAIN heap[b].kids
        /\ kids[i] = p
        /\ \A j \in DOMAIN kids : j # i => kids[j] = heap[b].kids[j]
    BY <1>5, <1>6, <1>7, ReplaceFacts
  <1>9. /\ frame \in Copying /\ frame.old = Top.old /\ frame.new = b /\ frame.i = i + 1
        /\ i \in Nat \ {0}
    BY <1>2 DEF Copying
  <1> HIDE DEF kids, frame, p
  <1>10. /\ stack' \in Seq(Copying) /\ DOMAIN stack' = DOMAIN stack
         /\ stack'[Len(stack)] = frame
         /\ \A k \in DOMAIN stack : k # Len(stack) => stack'[k] = stack[k]
    BY <1>1, <1>2, <1>3, <1>9, ReplaceFacts
  <1>11. /\ DOMAIN heap' = DOMAIN heap
         /\ heap'[b] = [heap[b] EXCEPT !.kids = kids]
         /\ \A x \in DOMAIN heap : x # b => heap'[x] = heap[x]
    BY <1>1, <1>2
  <1>12. heap'[b] \in Objects /\ heap'[b].kids = kids
         /\ heap'[b].id = heap[b].id /\ heap'[b].fwd = heap[b].fwd
    BY <1>6, <1>8, <1>11 DEF Objects
  <1>13. /\ In(act)' = In(act) /\ In(inactive)' = In(inactive)
         /\ OldPointers' = OldPointers /\ NewPointers' = NewPointers
    BY <1>1, <1>11 DEF In, OldPointers, NewPointers, inactive
  <1>14. /\ \A x \in DOMAIN heap : heap'[x].id = heap[x].id /\ heap'[x].fwd = heap[x].fwd
         /\ \A x \in In(act) : heap'[x] = heap[x]
    BY <1>3, <1>11, <1>12 DEF In
  <1>15. TypeOK'
    <2>1. heap' \in [DOMAIN heap' -> Objects] /\ DOMAIN heap' \subseteq Places
      BY <1>1, <1>3, <1>11, <1>12 DEF TypeOK
    <2> QED
      BY <1>1, <1>3, <1>10, <2>1 DEF TypeOK, Copying
  <1>16. Layout'
    BY <1>1, <1>3, <1>11, <1>14 DEF Layout
  <1>17. WellFormed'
    <2>1. Len(kids) = Arity[heap[b].id]
      BY <1>2, <1>8 DEF IInv, Always, WellFormed
    <2>2. Len(kids) = 3 => kids[1] # NULL /\ kids[2] # NULL
      <3>1. ASSUME Len(kids) = 3, NEW j \in {1, 2} PROVE kids[j] # NULL
        <4>1. j \in DOMAIN kids
          BY <1>8, <3>1
        <4>2. CASE j = i
          <5>1. Child # NULL
            BY <1>2, <1>7, <1>8, <3>1, <4>2 DEF Child, IInv, Always, WellFormed
          <5> QED
            BY <1>4, <1>8, <4>2, <5>1
        <4>3. CASE j # i
          BY <1>2, <1>8, <3>1, <4>1, <4>3 DEF IInv, Always, WellFormed
        <4> QED
          BY <4>2, <4>3
      <3> QED
        BY <3>1
    <2>3. ASSUME NEW x \in DOMAIN heap, x # b
          PROVE  /\ Len(heap'[x].kids) = Arity[heap'[x].id]
                 /\ Len(heap'[x].kids) = 3 =>
                        heap'[x].kids[1] # NULL /\ heap'[x].kids[2] # NULL
      <3>1. heap'[x] = heap[x]
        BY <1>11, <2>3
      <3> QED
        BY <3>1 DEF IInv, Always, WellFormed
    <2> QED
      BY <1>11, <1>12, <2>1, <2>2, <2>3 DEF WellFormed
  <1>18. OldObjectsWhole' /\ CopiesUnforwarded' /\ VariablesOld'
    <2>1. OldObjectsWhole'
      BY <1>13, <1>14 DEF IInv, Always, OldObjectsWhole
    <2>2. CopiesUnforwarded'
      BY <1>13, <1>14 DEF IInv, Always, CopiesUnforwarded, In
    <2> QED
      BY <1>1, <1>2, <1>13, <2>1, <2>2, CopyFacts DEF VariablesOld
  <1>19. ForwardsLeadToCopies'
    <2>1. \A x \in In(act) : heap[x].fwd # NULL =>
              heap[x].fwd \in In(inactive) /\ heap[heap[x].fwd].id = heap[x].id
      BY <1>2, CopyFacts
    <2> QED
      BY <1>13, <1>14, <2>1 DEF ForwardsLeadToCopies, In
  <1>20. CopyInv'
    <2>1. ASSUME NEW k \in DOMAIN stack'
          PROVE  stack'[k].old \in In(act)' /\ stack'[k].new = heap'[stack'[k].old].fwd
      <3>1. stack'[k].old = stack[k].old /\ stack'[k].new = stack[k].new
        BY <1>9, <1>10 DEF Top
      <3>2. stack[k].old \in In(act) /\ stack[k].new = heap[stack[k].old].fwd
        BY <1>2, <1>10, CopyFacts
      <3> QED
        BY <1>13, <1>14, <3>1, <3>2 DEF In
    <2>2. ASSUME NEW x \in In(inactive)', NEW j \in DOMAIN heap'[x].kids
          PROVE  Written(x, j)'
      <3>1. x \in In(inactive) /\ x \in DOMAIN heap /\ j \in DOMAIN heap[x].kids
        BY <1>8, <1>11, <1>12, <1>13 DEF In
      <3>2. CASE x = b /\ j = i
        BY <1>4, <1>8, <1>12, <1>13, <3>2 DEF Written
      <3>3. CASE x # b \/ j # i
        <4>1. heap'[x].kids[j] = heap[x].kids[j]
          BY <1>8, <1>11, <1>12, <3>1, <3>3
        <4>2. Written(x, j)
          BY <1>2, <3>1 DEF IInv, CopyInv
        <4>3. CASE heap[x].kids[j] \in NewPointers
          BY <1>13, <4>1, <4>3 DEF Written
        <4>4. ASSUME NEW k \in DOMAIN stack, stack[k].new = x, stack[k].i <= j
              PROVE  stack'[k].new = x /\ stack'[k].i <= j
          <5>1. CASE k # Len(stack)
            BY <1>10, <4>4, <5>1
          <5>2. CASE k = Len(stack)
            <6>1. x = b /\ i <= j /\ j # i
              BY <3>3, <4>4, <5>2 DEF Top
            <6>2. j \in Nat
              BY <1>3, <3>1, ObjectTypes
            <6> QED
              BY <1>9, <1>10, <5>2, <6>1, <6>2
          <5> QED
            BY <5>1, <5>2
        <4> QED
          BY <1>10, <4>2, <4>3, <4>4 DEF Written
      <3> QED
        BY <3>2, <3>3
    <2>3. ASSUME NEW n \in DOMAIN roots', n < index'
          PROVE  Settled(slot[roots[n]])'
      <3>1. Settled(slot[roots[n]])
        BY <1>1, <1>2, <2>3 DEF IInv, CopyInv
      <3>2. slot[roots[n]] \in OldPointers
        BY <1>1, <1>2, <1>3, CopyFacts DEF TypeOK
      <3> QED
        BY <1>1, <1>14, <3>1, <3>2 DEF Settled, OldPointers, In
    <2>4. ASSUME NEW x \in In(act)', heap'[x].fwd # NULL
          PROVE  RootedFrom(1, x)' \/ HasParent(x)'
      <3>1. \A y \in In(act) : Children(y)' = Children(y)
        BY <1>14 DEF Children
      <3>2. x \in In(act) /\ heap'[x].fwd = heap[x].fwd
        BY <1>13, <1>14 DEF In
      <3>3. RootedFrom(1, x) \/ HasParent(x)
        BY <1>2, <2>4, <3>2 DEF IInv, CopyInv
      <3>4. RootedFrom(1, x) => RootedFrom(1, x)'
        BY <1>1 DEF RootedFrom
      <3>5. HasParent(x) => HasParent(x)'
        BY <1>13, <1>14, <3>1, <3>2 DEF HasParent
      <3> QED
        BY <3>3, <3>4, <3>5
    <2> QED
      BY <1>10, <2>1, <2>2, <2>3, <2>4 DEF CopyInv
  <1>21. CopyComplete' /\ RunInv' /\ ClearInv' /\ AssignInv'
    BY <1>1, <1>2 DEF CopyComplete, RunInv, ClearInv, AssignInv
  <1> QED
    BY <1>15, <1>16, <1>17, <1>18, <1>19, <1>20, <1>21 DEF IInv, Always

(***************************************************************************)
(* A copy callback returns: every field of its copy is written.            *)
(***************************************************************************)
LEMMA CopyReturnKeeps == ASSUME IInv, CopyReturn PROVE IInv'
  <1>1. /\ phase = "copy" /\ stack # <<>> /\ Top.i > Len(heap[Top.old].kids)
        /\ stack' = Pop /\ UNCHANGED <<arena, act, heap, slot, roots, phase, index, req>>
        /\ TypeOK /\ stack \in Seq(Copying)
    BY CopyFacts DEF CopyReturn
  <1>2. /\ In(act)' = In(act) /\ In(inactive)' = In(inactive)
        /\ OldPointers' = OldPointers /\ NewPointers' = NewPointers
        /\ WellFormed' /\ OldObjectsWhole' /\ CopiesUnforwarded' /\ Layout'
    BY <1>1, HeapUnchanged
  <1>3. /\ Len(stack) \in DOMAIN stack
        /\ stack' \in Seq(Copying) /\ DOMAIN stack' = 1 .. Len(stack) - 1
        /\ \A k \in DOMAIN stack' : stack'[k] = stack[k]
        /\ \A k \in DOMAIN stack : k = Len(stack) \/ k \in DOMAIN stack'
    BY <1>1, PopFacts DEF Pop
  <1>4. TypeOK'
    BY <1>1, <1>3 DEF TypeOK, Copying
  <1>5. VariablesOld' /\ ForwardsLeadToCopies'
    BY <1>1, <1>2, CopyFacts DEF VariablesOld, ForwardsLeadToCopies
  <1>6. CopyInv'
    <2>1. \A k \in DOMAIN stack' :
              stack'[k].old \in In(act) /\ stack'[k].new = heap[stack'[k].old].fwd
      BY <1>1, <1>3, CopyFacts
    <2>2. ASSUME NEW x \in In(inactive), NEW j \in DOMAIN heap[x].kids
          PROVE  Written(x, j)'
      <3>1. Written(x, j)
        BY <1>1 DEF IInv, CopyInv
      <3>2. ~(Top.new = x /\ Top.i <= j)
        <4>1. SUFFICES ASSUME Top.new = x, Top.i <= j PROVE FALSE
          OBVIOUS
        <4>2. /\ Top.old \in DOMAIN heap /\ x \in DOMAIN heap
              /\ heap[x].id = heap[Top.old].id
          BY <1>1, <1>3, <4>1, CopyFacts DEF Top, In
        <4>3. Len(heap[x].kids) = Len(heap[Top.old].kids)
          BY <4>2 DEF IInv, Always, WellFormed
        <4>4. j \in Nat /\ j <= Len(heap[x].kids) /\ Len(heap[x].kids) \in Nat
          BY <1>1, <4>2, ObjectTypes
        <4>5. Top.i \in Nat
          <5>1. Top \in Copying
            BY <1>1, <1>3 DEF Top
          <5> QED
            BY <5>1 DEF Copying
        <4> QED
          BY <1>1, <4>1, <4>3, <4>4, <4>5
      <3> QED
        BY <1>1, <1>2, <1>3, <3>1, <3>2 DEF Written, Top
    <2>3. \A n \in DOMAIN roots : n < index => Settled(slot[roots[n]])'
      BY <1>1 DEF IInv, CopyInv, Settled
    <2>4. \A x \in In(act) : heap[x].fwd # NULL => RootedFrom(1, x)' \/ HasParent(x)'
      <3>1. \A x : Children(x)' = Children(x)
        BY <1>1 DEF Children
      <3>2. \A x \in In(act) : heap[x].fwd # NULL => RootedFrom(1, x) \/ HasParent(x)
        BY <1>1 DEF IInv, CopyInv
      <3> QED
        BY <1>1, <1>2, <3>1, <3>2 DEF RootedFrom, HasParent
    <2> QED
      BY <1>1, <1>2, <1>3, <2>1, <2>2, <2>3, <2>4 DEF CopyInv
  <1>7. CopyComplete' /\ RunInv' /\ ClearInv' /\ AssignInv'
    BY <1>1 DEF CopyComplete, RunInv, ClearInv, AssignInv
  <1> QED
    BY <1>2, <1>4, <1>5, <1>6, <1>7 DEF IInv, Always

-----------------------------------------------------------------------------
(***************************************************************************)
(* The get_children callbacks pass over no child: they end when every      *)
(* child is cleared, and what they return next leaves nothing behind.      *)
(***************************************************************************)
LEMMA NextChildFacts ==
    ASSUME NEW kids, NEW position,
           DOMAIN kids = 1 .. Len(kids), Len(kids) \in 0 .. 3,
           Len(kids) = 3 => kids[1] # NULL /\ kids[2] # NULL,
           Passed(kids, position)
    PROVE  LET child == NextChild(kids, position) IN
           /\ child = NULL => \A i \in DOMAIN kids : Cleared(kids[i])
           /\ child # NULL =>
                 /\ child \in {kids[i] : i \in DOMAIN kids}
                 /\ child = kids[1] \/ Cleared(kids[1])
                 /\ Len(kids) = 3 => child \in {kids[1], kids[2]} \/ Cleared(kids[2])
  <1> DEFINE child == NextChild(kids, position)
  <1>1. Cleared(NULL)
    BY DEF Cleared
  <1>2. CASE Len(kids) = 0
    BY <1>2 DEF NextChild
  <1>3. CASE Len(kids) = 1
    BY <1>1, <1>3 DEF NextChild, Passed
  <1>4. CASE Len(kids) = 2
    BY <1>1, <1>4 DEF NextChild, Passed
  <1>5. CASE Len(kids) = 3
    BY <1>1, <1>5 DEF NextChild, Passed
  <1> QED
    BY <1>2, <1>3, <1>4, <1>5

(***************************************************************************)
(* What is known while forwarding pointers are cleared.                    *)
(***************************************************************************)
LEMMA ClearFacts ==
    ASSUME IInv, phase = "clear"
    PROVE  /\ TypeOK /\ Layout /\ stack \in Seq(Clearing) /\ In(inactive) = {}
           /\ \A s \in Slots : slot[s] \in OldPointers
           /\ \A k \in DOMAIN stack :
                  /\ stack[k].at \in In(act)
                  /\ Passed(heap[stack[k].at].kids, stack[k].position)
           /\ \A x \in In(act) : heap[x].fwd # NULL =>
                  \/ RootedFrom(index, x) \/ HasParent(x)
                  \/ \E k \in DOMAIN stack : x \in Children(stack[k].at)
  BY DEF IInv, Always, VariablesOld, ClearInv

(***************************************************************************)
(* The forwarding pointer of one object is cleared.                        *)
(***************************************************************************)
LEMMA ClearedHeap ==
    ASSUME IInv, phase = "clear", NEW c \in In(act),
           heap' = [heap EXCEPT ![c].fwd = NULL], act' = act
    PROVE  /\ heap' \in [DOMAIN heap' -> Objects] /\ DOMAIN heap' = DOMAIN heap
           /\ In(act)' = In(act) /\ In(inactive)' = {} /\ OldPointers' = OldPointers
           /\ \A x \in DOMAIN heap : heap'[x].id = heap[x].id /\ heap'[x].kids = heap[x].kids
           /\ \A x \in DOMAIN heap : x # c => heap'[x].fwd = heap[x].fwd
           /\ heap'[c].fwd = NULL
           /\ \A x \in DOMAIN heap : Children(x)' = Children(x)
           /\ \A p \in OldPointers : Cleared(p) => Cleared(p)'
  <1>1. TypeOK /\ c \in DOMAIN heap /\ heap[c] \in Objects /\ In(inactive) = {}
    BY ClearFacts, ObjectTypes DEF In
  <1>2. /\ DOMAIN heap' = DOMAIN heap
        /\ heap'[c] = [heap[c] EXCEPT !.fwd = NULL]
        /\ \A x \in DOMAIN heap : x # c => heap'[x] = heap[x]
    BY <1>1
  <1>3. /\ heap'[c] \in Objects
        /\ heap'[c].id = heap[c].id /\ heap'[c].kids = heap[c].kids
        /\ heap'[c].fwd = NULL
    BY <1>1, <1>2 DEF Objects, Pointers
  <1>4. heap' \in [DOMAIN heap' -> Objects]
    BY <1>1, <1>2, <1>3 DEF TypeOK
  <1>5. /\ In(act)' = In(act) /\ In(inactive)' = {} /\ OldPointers' = OldPointers
    BY <1>1, <1>2 DEF In, OldPointers, inactive
  <1>6. /\ \A x \in DOMAIN heap : heap'[x].id = heap[x].id /\ heap'[x].kids = heap[x].kids
        /\ \A x \in DOMAIN heap : x # c => heap'[x].fwd = heap[x].fwd
    BY <1>2, <1>3
  <1>7. \A x \in DOMAIN heap : Children(x)' = Children(x)
    BY <1>6 DEF Children
  <1>8. \A p \in OldPointers : Cleared(p) => Cleared(p)'
    BY <1>3, <1>6 DEF Cleared, OldPointers, In
  <1> QED
    BY <1>2, <1>3, <1>4, <1>5, <1>6, <1>7, <1>8

LEMMA ClearKeeps ==
    ASSUME IInv, phase = "clear", NEW c \in In(act),
           heap' = [heap EXCEPT ![c].fwd = NULL],
           UNCHANGED <<arena, act, slot, roots, phase, req>>,
           index' \in Nat \ {0},
           stack' \in Seq(Clearing),
           \A k \in DOMAIN stack' :
               stack'[k].at \in In(act) /\ Passed(heap[stack[k].at].kids, stack[k].position)',
           \A k \in DOMAIN stack : \E l \in DOMAIN stack' : stack'[l].at = stack[k].at,
           \E l \in DOMAIN stack' : stack'[l].at = c,
           \A x \in In(act) : x # c /\ RootedFrom(index, x) => RootedFrom(index, x)'
    PROVE  IInv'
  <1>1. /\ heap' \in [DOMAIN heap' -> Objects] /\ DOMAIN heap' = DOMAIN heap
        /\ In(act)' = In(act) /\ In(inactive)' = {} /\ OldPointers' = OldPointers
        /\ \A x \in DOMAIN heap : heap'[x].id = heap[x].id /\ heap'[x].kids = heap[x].kids
        /\ \A x \in DOMAIN heap : x # c => heap'[x].fwd = heap[x].fwd
        /\ heap'[c].fwd = NULL
        /\ \A x \in DOMAIN heap : Children(x)' = Children(x)
    BY ClearedHeap
  <1>2. TypeOK'
    <2>1. TypeOK
      BY ClearFacts
    <2> QED
      BY <1>1, <2>1 DEF TypeOK, Clearing
  <1>3. Layout'
    <2>1. Layout
      BY ClearFacts
    <2>2. \A x \in DOMAIN heap' : heap'[x].id = heap[x].id
      BY <1>1
    <2> QED
      BY <1>1, <2>1, <2>2 DEF Layout
  <1>4. WellFormed'
    <2>1. ASSUME NEW x \in DOMAIN heap
          PROVE  /\ Len(heap'[x].kids) = Arity[heap'[x].id]
                 /\ Len(heap'[x].kids) = 3 =>
                        heap'[x].kids[1] # NULL /\ heap'[x].kids[2] # NULL
      <3>1. heap'[x].kids = heap[x].kids /\ heap'[x].id = heap[x].id
        BY <1>1
      <3> QED
        BY <3>1 DEF IInv, Always, WellFormed
    <2> QED
      BY <1>1, <2>1 DEF WellFormed
  <1>5. OldObjectsWhole'
    <2>1. ASSUME NEW x \in In(act)
          PROVE  \A i \in DOMAIN heap'[x].kids : heap'[x].kids[i] \in OldPointers
      <3>1. heap'[x].kids = heap[x].kids
        BY <1>1 DEF In
      <3> QED
        BY <3>1 DEF IInv, Always, OldObjectsWhole
    <2> QED
      BY <1>1, <2>1 DEF OldObjectsWhole
  <1>6. CopiesUnforwarded' /\ VariablesOld'
    BY <1>1, ClearFacts DEF CopiesUnforwarded, VariablesOld
  <1>7. ClearInv'
    <2>1. ASSUME NEW x \in In(act), heap'[x].fwd # NULL
          PROVE  \/ RootedFrom(index, x)'
                 \/ HasParent(x)'
                 \/ \E l \in DOMAIN stack' : x \in Children(stack[l].at)'
      <3>1. x # c /\ x \in DOMAIN heap /\ heap'[x].fwd = heap[x].fwd
        BY <1>1, <2>1 DEF In
      <3>2. \/ RootedFrom(index, x) \/ HasParent(x)
            \/ \E k \in DOMAIN stack : x \in Children(stack[k].at)
        BY <2>1, <3>1, ClearFacts
      <3>3. CASE RootedFrom(index, x)
        BY <3>1, <3>3
      <3>4. ASSUME NEW k \in DOMAIN stack, x \in Children(stack[k].at)
            PROVE  \E l \in DOMAIN stack' : x \in Children(stack[l].at)'
        <4>1. PICK l \in DOMAIN stack' : stack'[l].at = stack[k].at
          OBVIOUS
        <4>2. stack[k].at \in DOMAIN heap
          BY ClearFacts DEF In
        <4>3. Children(stack[l].at)' = Children(stack[k].at)
          BY <1>1, <4>1, <4>2
        <4> QED
          BY <3>4, <4>3
      <3>5. ASSUME NEW p \in In(act), heap[p].fwd # NULL,
                   heap[p].fwd[2] < heap[x].fwd[2], x \in Children(p)
            PROVE  \/ HasParent(x)'
                   \/ \E l \in DOMAIN stack' : x \in Children(stack[l].at)'
        <4>1. p \in DOMAIN heap /\ Children(p)' = Children(p)
          BY <1>1 DEF In
        <4>2. CASE p = c
          <5>1. PICK l \in DOMAIN stack' : stack'[l].at = c
            OBVIOUS
          <5>2. Children(stack[l].at)' = Children(c)
            BY <4>1, <4>2, <5>1
          <5> QED
            BY <3>5, <4>2, <5>2
        <4>3. CASE p # c
          BY <1>1, <3>1, <3>5, <4>1, <4>3 DEF HasParent
        <4> QED
          BY <4>2, <4>3
      <3> QED
        BY <3>2, <3>3, <3>4, <3>5 DEF HasParent
    <2> QED
      BY <1>1, <2>1 DEF ClearInv
  <1>8. ForwardsLeadToCopies' /\ CopyComplete' /\ RunInv' /\ CopyInv' /\ AssignInv'
    BY DEF ForwardsLeadToCopies, CopyComplete, RunInv, CopyInv, AssignInv
  <1> QED
    BY <1>2, <1>3, <1>4, <1>5, <1>6, <1>7, <1>8 DEF IInv, Always

(***************************************************************************)
(* gc_clear_forwarding goes on to the next root.                           *)
(***************************************************************************)
LEMMA ClearRootKeeps == ASSUME IInv, ClearRoot PROVE IInv'
  <1>1. /\ phase = "clear" /\ phase' = "clear" /\ stack = <<>> /\ index' = index + 1
        /\ index \in Nat \ {0} /\ index' \in Nat \ {0}
        /\ UNCHANGED <<arena, act, slot, roots, phase, req>>
        /\ index \in DOMAIN roots /\ roots[index] \in Slots /\ TypeOK
    BY DEF ClearRoot, IInv, Always, TypeOK
  <1>2. RootValue \in OldPointers
    BY <1>1, ClearFacts DEF RootValue
  <1>3. \A x \in In(act) : x # RootValue /\ RootedFrom(index, x) => RootedFrom(index, x)'
    BY <1>1 DEF RootedFrom, RootValue
  <1>4. CASE RootValue # NULL /\ heap[RootValue].fwd # NULL
    <2> DEFINE c == RootValue
               record == [at |-> c, position |-> NULL]
    <2>1. /\ c \in In(act) /\ heap' = [heap EXCEPT ![c].fwd = NULL] /\ stack' = <<record>>
      BY <1>2, <1>4 DEF ClearRoot, OldPointers
    <2>2. record \in Clearing /\ record.at = c /\ record.position = NULL
      BY <1>1, <2>1, ObjectTypes DEF Clearing, Pointers, In
    <2> HIDE DEF record, c
    <2>3. /\ stack' \in Seq(Clearing) /\ DOMAIN stack' = {1} /\ stack'[1] = record
      BY <2>1, <2>2
    <2>4. \A k \in DOMAIN stack' :
            stack'[k].at \in In(act) /\ Passed(heap[stack[k].at].kids, stack[k].position)'
      BY <2>1, <2>2, <2>3 DEF Passed
    <2>5. DOMAIN stack = {}
      BY <1>1
    <2>6. \A x \in In(act) : x # c /\ RootedFrom(index, x) => RootedFrom(index, x)'
      BY <1>3 DEF c
    <2>7. \E l \in DOMAIN stack' : stack'[l].at = c
      BY <2>2, <2>3
    <2> QED
      BY <1>1, <2>1, <2>3, <2>4, <2>5, <2>6, <2>7, ClearKeeps
  <1>5. CASE ~(RootValue # NULL /\ heap[RootValue].fwd # NULL)
    <2>1. heap' = heap /\ stack' = stack
      BY <1>5 DEF ClearRoot
    <2>2. /\ In(act)' = In(act) /\ In(inactive)' = In(inactive)
          /\ OldPointers' = OldPointers
          /\ WellFormed' /\ OldObjectsWhole' /\ CopiesUnforwarded' /\ Layout'
      BY <1>1, <2>1, HeapUnchanged
    <2>3. TypeOK'
      BY <1>1, <2>1 DEF TypeOK
    <2>4. ClearInv'
      <3>1. \A x : Children(x)' = Children(x)
        BY <2>1 DEF Children
      <3>2. ASSUME NEW x \in In(act), heap[x].fwd # NULL
            PROVE  RootedFrom(index, x)' \/ HasParent(x)'
        <4>1. x # RootValue
          BY <1>1, <1>5, <3>2, GcAssumption, ObjectTypes DEF In
        <4>2. RootedFrom(index, x) \/ HasParent(x)
          BY <1>1, <3>2, ClearFacts
        <4>3. HasParent(x) => HasParent(x)'
          BY <2>1, <2>2, <3>1 DEF HasParent
        <4> QED
          BY <1>3, <4>1, <4>2, <4>3
      <3>3. stack' \in Seq(Clearing) /\ DOMAIN stack' = {}
        BY <1>1, <2>1
      <3> QED
        BY <1>1, <2>1, <2>2, <3>2, <3>3, ClearFacts DEF ClearInv
    <2>5. VariablesOld'
      BY <1>1, <2>2, ClearFacts DEF VariablesOld
    <2>6. ForwardsLeadToCopies' /\ CopyComplete' /\ RunInv' /\ CopyInv' /\ AssignInv'
      BY <1>1 DEF ForwardsLeadToCopies, CopyComplete, RunInv, CopyInv, AssignInv
    <2> QED
      BY <2>2, <2>3, <2>4, <2>5, <2>6 DEF IInv, Always
  <1> QED
    BY <1>4, <1>5

(***************************************************************************)
(* An activation of gc_clear_forwarding_object looks at its next child.    *)
(***************************************************************************)
LEMMA ClearChildKeeps == ASSUME IInv, ClearChild PROVE IInv'
  <1> DEFINE at == Top.at
             kids == heap[at].kids
             child == NextChild(kids, Top.position)
             moved == [Top EXCEPT !.position = child]
             next == [stack EXCEPT ![Len(stack)] = moved]
  <1>1. /\ phase = "clear" /\ phase' = "clear" /\ stack # <<>> /\ index' = index
        /\ UNCHANGED <<arena, act, slot, roots, phase, req>>
        /\ TypeOK /\ stack \in Seq(Clearing) /\ In(inactive) = {}
    BY ClearFacts DEF ClearChild
  <1>2. Len(stack) \in DOMAIN stack /\ Top \in Clearing /\ index \in Nat \ {0}
    BY <1>1, PopFacts DEF Top, TypeOK
  <1>3. at \in In(act) /\ at \in DOMAIN heap /\ Passed(kids, Top.position)
    BY <1>1, <1>2, ClearFacts DEF Top, In
  <1>4. /\ DOMAIN kids = 1 .. Len(kids) /\ Len(kids) \in 0 .. 3
        /\ Len(kids) = 3 => kids[1] # NULL /\ kids[2] # NULL
        /\ \A i \in DOMAIN kids : kids[i] \in OldPointers
    <2>1. Len(kids) = Arity[heap[at].id] /\ heap[at].id \in Ids
      BY <1>1, <1>3, ObjectTypes DEF IInv, Always, WellFormed
    <2>2. Len(kids) \in 0 .. 3
      BY <2>1, GcAssumption
    <2> QED
      BY <1>1, <1>3, <2>2, ObjectTypes DEF IInv, Always, WellFormed, OldObjectsWhole
  <1>5. /\ child = NULL => \A i \in DOMAIN kids : Cleared(kids[i])
        /\ child # NULL =>
              /\ child \in {kids[i] : i \in DOMAIN kids}
              /\ child = kids[1] \/ Cleared(kids[1])
              /\ Len(kids) = 3 => child \in {kids[1], kids[2]} \/ Cleared(kids[2])
    BY <1>3, <1>4, NextChildFacts
  <1>6. \/ child = NULL /\ stack' = Pop /\ heap' = heap
        \/ child # NULL /\ heap[child].fwd = NULL /\ stack' = next /\ heap' = heap
        \/ /\ child # NULL /\ heap[child].fwd # NULL
           /\ heap' = [heap EXCEPT ![child].fwd = NULL]
           /\ stack' = Append(next, [at |-> child, position |-> NULL])
    BY DEF ClearChild, Top
  <1> HIDE DEF child
  \* Where the fields do not change, only the stack and what it justifies matter.
  <1>7. ASSUME heap' = heap, stack' \in Seq(Clearing),
               \A k \in DOMAIN stack' :
                   stack'[k].at \in In(act) /\ Passed(heap[stack[k].at].kids, stack[k].position)',
               \A x \in In(act) : \A k \in DOMAIN stack :
                   heap[x].fwd # NULL /\ x \in Children(stack[k].at) =>
                       \E l \in DOMAIN stack' : stack'[l].at = stack[k].at
        PROVE  IInv'
    <2>1. /\ In(act)' = In(act) /\ In(inactive)' = In(inactive)
          /\ OldPointers' = OldPointers
          /\ WellFormed' /\ OldObjectsWhole' /\ CopiesUnforwarded' /\ Layout'
      BY <1>1, <1>7, HeapUnchanged
    <2>2. TypeOK'
      BY <1>1, <1>7 DEF TypeOK, Clearing
    <2>3. \A x : Children(x)' = Children(x)
      BY <1>7 DEF Children
    <2>4. ASSUME NEW x \in In(act), heap[x].fwd # NULL
          PROVE  \/ RootedFrom(index, x)' \/ HasParent(x)'
                 \/ \E l \in DOMAIN stack' : x \in Children(stack[l].at)'
      <3>1. \/ RootedFrom(index, x) \/ HasParent(x)
            \/ \E k \in DOMAIN stack : x \in Children(stack[k].at)
        BY <1>1, <2>4, ClearFacts
      <3>2. RootedFrom(index, x) => RootedFrom(index, x)'
        BY <1>1 DEF RootedFrom
      <3>3. HasParent(x) => HasParent(x)'
        BY <1>7, <2>1, <2>3 DEF HasParent
      <3>4. ASSUME NEW k \in DOMAIN stack, x \in Children(stack[k].at)
            PROVE  \E l \in DOMAIN stack' : x \in Children(stack[l].at)'
        <4>1. PICK l \in DOMAIN stack' : stack'[l].at = stack[k].at
          BY <1>7, <2>4, <3>4
        <4>2. Children(stack[l].at)' = Children(stack[k].at)
          BY <1>7, <4>1 DEF Children
        <4> QED
          BY <3>4, <4>2
      <3> QED
        BY <3>1, <3>2, <3>3, <3>4
    <2>5. ClearInv'
      BY <1>1, <1>7, <2>1, <2>4 DEF ClearInv
    <2>6. VariablesOld'
      BY <1>1, <2>1, ClearFacts DEF VariablesOld
    <2>7. ForwardsLeadToCopies' /\ CopyComplete' /\ RunInv' /\ CopyInv' /\ AssignInv'
      BY <1>1 DEF ForwardsLeadToCopies, CopyComplete, RunInv, CopyInv, AssignInv
    <2> QED
      BY <2>1, <2>2, <2>5, <2>6, <2>7 DEF IInv, Always
  <1>8. CASE child = NULL /\ stack' = Pop /\ heap' = heap
    <2>1. /\ stack' \in Seq(Clearing) /\ DOMAIN stack' = 1 .. Len(stack) - 1
          /\ \A k \in DOMAIN stack' : k \in DOMAIN stack /\ stack'[k] = stack[k]
          /\ \A k \in DOMAIN stack : k = Len(stack) \/ k \in DOMAIN stack'
      BY <1>1, <1>8, PopFacts DEF Pop
    <2>2. \A k \in DOMAIN stack' :
             stack'[k].at \in In(act) /\ Passed(heap[stack[k].at].kids, stack[k].position)'
      <3>1. ASSUME NEW k \in DOMAIN stack'
            PROVE  stack'[k].at \in In(act) /\ Passed(heap[stack[k].at].kids, stack[k].position)'
        <4>1. stack'[k].at \in In(act) /\ Passed(heap[stack[k].at].kids, stack[k].position)
          BY <1>1, <2>1, ClearFacts
        <4> QED
          BY <1>8, <2>1, <4>1 DEF Passed, Cleared
      <3> QED
        BY <3>1
    <2>3. \A x \in In(act) : heap[x].fwd # NULL => x \notin Children(at)
      BY <1>5, <1>8 DEF Children, Cleared
    <2>4. \A x \in In(act) : \A k \in DOMAIN stack :
             heap[x].fwd # NULL /\ x \in Children(stack[k].at) =>
                 \E l \in DOMAIN stack' : stack'[l].at = stack[k].at
      BY <2>1, <2>3 DEF Top
    <2> QED
      BY <1>7, <1>8, <2>1, <2>2, <2>4
  <1>9. ASSUME child # NULL
        PROVE  /\ moved \in Clearing /\ moved.at = at /\ moved.position = child
               /\ next \in Seq(Clearing) /\ DOMAIN next = DOMAIN stack
               /\ next[Len(stack)] = moved
               /\ \A k \in DOMAIN stack : k # Len(stack) => next[k] = stack[k]
               /\ child \in In(act)
    <2>1. child \in In(act) /\ child \in Pointers
      BY <1>1, <1>4, <1>5, <1>9, ObjectTypes DEF OldPointers, Pointers, In
    <2>2. moved \in Clearing /\ moved.at = at /\ moved.position = child
      BY <1>2, <2>1 DEF Clearing
    <2> HIDE DEF moved
    <2> QED
      BY <1>1, <1>2, <2>1, <2>2, ReplaceFacts
  <1> HIDE DEF moved, next
  <1>10. CASE child # NULL /\ heap[child].fwd = NULL /\ stack' = next /\ heap' = heap
    <2>1. Passed(kids, child)
      BY <1>5, <1>10 DEF Passed, Cleared
    <2>2. ASSUME NEW k \in DOMAIN stack'
          PROVE  stack'[k].at \in In(act) /\ Passed(heap[stack[k].at].kids, stack[k].position)'
      <3>1. CASE k = Len(stack)
        BY <1>3, <1>9, <1>10, <2>1, <3>1 DEF Passed, Cleared
      <3>2. CASE k # Len(stack)
        <4>1. stack'[k] = stack[k] /\ k \in DOMAIN stack
          BY <1>9, <1>10, <3>2
        <4>2. stack[k].at \in In(act) /\ Passed(heap[stack[k].at].kids, stack[k].position)
          BY <1>1, <4>1, ClearFacts
        <4> QED
          BY <1>10, <4>1, <4>2 DEF Passed, Cleared
      <3> QED
        BY <3>1, <3>2
    <2>3. \A k \in DOMAIN stack : k \in DOMAIN stack' /\ stack'[k].at = stack[k].at
      BY <1>9, <1>10 DEF Top
    <2> QED
      BY <1>7, <1>9, <1>10, <2>2, <2>3
  <1>11. CASE /\ child # NULL /\ heap[child].fwd # NULL
              /\ heap' = [heap EXCEPT ![child].fwd = NULL]
              /\ stack' = Append(next, [at |-> child, position |-> NULL])
    <2> DEFINE record == [at |-> child, position |-> NULL]
    <2>1. record \in Clearing /\ record.at = child /\ record.position = NULL
      BY <1>1, <1>9, <1>11, ObjectTypes DEF Clearing, Pointers, In
    <2> HIDE DEF record
    <2>2. /\ stack' \in Seq(Clearing) /\ DOMAIN stack' = DOMAIN stack \cup {Len(stack) + 1}
          /\ \A k \in DOMAIN stack : stack'[k] = next[k]
          /\ stack'[Len(stack) + 1] = record
          /\ Len(stack) + 1 \notin DOMAIN stack
      <3>1. stack' = Append(next, record)
        BY <1>11 DEF record
      <3>2. Len(next) = Len(stack)
        BY <1>1, <1>9, <1>11, LenProperties
      <3> QED
        BY <1>1, <1>9, <1>11, <2>1, <3>1, <3>2, PushFacts
    <2>3. /\ \A x \in DOMAIN heap : heap'[x].kids = heap[x].kids
          /\ heap'[child].fwd = NULL
          /\ \A p \in OldPointers : Cleared(p) => Cleared(p)'
      BY <1>1, <1>9, <1>11, ClearedHeap
    <2>4. ASSUME NEW x \in In(act), NEW p, Passed(heap[x].kids, p)
          PROVE  Passed(heap[x].kids, p)'
      <3>1. /\ x \in DOMAIN heap /\ \A i \in DOMAIN heap[x].kids : heap[x].kids[i] \in OldPointers
            /\ DOMAIN heap[x].kids = 1 .. Len(heap[x].kids) /\ Len(heap[x].kids) \in Nat
        BY <1>1, ObjectTypes DEF In, IInv, Always, OldObjectsWhole
      <3>2. p # NULL => 1 \in DOMAIN heap[x].kids
        BY <2>4, <3>1 DEF Passed
      <3>3. Len(heap[x].kids) = 3 => 2 \in DOMAIN heap[x].kids
        BY <3>1
      <3> QED
        BY <2>3, <2>4, <3>1, <3>2, <3>3 DEF Passed
    <2>5. PICK c \in In(act), t \in In(act) : c = child /\ t = at
      BY <1>3, <1>9, <1>11
    <2>6. Passed(heap[t].kids, c)'
      <3>1. /\ heap[t].kids = kids /\ heap'[t].kids = kids
            /\ kids[1] \in OldPointers /\ (Len(kids) = 3 => kids[2] \in OldPointers)
        BY <1>3, <1>4, <1>5, <1>11, <2>3, <2>5
      <3>2. Cleared(c)'
        BY <2>3, <2>5 DEF Cleared
      <3>3. c = kids[1] \/ Cleared(kids[1])
        BY <1>5, <1>11, <2>5
      <3>4. Len(kids) = 3 => c \in {kids[1], kids[2]} \/ Cleared(kids[2])
        BY <1>5, <1>11, <2>5
      <3>5. c \in {kids[j] : j \in DOMAIN kids}
        BY <1>5, <1>11, <2>5
      <3>6. PICK k1, k2 : k1 = kids[1] /\ k2 = kids[2]
        OBVIOUS
      <3>7. Cleared(k1)' /\ (Len(kids) = 3 /\ c # k1 => Cleared(k2)')
        BY <2>3, <3>1, <3>2, <3>3, <3>4, <3>6
      <3> HIDE DEF kids, at
      <3> QED
        BY <3>1, <3>2, <3>5, <3>6, <3>7 DEF Passed
    <2>7. ASSUME NEW k \in DOMAIN stack'
          PROVE  stack'[k].at \in In(act) /\ Passed(heap[stack[k].at].kids, stack[k].position)'
      <3>1. CASE k = Len(stack) + 1
        BY <1>9, <1>11, <2>1, <2>2, <3>1 DEF Passed
      <3>2. CASE k = Len(stack)
        <4>1. stack'[k] = moved
          BY <1>2, <1>9, <1>11, <2>2, <3>2
        <4>2. stack'[k].at = t /\ stack'[k].position = c
          BY <1>9, <1>11, <2>5, <4>1
        <4> QED
          BY <2>5, <2>6, <4>2
      <3>3. CASE k \in DOMAIN stack /\ k # Len(stack)
        <4>1. stack'[k] = stack[k]
          BY <1>9, <1>11, <2>2, <3>3
        <4>2. PICK x, p : x = stack[k].at /\ p = stack[k].position
          OBVIOUS
        <4>3. x \in In(act) /\ Passed(heap[x].kids, p)
          BY <1>1, <3>3, <4>2, ClearFacts
        <4>4. Passed(heap[x].kids, p)'
          BY <2>4, <4>3
        <4> QED
          BY <4>1, <4>2, <4>3, <4>4
      <3> QED
        BY <2>2, <3>1, <3>2, <3>3
    <2>8. \A k \in DOMAIN stack : \E l \in DOMAIN stack' : stack'[l].at = stack[k].at
      <3>1. \A k \in DOMAIN stack : k \in DOMAIN stack' /\ stack'[k].at = stack[k].at
        BY <1>9, <1>11, <2>2 DEF Top
      <3> QED
        BY <3>1
    <2>9. \E l \in DOMAIN stack' : stack'[l].at = c
      BY <2>1, <2>2, <2>5
    <2>10. \A x \in In(act) : x # c /\ RootedFrom(index, x) => RootedFrom(index, x)'
      BY <1>1 DEF RootedFrom
    <2>11. heap' = [heap EXCEPT ![c].fwd = NULL]
      BY <1>11, <2>5
    <2> QED
      BY <1>1, <1>2, <2>2, <2>7, <2>8, <2>9, <2>10, <2>11, ClearKeeps
  <1> QED
    BY <1>6, <1>8, <1>10, <1>11

(***************************************************************************)
(* Clearing is over.  A forwarding pointer that were left would have a     *)
(* parent with one that leads to a lower address, and so on without end.   *)
(***************************************************************************)
LEMMA AllCleared ==
    ASSUME IInv, phase = "clear", stack = <<>>, index > Len(roots)
    PROVE  \A a \in In(act) : heap[a].fwd = NULL
  <1> DEFINE offsets == {heap[a].fwd[2] : a \in {x \in In(act) : heap[x].fwd # NULL}}
  <1>1. TypeOK
    BY ClearFacts
  <1>2. ASSUME NEW a \in In(act), heap[a].fwd # NULL
        PROVE  heap[a].fwd[2] \in Nat /\ HasParent(a)
    <2>1. heap[a].fwd \in Places
      BY <1>1, <1>2, ObjectTypes DEF In, Pointers
    <2>2. ~RootedFrom(index, a)
      BY <1>1 DEF RootedFrom, TypeOK
    <2> QED
      BY <1>2, <2>1, <2>2, ClearFacts DEF Places
  <1>3. SUFFICES ASSUME NEW a \in In(act), heap[a].fwd # NULL PROVE FALSE
    OBVIOUS
  <1>4. offsets \in SUBSET Nat /\ offsets # {}
    BY <1>2, <1>3
  <1>5. PICK least \in offsets : \A y \in offsets : least <= y
    BY <1>4, LeastElement
  <1>6. PICK x \in In(act) : heap[x].fwd # NULL /\ heap[x].fwd[2] = least
    BY <1>5
  <1>7. PICK p \in In(act) : heap[p].fwd # NULL /\ heap[p].fwd[2] < heap[x].fwd[2]
    BY <1>2, <1>6 DEF HasParent
  <1>8. heap[p].fwd[2] \in offsets /\ heap[p].fwd[2] \in Nat /\ least \in Nat
    BY <1>2, <1>4, <1>5, <1>7
  <1> HIDE DEF offsets
  <1> QED
    BY <1>5, <1>6, <1>7, <1>8

LEMMA ClearDoneKeeps == ASSUME IInv, ClearDone PROVE IInv'
  <1>1. /\ phase = "clear" /\ stack = <<>> /\ index > Len(roots)
        /\ phase' = "copy" /\ index' = 1
        /\ UNCHANGED <<arena, act, heap, slot, roots, stack, req>>
    BY DEF ClearDone
  <1>2. TypeOK'
    BY <1>1, ClearFacts DEF TypeOK, Phases
  <1>3. Layout'
    BY <1>1, HeapUnchanged
  <1> QED
    BY <1>1, <1>2, <1>3, AllCleared, ClearFacts, EnterCopy

-----------------------------------------------------------------------------
(***************************************************************************)
(* The roots are updated one after the other.                              *)
(***************************************************************************)
LEMMA AssignRootKeeps == ASSUME IInv, AssignRoot PROVE IInv'
  <1> DEFINE s == roots[index]
  <1>1. /\ phase = "assign" /\ phase' = "assign" /\ index \in DOMAIN roots /\ s \in Slots
        /\ index' = index + 1 /\ index \in Nat \ {0} /\ TypeOK /\ stack = <<>>
        /\ UNCHANGED <<arena, act, heap, roots, phase, stack, req>>
    BY DEF AssignRoot, IInv, Always, TypeOK, AssignInv
  <1>2. /\ In(act)' = In(act) /\ In(inactive)' = In(inactive)
        /\ OldPointers' = OldPointers /\ NewPointers' = NewPointers
        /\ WellFormed' /\ OldObjectsWhole' /\ CopiesUnforwarded' /\ Layout'
    BY <1>1, HeapUnchanged
  <1>3. PICK v : /\ slot' = [slot EXCEPT ![s] = v]
                 /\ v \in NewPointers
    <2>1. \/ slot[s] \in NewPointers
          \/ slot[s] \in In(act) /\ heap[slot[s]].fwd # NULL
      BY <1>1 DEF IInv, AssignInv
    <2>2. CASE RootValue = NULL \/ heap[RootValue].fwd = NULL
      <3>1. slot' = slot
        BY <2>2 DEF AssignRoot
      <3>2. slot' = [slot EXCEPT ![s] = slot[s]]
        BY <1>1, <3>1 DEF TypeOK
      <3>3. slot[s] \in NewPointers
        BY <1>1, <2>1, <2>2, ObjectTypes DEF RootValue, In
      <3> QED
        BY <3>2, <3>3
    <2>3. CASE RootValue # NULL /\ heap[RootValue].fwd # NULL
      <3>1. slot' = [slot EXCEPT ![s] = heap[slot[s]].fwd]
        BY <2>3 DEF AssignRoot, RootValue
      <3>2. slot[s] \in In(act)
        BY <2>1, <2>3 DEF RootValue, NewPointers, IInv, Always, CopiesUnforwarded
      <3>3. heap[slot[s]].fwd \in NewPointers
        BY <1>1, <2>3, <3>2 DEF RootValue, NewPointers, IInv, ForwardsLeadToCopies
      <3> QED
        BY <3>1, <3>3
    <2> QED
      BY <2>2, <2>3
  <1> HIDE DEF s
  <1>4. TypeOK'
    <2>1. v \in Pointers
      BY <1>1, <1>3, ObjectTypes DEF NewPointers, In, Pointers
    <2> QED
      BY <1>1, <1>3, <2>1 DEF TypeOK
  <1>5. ForwardsLeadToCopies' /\ CopyComplete'
    BY <1>1, <1>2 DEF IInv, ForwardsLeadToCopies, CopyComplete
  <1>6. AssignInv'
    <2>1. ASSUME NEW n \in DOMAIN roots
          PROVE  \/ slot'[roots[n]] \in NewPointers
                 \/ /\ n >= index + 1 /\ slot'[roots[n]] \in In(act)
                    /\ heap[slot'[roots[n]]].fwd # NULL
      <3>1. roots[n] \in Slots /\ slot \in [Slots -> Pointers] /\ n \in Nat
        BY <1>1 DEF TypeOK
      <3>2. CASE roots[n] = s
        BY <1>3, <3>1, <3>2
      <3>3. CASE roots[n] # s
        <4>1. n # index /\ slot'[roots[n]] = slot[roots[n]]
          BY <1>3, <3>1, <3>3 DEF s
        <4>2. \/ slot[roots[n]] \in NewPointers
              \/ n >= index /\ slot[roots[n]] \in In(act) /\ heap[slot[roots[n]]].fwd # NULL
          BY <1>1 DEF IInv, AssignInv
        <4> QED
          BY <1>1, <3>1, <4>1, <4>2
      <3> QED
        BY <3>2, <3>3
    <2> QED
      BY <1>1, <1>2, <2>1 DEF AssignInv
  <1>7. VariablesOld' /\ RunInv' /\ CopyInv' /\ ClearInv'
    BY <1>1 DEF VariablesOld, RunInv, CopyInv, ClearInv
  <1> QED
    BY <1>2, <1>4, <1>5, <1>6, <1>7 DEF IInv, Always

(***************************************************************************)
(* The spaces change their roles: the copies are all there is.             *)
(***************************************************************************)
LEMMA FinishKeeps == ASSUME IInv, FinishCollect PROVE IInv'
  <1>1. /\ phase = "assign" /\ phase' = "run" /\ index > Len(roots) /\ stack = <<>>
        /\ arena' = [arena EXCEPT ![act] = ArenaReset(@)]
        /\ act' = inactive /\ heap' = Keep(heap, In(inactive))
        /\ slot' = [s \in Slots |-> IF Rooted(s) THEN slot[s] ELSE NULL]
        /\ index' = 1
        /\ req' = IF req.stage = "collect" THEN NULL ELSE req
        /\ UNCHANGED <<roots, stack>>
    BY DEF FinishCollect, IInv, AssignInv
  <1>2. /\ TypeOK /\ Layout /\ act \in Spaces /\ inactive \in Spaces /\ inactive # act
        /\ req \in Requests
    BY <1>1, SpaceFacts DEF IInv, Always, TypeOK
  <1>3. /\ DOMAIN heap' = In(inactive) /\ \A x \in In(inactive) : heap'[x] = heap[x]
        /\ In(inactive) \subseteq DOMAIN heap
    BY <1>1 DEF Keep, In
  <1>4. /\ In(act)' = In(inactive) /\ In(inactive)' = {} /\ OldPointers' = NewPointers
    <2>1. inactive' = act
      BY <1>1, <1>2 DEF inactive, Spaces
    <2>2. In(act)' = In(inactive)
      BY <1>1, <1>3 DEF In
    <2>3. In(inactive)' = {}
      BY <1>2, <1>3, <2>1 DEF In
    <2> QED
      BY <2>2, <2>3 DEF OldPointers, NewPointers
  <1>5. \A s \in Slots : slot'[s] \in NewPointers
    <2>1. ASSUME NEW s \in Slots, Rooted(s)
          PROVE  slot[s] \in NewPointers
      <3>1. PICK n \in DOMAIN roots : roots[n] = s
        BY <2>1 DEF Rooted
      <3>2. ~(n >= index)
        BY <1>1, <1>2 DEF TypeOK
      <3> QED
        BY <1>1, <3>1, <3>2 DEF IInv, AssignInv
    <2> QED
      BY <1>1, <2>1 DEF NewPointers
  <1>6. /\ arena' \in [Spaces -> Arenas]
        /\ \A t \in Spaces : t = act \/ arena'[t] = arena[t]
        /\ arena'[act].base <= arena'[act].next /\ arena'[act].next <= arena'[act].end
    <2>1. /\ arena[act] \in Arenas /\ arena[act].base <= arena[act].end
          /\ arena[act].base \in Nat
      BY <1>2, ArenaTypes
    <2>2. /\ ArenaReset(arena[act]) \in Arenas
          /\ ArenaReset(arena[act]).base = arena[act].base
          /\ ArenaReset(arena[act]).next = arena[act].base
          /\ ArenaReset(arena[act]).end = arena[act].end
      BY <2>1 DEF ArenaReset, Arenas
    <2> QED
      BY <1>1, <1>2, <2>1, <2>2 DEF TypeOK
  <1>7. req' = NULL \/ (req' \in Requests /\ req'.id \in Ids)
    BY <1>1, <1>2 DEF Requests
  <1>8. TypeOK'
    <2>1. heap \in [DOMAIN heap -> Objects] /\ DOMAIN heap' \subseteq Places
      BY <1>2, <1>3 DEF TypeOK
    <2>2. heap' \in [DOMAIN heap' -> Objects]
      BY <1>1, <1>3, <2>1 DEF Keep
    <2>3. slot' \in [Slots -> Pointers]
      BY <1>1, <1>2 DEF TypeOK, Pointers
    <2> QED
      BY <1>1, <1>2, <1>6, <1>7, <2>1, <2>2, <2>3 DEF TypeOK, Phases
  <1>9. Layout'
    <2>1. \A x \in DOMAIN heap' : heap'[x].id = heap[x].id /\ x[1] # act
      BY <1>2, <1>3 DEF In
    <2> QED
      BY <1>2, <1>3, <1>6, <2>1, LayoutShrinks
  <1>10. WellFormed'
    BY <1>3 DEF IInv, Always, WellFormed
  <1>11. OldObjectsWhole'
    BY <1>1, <1>3, <1>4 DEF IInv, CopyComplete, OldObjectsWhole, NewPointers
  <1>12. \A x \in In(act)' : heap'[x].fwd = NULL
    BY <1>3, <1>4 DEF IInv, Always, CopiesUnforwarded
  <1> QED
    BY <1>1, <1>4, <1>5, <1>7, <1>8, <1>9, <1>10, <1>11, <1>12, RunKeeps

-----------------------------------------------------------------------------
LEMMA StepKeeps == IInv /\ [Next]_vars => IInv'
  <1> SUFFICES ASSUME IInv, [Next]_vars PROVE IInv'
    OBVIOUS
  <1>1. CASE Client
    <2>1. ASSUME NEW s \in Slots, Root(s) \/ Unroot(s) PROVE IInv'
      BY <2>1, RootKeeps
    <2>2. ASSUME NEW s \in Slots, Assign(s, NULL) PROVE IInv'
      BY <2>2, MoveKeeps
    <2>3. ASSUME NEW s \in Slots, NEW t \in Slots, Assign(s, slot[t]) \/ Load(s, t)
          PROVE  IInv'
      BY <2>3, MoveKeeps
    <2>4. ASSUME NEW o \in Slots, NEW v \in Slots, NEW i \in 1 .. 3, Store(o, i, v)
          PROVE  IInv'
      BY <2>4, StoreKeeps
    <2>5. CASE (\E id \in Ids : Request(id)) \/ RequestCollect
      BY <2>5, RequestKeeps
    <2> QED
      BY <1>1, <2>1, <2>2, <2>3, <2>4, <2>5 DEF Client
  <1>2. CASE Allocate
    <2>1. ASSUME Waiting, NEW s \in Slots, NEW from \in Sources(req.id), AllocOk(s, from)
          PROVE  IInv'
      BY <2>1, AllocKeeps
    <2> QED
      BY <1>2, <2>1, AllocCollectKeeps, AllocGrowKeeps DEF Allocate
  <1>3. CASE Collect
    BY <1>3, CopyRootKeeps, SkipRootKeeps, CopyChildKeeps, WriteChildKeeps,
       CopyReturnKeeps, CopyDoneKeeps, ClearRootKeeps, ClearChildKeeps, ClearDoneKeeps,
       AssignRootKeeps, FinishKeeps DEF Collect
  <1>4. CASE Exited \/ UNCHANGED vars
    <2>1. UNCHANGED <<arena, act, heap, slot, roots, phase, index, stack, req>>
      BY <1>4 DEF Exited, vars
    <2>2. /\ In(act)' = In(act) /\ In(inactive)' = In(inactive)
          /\ OldPointers' = OldPointers /\ NewPointers' = NewPointers
          /\ WellFormed' /\ OldObjectsWhole' /\ CopiesUnforwarded' /\ Layout'
      BY <2>1, HeapUnchanged
    <2>3. TypeOK'
      BY <2>1 DEF IInv, Always, TypeOK
    <2>4. VariablesOld' /\ ForwardsLeadToCopies' /\ CopyComplete' /\ RunInv' /\ AssignInv'
      BY <2>1, <2>2 DEF IInv, VariablesOld, ForwardsLeadToCopies, CopyComplete, RunInv,
                        AssignInv
    <2>5. /\ \A x : Children(x)' = Children(x)
          /\ \A x : RootedFrom(1, x) => RootedFrom(1, x)'
          /\ \A x : RootedFrom(index, x) => RootedFrom(index, x)'
      BY <2>1 DEF Children, RootedFrom
    <2>6. ASSUME NEW x \in In(act), HasParent(x) PROVE HasParent(x)'
      <3>1. PICK p \in In(act) : /\ heap[p].fwd # NULL
                                 /\ heap[p].fwd[2] < heap[x].fwd[2]
                                 /\ x \in Children(p)
        BY <2>6 DEF HasParent
      <3> QED
        BY <2>1, <2>2, <2>5, <3>1 DEF HasParent
    <2>7. CopyInv'
      <3>1. \A b, j : Written(b, j) => Written(b, j)'
        BY <2>1, <2>2 DEF Written
      <3>2. \A p : Settled(p) => Settled(p)'
        BY <2>1 DEF Settled
      <3> SUFFICES ASSUME phase = "copy" PROVE CopyInv'
        BY <2>1 DEF CopyInv
      <3>3. /\ stack \in Seq(Copying)
            /\ \A k \in DOMAIN stack :
                  stack[k].old \in In(act) /\ stack[k].new = heap[stack[k].old].fwd
            /\ \A b \in In(inactive) : \A j \in DOMAIN heap[b].kids : Written(b, j)'
            /\ \A n \in DOMAIN roots : n < index => Settled(slot[roots[n]])'
            /\ \A a \in In(act) : heap[a].fwd # NULL => RootedFrom(1, a)' \/ HasParent(a)'
        BY <2>1, <2>5, <2>6, <3>1, <3>2 DEF IInv, CopyInv
      <3> QED
        BY <2>1, <2>2, <3>3 DEF CopyInv
    <2>8. ClearInv'
      <3>1. \A kids, position : Passed(kids, position) => Passed(kids, position)'
        BY <2>1 DEF Passed, Cleared
      <3> SUFFICES ASSUME phase = "clear" PROVE ClearInv'
        BY <2>1 DEF ClearInv
      <3>2. /\ stack \in Seq(Clearing) /\ In(inactive) = {}
            /\ \A k \in DOMAIN stack :
                  /\ stack[k].at \in In(act)
                  /\ Passed(heap[stack[k].at].kids, stack[k].position)
            /\ \A a \in In(act) :
                  heap[a].fwd # NULL =>
                      \/ RootedFrom(index, a)' \/ HasParent(a)'
                      \/ \E k \in DOMAIN stack : a \in Children(stack[k].at)
        BY <2>5, <2>6, ClearFacts
      <3>3. \A k \in DOMAIN stack : Passed(heap[stack[k].at].kids, stack[k].position)'
        BY <2>1, <3>1, <3>2
      <3>4. \A k \in DOMAIN stack : Children(stack[k].at)' = Children(stack[k].at)
        BY <2>1 DEF Children
      <3> QED
        BY <2>1, <2>2, <3>2, <3>3, <3>4 DEF ClearInv
    <2> QED
      BY <2>2, <2>3, <2>4, <2>7, <2>8 DEF IInv, Always
  <1> QED
    BY <1>1, <1>2, <1>3, <1>4 DEF Next

LEMMA AlwaysIInv == Spec => []IInv
  BY InitEstablishes, StepKeeps, PTL DEF Spec

\* The variables of the collector keep their types, whatever the sizes, arities
\* and word size are.
THEOREM TypesAlwaysOK == Spec => []TypeOK
  BY AlwaysIInv, PTL DEF IInv, Always

\* Every object is inside the used part of its arena, aligned and apart from all
\* others, for every size, alignment and order of copies.
THEOREM LayoutAlways == Spec => []Layout
  BY AlwaysIInv, PTL DEF IInv, Always

\* A forwarding pointer always leads to a copy of that object that still exists,
\* however many attempts were abandoned.
THEOREM ForwardsAlwaysLeadToCopies == Spec => []ForwardsLeadToCopies
  BY AlwaysIInv, PTL DEF IInv

\* Once the roots are updated every field of every copy has been written, and
\* leads to a copy.
THEOREM CopyAlwaysComplete == Spec => []CopyComplete
  BY AlwaysIInv, PTL DEF IInv

\* A client that keeps to the contract never meets a pointer into freed memory
\* or a field that was not written, for every graph of objects it builds.
THEOREM NothingEverDangles == Spec => []NothingDangles
  <1>1. ASSUME IInv PROVE NothingDangles
    <2> SUFFICES ASSUME phase = "run", NEW a \in DOMAIN heap \cup Held
                 PROVE  /\ a \in DOMAIN heap /\ a[1] = act
                        /\ \A i \in DOMAIN heap[a].kids :
                              heap[a].kids[i] \in In(act) \cup {NULL}
      BY DEF NothingDangles
    <2>1. a \in In(act)
      BY <1>1, RunFacts DEF Held, OldPointers
    <2> QED
      BY <1>1, <2>1 DEF In, IInv, Always, OldObjectsWhole, OldPointers
  <1> QED
    BY <1>1, AlwaysIInv, PTL

(***************************************************************************)
(* What a step of a collection leaves of an old object.                    *)
(***************************************************************************)
Kept(a) == /\ a \in DOMAIN heap'
           /\ heap'[a].id = heap[a].id
           /\ heap'[a].kids = heap[a].kids

LEMMA OnlyForwarded ==
    ASSUME TypeOK, NEW c \in DOMAIN heap, NEW v, heap' = [heap EXCEPT ![c].fwd = v],
           NEW a \in DOMAIN heap
    PROVE  Kept(a)
  <1>1. heap[c] \in Objects
    BY ObjectTypes
  <1> QED
    BY <1>1 DEF Kept, Objects

LEMMA CopyObjectKept ==
    ASSUME IInv, phase = "copy", NEW c \in In(act), CopyObject(c), NEW a \in In(act)
    PROVE  Kept(a)
  <1>1. /\ TypeOK /\ Layout /\ c \in DOMAIN heap /\ a \in DOMAIN heap
        /\ heap[c] \in Objects /\ heap[c].id \in Ids /\ inactive \in Spaces
    BY CopyFacts, SpaceFacts, ObjectTypes DEF In
  <1>2. CASE Evacuate(c)
    <2> DEFINE b == Block(inactive)
    <2>1. PICK new : heap' = Put([heap EXCEPT ![c].fwd = b], b, new)
      BY <1>2 DEF Evacuate
    <2>3. DOMAIN [heap EXCEPT ![c].fwd = b] = DOMAIN heap
      OBVIOUS
    <2>4. /\ [heap EXCEPT ![c].fwd = b][a].id = heap[a].id
          /\ [heap EXCEPT ![c].fwd = b][a].kids = heap[a].kids
      BY <1>1 DEF Objects
    <2>2. b \notin DOMAIN heap
      BY <1>1, <1>2, BlockFacts DEF Evacuate
    <2> HIDE DEF b
    <2> DEFINE forwarded == [heap EXCEPT ![c].fwd = b]
    <2> HIDE DEF forwarded
    <2>5. heap' = Put(forwarded, b, new)
      BY <2>1 DEF forwarded
    <2>6. a \in DOMAIN forwarded /\ a # b
      BY <1>1, <2>2, <2>3 DEF forwarded
    <2>7. a \in DOMAIN heap' /\ heap'[a] = forwarded[a]
      BY <2>5, <2>6 DEF Put
    <2> QED
      BY <2>4, <2>7 DEF Kept, forwarded
  <1>3. CASE Abandon(c)
    <2>1. heap' = heap \/ heap' = Keep(heap, In(act))
      BY <1>3 DEF Abandon, ResizeFails
    <2> QED
      BY <1>1, <2>1 DEF Keep, Kept
  <1> QED
    BY <1>2, <1>3 DEF CopyObject

\* No step that copies or clears changes a root, or more of an old object than its
\* forwarding pointer.
LEMMA StepKeepsOld ==
    IInv /\ [Next]_vars =>
        ( (phase \in {"copy", "clear"}) =>
          ( /\ slot' = slot
            /\ \A a \in In(act) : /\ a \in DOMAIN heap'
                                  /\ heap'[a].id = heap[a].id
                                  /\ heap'[a].kids = heap[a].kids ) )
  <1>1. phase \in {"copy", "clear"} =>
            ~Client /\ ~Allocate /\ ~AssignRoot /\ ~FinishCollect
    BY DEF Client, Root, Unroot, Assign, Load, Store, Request, RequestCollect,
       Idle, Allocate, AllocCollect, AllocGrow, Waiting, AssignRoot, FinishCollect
  <1>2. ASSUME IInv, [Next]_vars, phase \in {"copy", "clear"}, NEW a \in In(act)
        PROVE  Kept(a)
    <2>1. a \in DOMAIN heap /\ TypeOK
      BY <1>2 DEF In, IInv, Always
    <2>2. ASSUME heap' = heap PROVE Kept(a)
      BY <2>1, <2>2 DEF Kept
    <2>3. CASE CopyRoot
      <3>1. RootValue \in In(act)
        <4>1. phase = "copy" /\ roots[index] \in Slots
          BY <1>2, <2>1, <2>3 DEF CopyRoot, TypeOK
        <4> QED
          BY <1>2, <2>3, <4>1, CopyFacts DEF CopyRoot, Settled, RootValue, OldPointers
      <3> QED
        BY <1>2, <2>3, <3>1, CopyObjectKept DEF CopyRoot
    <2>4. CASE CopyChild
      <3>1. Child \in In(act)
        BY <1>2, <2>4, TopFacts DEF CopyChild, Settled, OldPointers
      <3> QED
        BY <1>2, <2>4, <3>1, CopyObjectKept DEF CopyChild, CopyingChild
    <2>5. CASE WriteChild
      <3>1. a # Top.new
        BY <1>2, <2>1, <2>5, TopFacts, SpaceFacts DEF WriteChild
      <3> QED
        BY <2>1, <2>5, <3>1 DEF WriteChild, Kept
    <2>6. CASE ClearRoot
      <3>1. CASE RootValue # NULL /\ heap[RootValue].fwd # NULL
        <4>1. phase = "clear" /\ roots[index] \in Slots
          BY <1>2, <2>1, <2>6 DEF ClearRoot, TypeOK
        <4>2. RootValue \in DOMAIN heap
          BY <1>2, <3>1, <4>1, ClearFacts DEF RootValue, OldPointers, In
        <4> QED
          BY <2>1, <2>6, <3>1, <4>2, OnlyForwarded DEF ClearRoot
      <3>2. CASE ~(RootValue # NULL /\ heap[RootValue].fwd # NULL)
        BY <2>2, <2>6, <3>2 DEF ClearRoot
      <3> QED
        BY <3>1, <3>2
    <2>7. CASE ClearChild
      <3> DEFINE child == NextChild(heap[Top.at].kids, Top.position)
      <3>1. heap' = heap \/ heap' = [heap EXCEPT ![child].fwd = NULL]
        BY <2>7 DEF ClearChild
      <3>2. ASSUME child \notin DOMAIN heap, heap' = [heap EXCEPT ![child].fwd = NULL]
            PROVE  Kept(a)
        BY <2>1, <3>2 DEF Kept
      <3>3. ASSUME child \in DOMAIN heap, heap' = [heap EXCEPT ![child].fwd = NULL]
            PROVE  Kept(a)
        BY <2>1, <3>3, OnlyForwarded
      <3> HIDE DEF child
      <3> QED
        BY <2>2, <3>1, <3>2, <3>3
    <2>8. CASE SkipRoot \/ CopyReturn \/ CopyDone \/ ClearDone \/ Exited \/ UNCHANGED vars
      BY <2>2, <2>8 DEF SkipRoot, CopyReturn, CopyDone, ClearDone, Exited, vars
    <2> QED
      BY <1>1, <1>2, <2>3, <2>4, <2>5, <2>6, <2>7, <2>8 DEF Next, Collect
  <1>3. ASSUME IInv, [Next]_vars, phase \in {"copy", "clear"} PROVE slot' = slot
    <2>1. CASE Collect
      BY <1>1, <1>3, <2>1 DEF Collect, CopyRoot, SkipRoot, CopyChild, CopyObject, Evacuate,
         Abandon, ResizeFails, WriteChild, CopyReturn, CopyDone, ClearRoot, ClearChild, ClearDone
    <2>2. CASE Exited \/ UNCHANGED vars
      BY <2>2 DEF Exited, vars
    <2> QED
      BY <1>1, <1>3, <2>1, <2>2 DEF Next
  <1> QED
    BY <1>2, <1>3 DEF Kept

\* Until every copy is made a collection changes no root, and of the objects it
\* copies nothing but the forwarding pointers, whether it succeeds, starts again
\* or exits.
THEOREM OldObjectsAlwaysKept == Spec => OldObjectsKept
  BY StepKeepsOld, AlwaysIInv, PTL DEF Spec, OldObjectsKept
=============================================================================
