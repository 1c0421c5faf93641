----------------------------- MODULE EvalProofs -----------------------------
(***************************************************************************)
(* Theorems on the depth of the evaluator and on its roots, for every      *)
(* program and every limit of the depth.                                   *)
(***************************************************************************)
EXTENDS EvalInvariant, FiniteSetTheorems

(***************************************************************************)
(* Stacks of kinds: what an activation more means for what is counted.     *)
(***************************************************************************)
LEMMA KindAtPushed ==
    ASSUME NEW s, IsStack(s), NEW x
    PROVE  /\ IsStack(<<x>> \o s) /\ <<x>> \o s # <<>>
           /\ Len(s) \in Nat /\ Len(<<x>> \o s) = Len(s) + 1
           /\ KindAt(<<x>> \o s, Len(s) + 1) = x
           /\ \A d \in 1 .. Len(s) : KindAt(<<x>> \o s, d) = KindAt(s, d)
  <1> DEFINE t == <<x>> \o s
  <1>1. /\ IsStack(t) /\ Len(t) = Len(s) + 1 /\ t[1] = x
        /\ \A i \in 1 .. Len(s) : t[i + 1] = s[i]
    BY StackPushed
  <1>2. Len(s) \in Nat
    BY StackFacts
  <1> HIDE DEF t
  <1>3. t # <<>>
    BY <1>1, <1>2, StackFacts
  <1>4. KindAt(t, Len(s) + 1) = x
    BY <1>1, <1>2 DEF KindAt
  <1>5. \A d \in 1 .. Len(s) : KindAt(t, d) = KindAt(s, d)
    <2> TAKE d \in 1 .. Len(s)
    <2>1. Len(s) - d + 1 \in 1 .. Len(s) /\ Len(t) - d + 1 = (Len(s) - d + 1) + 1
      BY <1>1, <1>2
    <2> QED
      BY <1>1, <2>1 DEF KindAt
  <1> QED
    BY <1>1, <1>2, <1>3, <1>4, <1>5 DEF t

LEMMA CountType ==
    ASSUME NEW s, NEW k, NEW n \in Nat
    PROVE  /\ Count(s, k, n) \in Nat
           /\ IsFiniteSet({d \in 1 .. n : KindAt(s, d) = k})
  <1>1. IsFiniteSet(1 .. n)
    BY FS_Interval
  <1>2. {d \in 1 .. n : KindAt(s, d) = k} \in SUBSET (1 .. n)
    OBVIOUS
  <1>3. IsFiniteSet({d \in 1 .. n : KindAt(s, d) = k})
    BY <1>1, <1>2, FS_Subset
  <1> QED
    BY <1>3, FS_CardinalityType DEF Count

LEMMA CountPushed ==
    ASSUME NEW s, IsStack(s), NEW x, NEW k
    PROVE  /\ \A n \in 0 .. Len(s) : Count(<<x>> \o s, k, n) = Count(s, k, n)
           /\ Count(<<x>> \o s, k, Len(s) + 1)
                = Count(s, k, Len(s)) + (IF x = k THEN 1 ELSE 0)
  <1> DEFINE t == <<x>> \o s
             A == {d \in 1 .. Len(s) : KindAt(s, d) = k}
             B == {d \in 1 .. Len(s) + 1 : KindAt(t, d) = k}
  <1>1. /\ Len(s) \in Nat /\ KindAt(t, Len(s) + 1) = x
        /\ \A d \in 1 .. Len(s) : KindAt(t, d) = KindAt(s, d)
    BY KindAtPushed
  <1> HIDE DEF t
  <1>2. \A n \in 0 .. Len(s) : Count(t, k, n) = Count(s, k, n)
    <2> TAKE n \in 0 .. Len(s)
    <2>1. {d \in 1 .. n : KindAt(t, d) = k} = {d \in 1 .. n : KindAt(s, d) = k}
      BY <1>1
    <2> QED
      BY <2>1 DEF Count
  <1>3. IsFiniteSet(A) /\ Cardinality(A) \in Nat
    BY <1>1, CountType DEF Count
  <1>4. Len(s) + 1 \notin A
    BY <1>1
  <1>5. B = IF x = k THEN A \cup {Len(s) + 1} ELSE A
    BY <1>1
  <1> HIDE DEF A, B
  <1>6. Cardinality(B) = Cardinality(A) + (IF x = k THEN 1 ELSE 0)
    <2>1. CASE x = k
      <3>1. B = A \cup {Len(s) + 1}
        BY <1>5, <2>1
      <3>2. Cardinality(A \cup {Len(s) + 1})
              = IF Len(s) + 1 \in A THEN Cardinality(A) ELSE Cardinality(A) + 1
        BY <1>3, FS_AddElement
      <3> QED
        BY <1>4, <2>1, <3>1, <3>2
    <2>2. CASE x # k
      BY <1>3, <1>5, <2>2
    <2> QED
      BY <2>1, <2>2
  <1>7. Count(t, k, Len(s) + 1) = Count(s, k, Len(s)) + (IF x = k THEN 1 ELSE 0)
    BY <1>6 DEF Count, A, B
  <1> QED
    BY <1>2, <1>7 DEF t

LEMMA RootsType ==
    ASSUME NEW x
    PROVE  RootsOf(x) \in Nat
  BY DEF RootsOf

LEMMA EntriesPushed ==
    ASSUME NEW s, IsStack(s), NEW x, IsFiniteSet(Entries(s))
    PROVE  /\ IsFiniteSet(Entries(<<x>> \o s))
           /\ Cardinality(Entries(s)) \in Nat
           /\ Cardinality(Entries(<<x>> \o s)) = Cardinality(Entries(s)) + RootsOf(x)
  <1> DEFINE t == <<x>> \o s
             n == Len(s) + 1
             R == {n} \X (1 .. RootsOf(x))
  <1>1. /\ Len(s) \in Nat /\ Len(t) = Len(s) + 1 /\ KindAt(t, Len(s) + 1) = x
        /\ \A d \in 1 .. Len(s) : KindAt(t, d) = KindAt(s, d)
    BY KindAtPushed
  <1> HIDE DEF t
  <1>2. Entries(t) = Entries(s) \cup R
    <2>1. \A d \in 1 .. Len(s) :
            {d} \X (1 .. RootsOf(KindAt(t, d))) = {d} \X (1 .. RootsOf(KindAt(s, d)))
      BY <1>1
    <2>2. {n} \X (1 .. RootsOf(KindAt(t, n))) = R
      BY <1>1
    <2>3. \A d : d \in 1 .. Len(t) <=> d \in 1 .. Len(s) \/ d = n
      BY <1>1
    <2> HIDE DEF n, R
    <2> QED
      BY <2>1, <2>2, <2>3 DEF Entries
  <1>3. Entries(s) \cap R = {}
    <2>1. \A d \in 1 .. Len(s) : ({d} \X (1 .. RootsOf(KindAt(s, d)))) \cap R = {}
      BY <1>1
    <2> HIDE DEF n, R
    <2> QED
      BY <2>1 DEF Entries
  <1>4. IsFiniteSet(R) /\ Cardinality(R) = RootsOf(x)
    <2>1. RootsOf(x) \in Nat
      BY RootsType
    <2>2. IsFiniteSet(1 .. RootsOf(x)) /\ Cardinality(1 .. RootsOf(x)) = RootsOf(x)
      BY <2>1, FS_Interval
    <2>3. IsFiniteSet({n}) /\ Cardinality({n}) = 1
      BY FS_Singleton
    <2>4. IsFiniteSet(R) /\ Cardinality(R) = Cardinality({n}) * Cardinality(1 .. RootsOf(x))
      BY <2>2, <2>3, FS_Product
    <2> QED
      BY <2>1, <2>2, <2>3, <2>4
  <1> HIDE DEF R
  <1>5. /\ IsFiniteSet(Entries(s) \cup R)
        /\ Cardinality(Entries(s) \cup R)
             = Cardinality(Entries(s)) + Cardinality(R) - Cardinality(Entries(s) \cap R)
    BY <1>4, FS_Union
  <1>6. Cardinality({}) = 0 /\ Cardinality(Entries(s)) \in Nat /\ Cardinality(R) \in Nat
    BY <1>4, FS_EmptySet, FS_CardinalityType
  <1>7. Cardinality(Entries(t)) = Cardinality(Entries(s)) + RootsOf(x)
    <2>1. Cardinality(Entries(s) \cup R) = Cardinality(Entries(s)) + Cardinality(R) - 0
      BY <1>3, <1>5, <1>6
    <2> QED
      BY <1>2, <1>4, <1>6, <2>1
  <1> QED
    BY <1>2, <1>5, <1>6, <1>7 DEF t

LEMMA EntriesFinite ==
    ASSUME NEW s, IsStack(s)
    PROVE  IsFiniteSet(Entries(s)) /\ Held(s) \in Nat
  <1>1. Len(s) \in Nat
    BY StackFacts
  <1>2. IsFiniteSet(1 .. Len(s)) /\ IsFiniteSet(1 .. 4)
    <2>1. IsFiniteSet(1 .. Len(s))
      BY <1>1, FS_Interval
    <2>2. IsFiniteSet(1 .. 4)
      <3>1. 1 \in Int /\ 4 \in Int
        OBVIOUS
      <3> QED
        BY <3>1, FS_Interval, Zenon
    <2> QED
      BY <2>1, <2>2
  <1>3. IsFiniteSet((1 .. Len(s)) \X (1 .. 4))
    BY <1>2, FS_Product
  <1>4. \A k : RootsOf(k) \in 0 .. 4
    <2>1. \A k : RootsOf(k) \in {0, 2, 3, 4}
      BY Zenon DEF RootsOf
    <2> QED
      BY <2>1
  <1>5. Entries(s) \in SUBSET ((1 .. Len(s)) \X (1 .. 4))
    <2>1. ASSUME NEW d \in 1 .. Len(s)
          PROVE  {d} \X (1 .. RootsOf(KindAt(s, d))) \subseteq (1 .. Len(s)) \X (1 .. 4)
      BY <1>4
    <2> QED
      BY <2>1 DEF Entries
  <1>6. IsFiniteSet(Entries(s))
    BY <1>3, <1>5, FS_Subset
  <1> QED
    BY <1>6, FS_CardinalityType DEF Held

\* All that is counted of a stack, when x is pushed on it.
LEMMA KindPushed ==
    ASSUME NEW s, IsStack(s), NEW x
    PROVE  /\ IsStack(<<x>> \o s) /\ <<x>> \o s # <<>>
           /\ Funcs(s) \in Nat /\ Funcalls(s) \in Nat /\ Held(s) \in Nat
           /\ Funcs(<<x>> \o s) = Funcs(s) + (IF x = "eval_func" THEN 1 ELSE 0)
           /\ Funcalls(<<x>> \o s) = Funcalls(s) + (IF x = "funcall" THEN 1 ELSE 0)
           /\ Held(<<x>> \o s) = Held(s) + RootsOf(x)
           /\ Limited(<<x>> \o s) <=>
                /\ Limited(s)
                /\ Funcs(<<x>> \o s) <= MaxDepth + Funcalls(<<x>> \o s)
           /\ Limited(s) => Funcs(s) <= MaxDepth + Funcalls(s)
           /\ s # <<>> => (EvalOutermost(<<x>> \o s) <=> EvalOutermost(s) /\ x # "eval")
           /\ s = <<>> => (EvalOutermost(<<x>> \o s) <=> x = "eval")
  <1> DEFINE t == <<x>> \o s
  <1>1. /\ IsStack(t) /\ t # <<>> /\ Len(s) \in Nat /\ Len(t) = Len(s) + 1
        /\ KindAt(t, Len(s) + 1) = x
        /\ \A d \in 1 .. Len(s) : KindAt(t, d) = KindAt(s, d)
    BY KindAtPushed
  <1>2. ASSUME NEW k
        PROVE  /\ \A n \in 0 .. Len(s) : Count(t, k, n) = Count(s, k, n)
               /\ Count(t, k, Len(s) + 1) = Count(s, k, Len(s)) + (IF x = k THEN 1 ELSE 0)
    BY CountPushed
  <1>3. Held(s) \in Nat /\ Held(t) = Held(s) + RootsOf(x)
    BY EntriesFinite, EntriesPushed DEF Held
  <1> HIDE DEF t
  <1>4. Funcs(s) \in Nat /\ Funcalls(s) \in Nat
    BY <1>1, CountType DEF Funcs, Funcalls
  <1>5. Funcs(t) = Funcs(s) + (IF x = "eval_func" THEN 1 ELSE 0)
    BY <1>1, <1>2 DEF Funcs
  <1>6. Funcalls(t) = Funcalls(s) + (IF x = "funcall" THEN 1 ELSE 0)
    BY <1>1, <1>2 DEF Funcalls
  <1>7. Limited(t) <=> Limited(s) /\ Funcs(t) <= MaxDepth + Funcalls(t)
    <2>1. \A n : n \in 0 .. Len(t) <=> n \in 0 .. Len(s) \/ n = Len(s) + 1
      BY <1>1
    <2>2. /\ Funcs(t) = Count(t, "eval_func", Len(s) + 1)
          /\ Funcalls(t) = Count(t, "funcall", Len(s) + 1)
      BY <1>1 DEF Funcs, Funcalls
    <2>3. \A n \in 0 .. Len(s) : /\ Count(t, "eval_func", n) = Count(s, "eval_func", n)
                                 /\ Count(t, "funcall", n) = Count(s, "funcall", n)
      BY <1>2
    <2> QED
      BY <2>1, <2>2, <2>3 DEF Limited
  <1>8. Limited(s) => Funcs(s) <= MaxDepth + Funcalls(s)
    BY <1>1 DEF Limited, Funcs, Funcalls
  <1>9. \A d : d \in 1 .. Len(t) <=> d \in 1 .. Len(s) \/ d = Len(s) + 1
    BY <1>1
  <1>10. s # <<>> => (EvalOutermost(t) <=> EvalOutermost(s) /\ x # "eval")
    <2> HAVE s # <<>>
    <2>1. Len(s) + 1 # 1
      BY StackFacts
    <2> QED
      BY <1>1, <1>9, <2>1 DEF EvalOutermost
  <1>11. s = <<>> => (EvalOutermost(t) <=> x = "eval")
    <2> HAVE s = <<>>
    <2>1. Len(s) = 0
      OBVIOUS
    <2> QED
      BY <1>1, <1>9, <2>1 DEF EvalOutermost
  <1> QED
    BY <1>1, <1>3, <1>4, <1>5, <1>6, <1>7, <1>8, <1>10, <1>11 DEF t

LEMMA NoKinds ==
    /\ IsStack(<<>>) /\ Funcs(<<>>) = 0 /\ Funcalls(<<>>) = 0 /\ Held(<<>>) = 0
    /\ Limited(<<>>) /\ EvalOutermost(<<>>)
  <1>1. Len(<<>>) = 0 /\ 1 .. 0 = {}
    OBVIOUS
  <1>2. \A k : Count(<<>>, k, 0) = 0
    BY <1>1, FS_EmptySet DEF Count
  <1>3. Entries(<<>>) = {}
    BY <1>1 DEF Entries
  <1>4. Held(<<>>) = 0
    BY <1>3, FS_EmptySet DEF Held
  <1>5. IsStack(<<>>)
    BY DEF IsStack
  <1>6. Limited(<<>>)
    BY <1>1, <1>2, MaxDepthAssumption DEF Limited
  <1> QED
    BY <1>1, <1>2, <1>4, <1>5, <1>6 DEF Funcs, Funcalls, EvalOutermost

\* What an activation of each kind roots.
LEMMA RootsOfKinds ==
    /\ RootsOf("eval") = 3 /\ RootsOf("args") = 3 /\ RootsOf("if") = 3 /\ RootsOf("let") = 3
    /\ RootsOf("eval_func") = 4 /\ RootsOf("branch") = 0
    /\ RootsOf("eval_internal") = 2 /\ RootsOf("funcall") = 2 /\ RootsOf("and") = 2
    /\ RootsOf("or") = 2 /\ RootsOf("cond") = 2 /\ RootsOf("tail") = 2
    /\ RootsOf("begin") = 2 /\ RootsOf("set") = 2
  BY Zenon DEF RootsOf

(***************************************************************************)
(* What the steps do to a mode, a stack of kinds s and a depth d.  These   *)
(* are the cases of the argument; no action is mentioned.                  *)
(***************************************************************************)
LEMMA Started ==
    Sound("eval", <<"eval">> \o <<>>, 0, NoError)
  <1> DEFINE t == <<"eval">> \o <<>>
  <1>1. /\ t # <<>> /\ EvalOutermost(t)
        /\ Funcs(t) = Funcs(<<>>) + 0 /\ Funcalls(t) = Funcalls(<<>>) + 0
        /\ Limited(t) <=> Limited(<<>>) /\ Funcs(t) <= MaxDepth + Funcalls(t)
    BY NoKinds, KindPushed
  <1>2. Funcs(<<>>) = 0 /\ Funcalls(<<>>) = 0 /\ Limited(<<>>)
    BY NoKinds
  <1> HIDE DEF t
  <1>3. Sound("eval", t, 0, NoError)
    BY <1>1, <1>2, MaxDepthAssumption DEF Sound, Working
  <1> QED
    BY <1>3 DEF t

\* An error, or a step inside a function, or the evaluation of its last form.
LEMMA Stayed ==
    ASSUME NEW s, NEW d, NEW e, NEW m \in Working, Sound(m, s, d, e),
           NEW m2 \in Working \ {"call"}, NEW e2, e2 = e \/ e2 # NoError
    PROVE  Sound(m2, s, d, e2)
  BY DEF Sound, Working

\* An activation more.
LEMMA Entered ==
    ASSUME NEW s, IsStack(s), NEW d, NEW e, NEW m \in Working \ {"call"},
           Sound(m, s, d, e),
           NEW x, x \notin {"eval", "eval_func", "funcall"},
           NEW m2, m2 = "eval" \/ m2 = "apply" \/ (m2 = "call" /\ d < MaxDepth)
    PROVE  Sound(m2, <<x>> \o s, d, e)
  BY KindPushed, MaxDepthAssumption DEF Sound, Working

\* funcall calls eval_func at any depth.
LEMMA EnteredFuncall ==
    ASSUME NEW s, IsStack(s), NEW d, NEW e, Sound("apply", s, d, e)
    PROVE  Sound("call", <<"funcall">> \o s, d, e)
  <1> DEFINE t == <<"funcall">> \o s
  <1>1. /\ IsStack(t) /\ t # <<>>
        /\ Funcs(s) \in Nat /\ Funcalls(s) \in Nat
        /\ Funcs(t) = Funcs(s) + (IF "funcall" = "eval_func" THEN 1 ELSE 0)
        /\ Funcalls(t) = Funcalls(s) + (IF "funcall" = "funcall" THEN 1 ELSE 0)
        /\ Limited(t) <=> Limited(s) /\ Funcs(t) <= MaxDepth + Funcalls(t)
        /\ Limited(s) => Funcs(s) <= MaxDepth + Funcalls(s)
        /\ s # <<>> => (EvalOutermost(t) <=> EvalOutermost(s) /\ "funcall" # "eval")
    BY KindPushed
  <1> HIDE DEF t
  <1>2. Sound("call", t, d, e)
    BY <1>1, MaxDepthAssumption DEF Sound, Working
  <1> QED
    BY <1>2 DEF t

\* An activation returns, and the one below goes on.
LEMMA Left ==
    ASSUME NEW s, IsStack(s), NEW d, NEW e,
           NEW x, x \notin {"eval", "eval_func"}, Sound("return", <<x>> \o s, d, e),
           NEW m2 \in Working \ {"call"}, NEW e2, e2 = e \/ e2 # NoError
    PROVE  Sound(m2, s, d, e2)
  BY KindPushed, MaxDepthAssumption DEF Sound, Working

\* eval_func pushes a frame, and runs the function.
LEMMA Called ==
    ASSUME NEW s, IsStack(s), NEW d \in Nat, NEW e, Sound("call", s, d, e)
    PROVE  Sound("apply", <<"eval_func">> \o s, d + 1, e)
  <1> DEFINE t == <<"eval_func">> \o s
  <1>1. /\ IsStack(t) /\ t # <<>>
        /\ Funcs(s) \in Nat /\ Funcalls(s) \in Nat
        /\ Funcs(t) = Funcs(s) + (IF "eval_func" = "eval_func" THEN 1 ELSE 0)
        /\ Funcalls(t) = Funcalls(s) + (IF "eval_func" = "funcall" THEN 1 ELSE 0)
        /\ Limited(t) <=> Limited(s) /\ Funcs(t) <= MaxDepth + Funcalls(t)
        /\ Limited(s) => Funcs(s) <= MaxDepth + Funcalls(s)
        /\ s # <<>> => (EvalOutermost(t) <=> EvalOutermost(s) /\ "eval_func" # "eval")
        /\ s = <<>> => (EvalOutermost(t) <=> "eval_func" = "eval")
    BY KindPushed
  <1> HIDE DEF t
  <1>2. Sound("apply", t, d + 1, e)
    BY <1>1, MaxDepthAssumption DEF Sound, Working
  <1> QED
    BY <1>2 DEF t

\* eval_func pushes a frame, and refuses the call.
LEMMA Refused ==
    ASSUME NEW s, IsStack(s), NEW d \in Nat, NEW e, Sound("call", s, d, e),
           NEW e2, e2 # NoError
    PROVE  Sound("return", s, d + 1, e2)
  BY DEF Sound, Working

\* eval_func pops its frame, unless there was an error.
LEMMA LeftFunc ==
    ASSUME NEW s, IsStack(s), NEW d \in Nat, NEW e,
           Sound("return", <<"eval_func">> \o s, d, e)
    PROVE  /\ e = NoError => d > 0 /\ Sound("return", s, d - 1, e)
           /\ e # NoError => Sound("return", s, d, e)
  <1> DEFINE t == <<"eval_func">> \o s
  <1>1. /\ IsStack(t) /\ t # <<>>
        /\ Funcs(s) \in Nat /\ Funcalls(s) \in Nat
        /\ Funcs(t) = Funcs(s) + (IF "eval_func" = "eval_func" THEN 1 ELSE 0)
        /\ Funcalls(t) = Funcalls(s) + (IF "eval_func" = "funcall" THEN 1 ELSE 0)
        /\ Limited(t) <=> Limited(s) /\ Funcs(t) <= MaxDepth + Funcalls(t)
        /\ Limited(s) => Funcs(s) <= MaxDepth + Funcalls(s)
        /\ s # <<>> => (EvalOutermost(t) <=> EvalOutermost(s) /\ "eval_func" # "eval")
        /\ s = <<>> => (EvalOutermost(t) <=> "eval_func" = "eval")
    BY KindPushed
  <1> HIDE DEF t
  <1>2. Sound("return", t, d, e)
    BY DEF t
  <1> QED
    BY <1>1, <1>2, MaxDepthAssumption DEF Sound, Working

\* The interpreter stops in the middle of something, perhaps in eval_func.
LEMMA Faulted ==
    ASSUME NEW s, NEW d \in Nat, NEW e, NEW m, Sound(m, s, d, e), Funcalls(s) \in Nat
    PROVE  /\ Sound("fault", s, d, e)
           /\ m = "call" => Sound("fault", s, d + 1, e)
  BY MaxDepthAssumption DEF Sound, Working

\* eval returns to drive.
LEMMA Finished ==
    ASSUME NEW s, IsStack(s), NEW d \in Nat, NEW e, Sound("return", <<"eval">> \o s, d, e)
    PROVE  s = <<>> /\ Sound("idle", <<>>, d, e)
  <1> DEFINE t == <<"eval">> \o s
  <1>1. /\ s # <<>> => (EvalOutermost(t) <=> EvalOutermost(s) /\ "eval" # "eval")
        /\ Funcs(s) \in Nat /\ Funcs(t) = Funcs(s) + 0
    BY KindPushed
  <1> HIDE DEF t
  <1>2. Sound("return", t, d, e)
    BY DEF t
  <1>3. s = <<>>
    BY <1>1, <1>2 DEF Sound, Working
  <1>4. Funcs(<<>>) = 0 /\ Funcalls(<<>>) = 0 /\ Limited(<<>>)
    BY NoKinds
  <1>5. e = NoError => d = 0
    BY <1>1, <1>2, <1>3, <1>4 DEF Sound, Working
  <1> QED
    BY <1>3, <1>4, <1>5, MaxDepthAssumption DEF Sound, Working

(***************************************************************************)
(* Activations and their kinds.                                            *)
(***************************************************************************)
\* Functions on the same positions with the same kinds of activations there.
LEMMA SameKinds ==
    ASSUME NEW ks, IsKonts(ks), NEW t, t = [i \in DOMAIN ks |-> t[i]],
           \A i \in DOMAIN ks : "k" \in DOMAIN t[i] /\ t[i].k = ks[i].k
    PROVE  IsKonts(t) /\ Kinds(t) = Kinds(ks)
  <1>1. DOMAIN t = DOMAIN ks
    OBVIOUS
  <1>2. Len(ks) \in Nat /\ DOMAIN ks = 1 .. Len(ks)
    BY StackFacts DEF IsKonts
  <1>3. IsStack(t)
    <2> DEFINE T == {t[i] : i \in DOMAIN t}
    <2>1. t \in [1 .. Len(ks) -> T]
      BY <1>1, <1>2
    <2> HIDE DEF T
    <2>2. t \in Seq(T)
      BY <1>2, <2>1, FunctionIsSeq
    <2> QED
      BY <2>2 DEF T, IsStack
  <1>4. IsKonts(t)
    BY <1>1, <1>3 DEF IsKonts
  <1>5. [i \in DOMAIN t |-> t[i].k] = [i \in DOMAIN ks |-> ks[i].k]
    BY <1>1, Zenon
  <1> QED
    BY <1>4, <1>5 DEF Kinds

LEMMA KindsType ==
    ASSUME NEW ks, IsKonts(ks)
    PROVE  /\ IsStack(Kinds(ks)) /\ Len(Kinds(ks)) = Len(ks)
           /\ ks = <<>> <=> Kinds(ks) = <<>>
  <1> DEFINE s == Kinds(ks)
             T == {s[i] : i \in DOMAIN s}
  <1>1. Len(ks) \in Nat /\ DOMAIN ks = 1 .. Len(ks) /\ (ks # <<>> => Len(ks) > 0)
    BY StackFacts DEF IsKonts
  <1>2. DOMAIN s = 1 .. Len(ks) /\ s = [i \in 1 .. Len(ks) |-> s[i]]
    BY <1>1 DEF Kinds
  <1> HIDE DEF s
  <1>3. s \in [1 .. Len(ks) -> T]
    BY <1>2
  <1> HIDE DEF T
  <1>4. s \in Seq(T) /\ Len(s) = Len(ks)
    BY <1>1, <1>3, FunctionIsSeq
  <1>5. IsStack(s)
    BY <1>4 DEF T, IsStack
  <1>6. ks = <<>> <=> s = <<>>
    <2>1. ks = <<>> => Len(ks) = 0
      OBVIOUS
    <2>2. s = <<>> => Len(s) = 0
      OBVIOUS
    <2>3. Len(s) = 0 => s = <<>>
      BY <1>4, EmptySeq
    <2> QED
      BY <1>1, <1>4, <2>1, <2>2, <2>3
  <1> QED
    BY <1>4, <1>5, <1>6 DEF s

LEMMA KontsPushed ==
    ASSUME NEW ks, IsKonts(ks), NEW kont, "k" \in DOMAIN kont
    PROVE  /\ IsKonts(<<kont>> \o ks)
           /\ Kinds(<<kont>> \o ks) = <<kont.k>> \o Kinds(ks)
  <1> DEFINE t == <<kont>> \o ks
             u == <<kont.k>> \o Kinds(ks)
             n == Len(ks)
  <1>1. /\ IsStack(t) /\ Len(t) = n + 1 /\ t[1] = kont
        /\ \A i \in 1 .. n : t[i + 1] = ks[i]
    BY StackPushed DEF IsKonts
  <1>2. n \in Nat /\ DOMAIN ks = 1 .. n
    BY StackFacts DEF IsKonts
  <1>3. /\ IsStack(u) /\ Len(u) = n + 1 /\ u[1] = kont.k
        /\ \A i \in 1 .. n : u[i + 1] = Kinds(ks)[i]
    BY StackPushed, KindsType
  <1>4. \A i \in 1 .. n : Kinds(ks)[i] = ks[i].k /\ "k" \in DOMAIN ks[i]
    BY <1>2 DEF Kinds, IsKonts
  <1> HIDE DEF t, u
  <1>5. DOMAIN t = 1 .. n + 1 /\ DOMAIN u = 1 .. n + 1
    BY <1>1, <1>3, StackFacts
  <1>6. \A i \in 1 .. n + 1 : u[i] = t[i].k /\ "k" \in DOMAIN t[i]
    <2> TAKE i \in 1 .. n + 1
    <2>1. CASE i = 1
      BY <1>1, <1>3, <2>1
    <2>2. CASE i # 1
      <3>1. i - 1 \in 1 .. n /\ (i - 1) + 1 = i
        BY <1>2, <2>2
      <3>2. u[i] = Kinds(ks)[i - 1] /\ t[i] = ks[i - 1]
        BY <1>1, <1>3, <3>1
      <3> QED
        BY <1>4, <3>1, <3>2
    <2> QED
      BY <2>1, <2>2
  <1>7. IsKonts(t)
    BY <1>1, <1>5, <1>6 DEF IsKonts
  <1>8. u = [i \in 1 .. n + 1 |-> u[i]]
    BY <1>3, <1>5 DEF IsStack
  <1>9. Kinds(t) = [i \in 1 .. n + 1 |-> t[i].k]
    BY <1>5, Zenon DEF Kinds
  <1>10. Kinds(t) = u
    BY <1>6, <1>8, <1>9, Zenon
  <1> QED
    BY <1>7, <1>10 DEF t, u

LEMMA KontsPopped ==
    ASSUME NEW ks, IsKonts(ks), ks # <<>>
    PROVE  /\ IsKonts(Tail(ks)) /\ "k" \in DOMAIN ks[1]
           /\ Kinds(ks) = <<ks[1].k>> \o Kinds(Tail(ks))
  <1> DEFINE r == Tail(ks)
  <1>1. /\ IsStack(r) /\ Len(ks) = Len(r) + 1
        /\ \A i \in 1 .. Len(r) : ks[i + 1] = r[i]
    BY StackPopped DEF IsKonts
  <1>2. /\ ks \in Seq({ks[i] : i \in DOMAIN ks}) /\ 1 \in DOMAIN ks
        /\ DOMAIN ks = 1 .. Len(ks)
    BY StackFacts DEF IsKonts
  <1>3. ks = <<Head(ks)>> \o r /\ Head(ks) = ks[1]
    BY <1>2, HeadTailProperties
  <1> HIDE DEF r
  <1>4. Len(r) \in Nat /\ DOMAIN r = 1 .. Len(r)
    BY <1>1, StackFacts
  <1>5. \A i \in 1 .. Len(r) : i + 1 \in DOMAIN ks
    BY <1>1, <1>2, <1>4
  <1>6. IsKonts(r) /\ "k" \in DOMAIN ks[1]
    BY <1>1, <1>2, <1>4, <1>5 DEF IsKonts
  <1>7. Kinds(ks) = <<ks[1].k>> \o Kinds(r)
    BY <1>3, <1>6, KontsPushed
  <1> QED
    BY <1>6, <1>7 DEF r

LEMMA KontsDelivered ==
    ASSUME NEW ks, IsKonts(ks), NEW v
    PROVE  IsKonts(Deliver(ks, v)) /\ Kinds(Deliver(ks, v)) = Kinds(ks)
  <1> DEFINE i == CHOOSE i \in DOMAIN ks :
                    /\ "result" \in DOMAIN ks[i]
                    /\ \A j \in 1 .. i - 1 : "result" \notin DOMAIN ks[j]
  <1> HIDE DEF i
  <1> DEFINE t == [ks EXCEPT ![i].result = v]
  <1>1. Deliver(ks, v) = t
    BY Zenon DEF Deliver, i
  <1>2. t = [j \in DOMAIN ks |-> t[j]]
    BY Zenon
  <1>3. ASSUME NEW j \in DOMAIN ks
        PROVE  "k" \in DOMAIN t[j] /\ t[j].k = ks[j].k
    <2>1. "k" \in DOMAIN ks[j]
      BY <1>3 DEF IsKonts
    <2>2. CASE j = i
      <3>1. t[j] = [ks[j] EXCEPT !.result = v]
        BY <2>2, Zenon
      <3> HIDE DEF t
      <3> QED
        BY <2>1, <3>1, Zenon
    <2>3. CASE j # i
      <3>1. t[j] = ks[j]
        BY <2>3, Zenon
      <3> HIDE DEF t
      <3> QED
        BY <2>1, <3>1
    <2> QED
      BY <2>2, <2>3
  <1> HIDE DEF t
  <1> QED
    BY <1>1, <1>2, <1>3, SameKinds

LEMMA KontsCollected ==
    ASSUME NEW ks, IsKonts(ks), NEW collect
    PROVE  IsKonts(Collected(ks, collect)) /\ Kinds(Collected(ks, collect)) = Kinds(ks)
  <1> DEFINE t == [i \in DOMAIN ks |-> Moved(ks[i])]
  <1>1. t = [i \in DOMAIN ks |-> t[i]]
    BY Zenon
  <1>2. ASSUME NEW i \in DOMAIN ks
        PROVE  "k" \in DOMAIN t[i] /\ t[i].k = ks[i].k
    <2>1. "k" \in DOMAIN ks[i]
      BY <1>2 DEF IsKonts
    <2>2. t[i] = Moved(ks[i])
      BY Zenon
    <2> HIDE DEF t
    <2>3. "k" \notin Unrooted(ks[i])
      BY DEF Unrooted
    <2>4. "k" \in DOMAIN Moved(ks[i]) /\ Moved(ks[i]).k = ks[i].k
      BY <2>1, <2>3, Zenon DEF Moved
    <2> QED
      BY <2>2, <2>4
  <1>3. Collected(ks, collect) = IF collect THEN t ELSE ks
    BY Zenon DEF Collected
  <1> HIDE DEF t
  <1>4. IsKonts(t) /\ Kinds(t) = Kinds(ks)
    BY <1>1, <1>2, SameKinds
  <1> QED
    BY <1>3, <1>4

(***************************************************************************)
(* Frames.                                                                 *)
(***************************************************************************)
LEMMA FrameReplaced ==
    ASSUME NEW s, IsStack(s), NEW i, NEW e
    PROVE  IsStack([s EXCEPT ![i] = e]) /\ Len([s EXCEPT ![i] = e]) = Len(s)
  <1> DEFINE t == [s EXCEPT ![i] = e]
             T == {t[j] : j \in DOMAIN t}
  <1>1. Len(s) \in Nat /\ DOMAIN s = 1 .. Len(s)
    BY StackFacts
  <1>2. DOMAIN t = DOMAIN s /\ t = [j \in DOMAIN s |-> t[j]]
    BY Zenon
  <1> HIDE DEF t
  <1>3. t \in [1 .. Len(s) -> T]
    BY <1>1, <1>2
  <1> HIDE DEF T
  <1>4. t \in Seq(T) /\ Len(t) = Len(s)
    BY <1>1, <1>3, FunctionIsSeq
  <1> QED
    BY <1>4 DEF T, t, IsStack

\* Binding names changes the environment of a frame, and no more.
LEMMA BindKeepsFrames ==
    ASSUME NEW names, NEW values, IsStack(frames), Bind(names, values)
    PROVE  IsStack(frames') /\ Len(frames') = Len(frames)
  <1>1. frames' = frames \/ \E i, f : frames' = [frames EXCEPT ![i] = f]
    <2>1. CASE \E i \in DOMAIN frames : frames[i].valid
      <3> DEFINE i == CHOOSE i \in DOMAIN frames :
                         frames[i].valid /\ \A j \in 1 .. i - 1 : ~frames[j].valid
                 f == [frames[i] EXCEPT !.env = Extended(@, names, values)]
      <3>1. frames' = [frames EXCEPT ![i].env = Extended(@, names, values)]
        BY <2>1, Zenon DEF Bind
      <3>2. frames' = [frames EXCEPT ![i] = f]
        BY <3>1, Zenon
      <3> QED
        BY <3>2, Zenon
    <2>2. CASE ~\E i \in DOMAIN frames : frames[i].valid
      BY <2>2, Zenon DEF Bind
    <2> QED
      BY <2>1, <2>2, Zenon
  <1>2. CASE frames' = frames
    BY <1>2
  <1>3. CASE \E i, f : frames' = [frames EXCEPT ![i] = f]
    <2> PICK i, f : frames' = [frames EXCEPT ![i] = f]
      BY <1>3
    <2> QED
      BY FrameReplaced
  <1> QED
    BY <1>1, <1>2, <1>3

LEMMA DisabledKeepsFrames ==
    ASSUME IsStack(frames)
    PROVE  IsStack(Disabled) /\ Len(Disabled) = Len(frames)
  <1> DEFINE f == [frames[1] EXCEPT !.valid = FALSE]
  <1>1. Disabled = [frames EXCEPT ![1] = f]
    BY Zenon DEF Disabled
  <1> HIDE DEF f
  <1> QED
    BY <1>1, FrameReplaced

(***************************************************************************)
(* The built-ins that only compute record an error when they fail.         *)
(***************************************************************************)
Sensible(r) == ~r.ok => r.error # NoError

LEMMA ResultsSensible ==
    (\A v : Sensible(Ok(v))) /\ (\A x : x # NoError => Sensible(Err(x)))
  BY DEF Ok, Err, Sensible

LEMMA ComparedSensible ==
    ASSUME NEW x, NEW y
    PROVE  Sensible(Compared(x, y))
  <1>1. Compared(x, y) \in {Ok(Truth(x = y)), Ok(Truth(NumbersEqual(x[2], y[2]))),
                           Err("illegal_func_call"), Err("invalid_type")}
    BY Zenon DEF Compared
  <1>2. "illegal_func_call" # NoError /\ "invalid_type" # NoError
    BY DEF NoError
  <1> QED
    BY <1>1, <1>2, ResultsSensible

LEMMA PartSensible ==
    ASSUME NEW b, NEW x
    PROVE  Sensible(PartOf(b, x))
  BY ResultsSensible, Zenon DEF PartOf, NoError

LEMMA AppliedSensible ==
    ASSUME NEW b \in Simple, NEW xs, NEW e
    PROVE  Sensible(Applied(b, xs, e))
  <1> DEFINE number == IF ~IsNumber(xs[1]) \/ ~IsNumber(xs[2]) THEN Err("invalid_type")
                       ELSE IF e # NoError THEN Err(e)
                       ELSE Ok(Calculated(b, xs[1][2], xs[2][2]))
             equal == Compared(xs[1], xs[2])
             unequal == IF equal.ok THEN Ok(Truth(equal.value = Nil)) ELSE equal
  <1>1. \/ b \in Predicates \/ b \in Arithmetic \cup Comparisons
        \/ b \in {"eq", "=="} \/ b \in {"neq", "!="} \/ b \in {"car", "cdr"}
        \/ b = "cons" \/ b \in {"print", "quote"}
    BY DEF Simple, Equalities
  <1>2. Applied(b, xs, e) \in
          {Ok(Truth(Holds(b, xs[1]))), number, equal, unequal, PartOf(b, xs[1]),
           Ok(Cons(xs[1], xs[2])), Ok(xs[1])}
    BY <1>1, Zenon DEF Applied
  <1>3. Sensible(number)
    BY ResultsSensible DEF NoError
  <1>4. Sensible(equal) /\ Sensible(unequal)
    BY ResultsSensible, ComparedSensible
  <1> HIDE DEF number, equal, unequal
  <1> QED
    BY <1>2, <1>3, <1>4, ResultsSensible, PartSensible

(***************************************************************************)
(* The same of states: what the actions have in common.                    *)
(***************************************************************************)
LEMMA StateFacts ==
    ASSUME IInv
    PROVE  /\ IsKonts(konts) /\ IsStack(Kinds(konts)) /\ IsStack(frames)
           /\ Len(frames) \in Nat
           /\ Held(Kinds(konts)) \in Nat /\ Funcalls(Kinds(konts)) \in Nat
           /\ Sound(mode.k, Kinds(konts), Len(frames), error)
           /\ mode.k \in Working => konts # <<>>
  <1>1. IsKonts(konts) /\ IsStack(frames) /\ Sound(mode.k, Kinds(konts), Len(frames), error)
    BY DEF IInv
  <1>2. IsStack(Kinds(konts)) /\ (konts = <<>> <=> Kinds(konts) = <<>>)
    BY <1>1, KindsType
  <1>3. Len(frames) \in Nat
    BY <1>1, StackFacts
  <1>4. Held(Kinds(konts)) \in Nat /\ Funcalls(Kinds(konts)) \in Nat
    BY <1>2, KindPushed
  <1> QED
    BY <1>1, <1>2, <1>3, <1>4 DEF Sound

LEMMA Pushed ==
    ASSUME NEW ks, IsKonts(ks), NEW d, NEW e, NEW m \in Working \ {"call"},
           Sound(m, Kinds(ks), d, e),
           NEW kont, "k" \in DOMAIN kont, kont.k \notin {"eval", "eval_func", "funcall"},
           NEW m2, m2 = "eval" \/ m2 = "apply" \/ (m2 = "call" /\ d < MaxDepth)
    PROVE  /\ IsKonts(<<kont>> \o ks)
           /\ Sound(m2, Kinds(<<kont>> \o ks), d, e)
           /\ Held(Kinds(<<kont>> \o ks)) = Held(Kinds(ks)) + RootsOf(kont.k)
  <1>1. /\ IsKonts(<<kont>> \o ks)
        /\ Kinds(<<kont>> \o ks) = <<kont.k>> \o Kinds(ks)
    BY KontsPushed
  <1>2. IsStack(Kinds(ks))
    BY KindsType
  <1>3. Sound(m2, <<kont.k>> \o Kinds(ks), d, e)
    BY <1>2, Entered
  <1>4. Held(<<kont.k>> \o Kinds(ks)) = Held(Kinds(ks)) + RootsOf(kont.k)
    BY <1>2, KindPushed
  <1> QED
    BY <1>1, <1>3, <1>4

LEMMA Popped ==
    ASSUME IInv, mode.k \in Working
    PROVE  /\ IsKonts(Below) /\ IsStack(Kinds(Below)) /\ Held(Kinds(Below)) \in Nat
           /\ Kinds(konts) = <<konts[1].k>> \o Kinds(Below)
           /\ Held(Kinds(konts)) = Held(Kinds(Below)) + RootsOf(konts[1].k)
  <1>1. IsKonts(konts) /\ konts # <<>>
    BY StateFacts
  <1>2. IsKonts(Below) /\ Kinds(konts) = <<konts[1].k>> \o Kinds(Below)
    BY <1>1, KontsPopped DEF Below
  <1>3. IsStack(Kinds(Below))
    BY <1>2, KindsType
  <1>4. /\ Held(Kinds(Below)) \in Nat
        /\ Held(<<konts[1].k>> \o Kinds(Below))
             = Held(Kinds(Below)) + RootsOf(konts[1].k)
    BY <1>3, KindPushed
  <1> QED
    BY <1>2, <1>3, <1>4

\* The activation that waits for a value gets it and is done.
LEMMA Returned ==
    ASSUME IInv, mode.k = "return", konts[1].k \notin {"eval", "eval_func"},
           NEW m2 \in Working \ {"call"}, NEW e2, e2 = error \/ e2 # NoError
    PROVE  Sound(m2, Kinds(Below), Len(frames), e2)
  <1>1. IsStack(Kinds(Below)) /\ Kinds(konts) = <<konts[1].k>> \o Kinds(Below)
    BY Popped DEF Working
  <1>2. Sound("return", <<konts[1].k>> \o Kinds(Below), Len(frames), error)
    BY <1>1, StateFacts
  <1> QED
    BY <1>1, <1>2, Left

(***************************************************************************)
(* drive and eval.                                                         *)
(***************************************************************************)
LEMMA ReadKeeps ==
    ASSUME IInv, Read
    PROVE  IInv' /\ (\A n \in Nat : Rooted(n) => Rooted(n)')
  <1> DEFINE kont == [k |-> "eval", result |-> Nil]
  <1>1. /\ mode.k = "idle" /\ mode'.k = "eval" /\ konts' = <<kont>>
        /\ frames' = <<>> /\ error' = NoError /\ nroots' = nroots + 3
    BY DEF Read, Idle, Evaluate
  <1>2. "k" \in DOMAIN kont /\ kont.k = "eval"
    OBVIOUS
  <1> HIDE DEF kont
  <1>3. Kinds(konts) = <<>> /\ IsKonts(konts)
    BY <1>1, StateFacts DEF Sound, Working
  <1>4. konts = <<>>
    BY <1>3, KindsType
  <1>5. konts' = <<kont>> \o konts
    BY <1>1, <1>4
  <1>6. IsKonts(konts') /\ Kinds(konts') = <<"eval">> \o <<>>
    BY <1>2, <1>3, <1>5, KontsPushed
  <1>7. IsStack(frames') /\ Len(frames') = 0
    BY <1>1, NoKinds
  <1>8. Sound("eval", Kinds(konts'), 0, NoError)
    BY <1>6, Started
  <1>9. IsStack(<<>>) /\ Held(<<"eval">> \o <<>>) = Held(<<>>) + RootsOf("eval")
    BY NoKinds, KindPushed
  <1>10. Held(Kinds(konts')) = Held(Kinds(konts)) + 3
    BY <1>3, <1>6, <1>9, RootsOfKinds
  <1> QED
    BY <1>1, <1>6, <1>7, <1>8, <1>10, StateFacts DEF IInv, Rooted

LEMMA CrashKeeps ==
    ASSUME IInv, Crash
    PROVE  IInv' /\ (\A n \in Nat : Rooted(n) => Rooted(n)')
  <1>1. /\ mode'.k = "fault" /\ konts' = konts /\ frames' = frames
        /\ error' = error /\ nroots' = nroots
    BY DEF Crash, Fault
  <1>2. Sound("fault", Kinds(konts), Len(frames), error)
    BY StateFacts, Faulted
  <1> QED
    BY <1>1, <1>2 DEF IInv, Rooted

LEMMA FinishKeeps ==
    ASSUME IInv, Finish
    PROVE  IInv' /\ (\A n \in Nat : Rooted(n) => Rooted(n)')
  <1>1. CASE Crash
    BY <1>1, CrashKeeps
  <1>2. CASE ~Crash
    <2>1. /\ mode.k = "return" /\ konts[1].k = "eval" /\ mode'.k = "idle"
          /\ konts' = <<>> /\ nroots' = nroots - 3 /\ frames' = frames /\ error' = error
      BY <1>2 DEF Finish, Idle
    <2>2. /\ IsStack(Kinds(Below)) /\ Kinds(konts) = <<"eval">> \o Kinds(Below)
          /\ Held(Kinds(konts)) = Held(Kinds(Below)) + 3
      BY <2>1, Popped, RootsOfKinds DEF Working
    <2>3. Sound("return", <<"eval">> \o Kinds(Below), Len(frames), error)
      BY <2>1, <2>2, StateFacts
    <2>4. Kinds(Below) = <<>> /\ Sound("idle", <<>>, Len(frames), error)
      BY <2>2, <2>3, StateFacts, Finished
    <2>5. IsKonts(<<>>) /\ Kinds(<<>>) = <<>>
      <3>1. IsKonts(<<>>)
        BY NoKinds DEF IsKonts
      <3> QED
        BY <3>1, KindsType
    <2>6. Held(Kinds(konts)) = 3 /\ Held(Kinds(konts')) = 0
      BY <2>1, <2>2, <2>4, <2>5, NoKinds
    <2> QED
      BY <2>1, <2>4, <2>5, <2>6, StateFacts DEF IInv, Rooted
  <1> QED
    BY <1>1, <1>2

(***************************************************************************)
(* eval_internal.                                                          *)
(***************************************************************************)
\* A step that leaves the activations and the frames as they are.
LEMMA StayKeeps ==
    ASSUME IInv, mode.k \in Working, mode'.k \in Working \ {"call"},
           IsKonts(konts'), Kinds(konts') = Kinds(konts),
           IsStack(frames'), Len(frames') = Len(frames),
           error' = error \/ error' # NoError, nroots' = nroots
    PROVE  IInv' /\ (\A n \in Nat : Rooted(n) => Rooted(n)')
  <1>1. Sound(mode'.k, Kinds(konts), Len(frames), error')
    BY StateFacts, Stayed
  <1> QED
    BY <1>1 DEF IInv, Rooted

\* A step that pushes an activation.
LEMMA EnterKeeps ==
    ASSUME IInv, mode.k \in {"eval", "apply"},
           NEW kont, "k" \in DOMAIN kont, kont.k \notin {"eval", "eval_func", "funcall"},
           konts' = <<kont>> \o konts,
           mode'.k = "eval" \/ (mode'.k = "call" /\ Len(frames) < MaxDepth),
           IsStack(frames'), Len(frames') = Len(frames), error' = error,
           nroots' = nroots + RootsOf(kont.k)
    PROVE  IInv' /\ (\A n \in Nat : Rooted(n) => Rooted(n)')
  <1>1. /\ IsKonts(konts') /\ Sound(mode'.k, Kinds(konts'), Len(frames), error)
        /\ Held(Kinds(konts')) = Held(Kinds(konts)) + RootsOf(kont.k)
    BY StateFacts, Pushed DEF Working
  <1>2. Held(Kinds(konts)) \in Nat /\ RootsOf(kont.k) \in Nat
    BY StateFacts, RootsType
  <1> QED
    BY <1>1, <1>2 DEF IInv, Rooted

\* A step that pops one, and delivers its value or collects.
LEMMA LeaveKeeps ==
    ASSUME IInv, mode.k = "return", konts[1].k \notin {"eval", "eval_func"},
           mode'.k \in Working \ {"call"},
           IsKonts(konts'), Kinds(konts') = Kinds(Below),
           IsStack(frames'), Len(frames') = Len(frames),
           error' = error \/ error' # NoError,
           nroots' = nroots - RootsOf(konts[1].k)
    PROVE  IInv' /\ (\A n \in Nat : Rooted(n) => Rooted(n)')
  <1>1. Sound(mode'.k, Kinds(Below), Len(frames), error')
    BY Returned
  <1>2. /\ Held(Kinds(konts)) = Held(Kinds(Below)) + RootsOf(konts[1].k)
        /\ Held(Kinds(Below)) \in Nat
    BY Popped DEF Working
  <1>3. RootsOf(konts[1].k) \in Nat
    BY RootsType
  <1> QED
    BY <1>1, <1>2, <1>3 DEF IInv, Rooted

\* A step that puts another in its place.
LEMMA BecomeKeeps ==
    ASSUME IInv, mode.k = "return", konts[1].k \notin {"eval", "eval_func"},
           NEW ks, IsKonts(ks), Kinds(ks) = Kinds(Below),
           NEW kont, "k" \in DOMAIN kont, kont.k \notin {"eval", "eval_func", "funcall"},
           konts' = <<kont>> \o ks, mode'.k = "eval",
           frames' = frames, error' = error,
           nroots \in Nat => nroots' = nroots - RootsOf(konts[1].k) + RootsOf(kont.k)
    PROVE  IInv' /\ (\A n \in Nat : Rooted(n) => Rooted(n)')
  <1>1. Sound("eval", Kinds(ks), Len(frames), error)
    BY Returned DEF Working
  <1>2. /\ IsKonts(konts') /\ Sound("eval", Kinds(konts'), Len(frames), error)
        /\ Held(Kinds(konts')) = Held(Kinds(ks)) + RootsOf(kont.k)
    BY <1>1, Pushed DEF Working
  <1>3. /\ Held(Kinds(konts)) = Held(Kinds(Below)) + RootsOf(konts[1].k)
        /\ Held(Kinds(Below)) \in Nat
    BY Popped DEF Working
  <1>4. RootsOf(konts[1].k) \in Nat /\ RootsOf(kont.k) \in Nat
    BY RootsType
  <1>5. nroots' = nroots - RootsOf(konts[1].k) + RootsOf(kont.k) \/ nroots \notin Nat
    OBVIOUS
  <1>6. \A n \in Nat : Rooted(n) => Rooted(n)'
    <2> SUFFICES ASSUME NEW n \in Nat, Rooted(n)
                 PROVE  Rooted(n)'
      OBVIOUS
    <2>1. nroots = n + Held(Kinds(Below)) + RootsOf(konts[1].k) /\ nroots \in Nat
      BY <1>3, <1>4 DEF Rooted
    <2>2. nroots' = n + Held(Kinds(Below)) + RootsOf(kont.k)
      BY <1>3, <1>4, <1>5, <2>1
    <2> QED
      BY <1>2, <1>3, <1>4, <2>2 DEF Rooted
  <1> QED
    BY <1>2, <1>6, StateFacts DEF IInv

LEMMA EvalConstantKeeps ==
    ASSUME IInv, EvalConstant
    PROVE  IInv' /\ (\A n \in Nat : Rooted(n) => Rooted(n)')
  <1>1. /\ mode.k = "eval" /\ mode'.k = "return" /\ konts' = Deliver(konts, mode.x)
        /\ frames' = frames /\ error' = error /\ nroots' = nroots
    BY DEF EvalConstant, Return
  <1>2. IsKonts(konts') /\ Kinds(konts') = Kinds(konts)
    BY <1>1, KontsDelivered, StateFacts
  <1> QED
    BY <1>1, <1>2, StayKeeps, StateFacts DEF Working

LEMMA EvalSymbolKeeps ==
    ASSUME IInv, EvalSymbol
    PROVE  IInv' /\ (\A n \in Nat : Rooted(n) => Rooted(n)')
  <1>1. /\ mode.k = "eval" /\ mode'.k = "return"
        /\ konts' = Deliver(konts, Lookup(Name(mode.x))) \/ konts' = konts
        /\ frames' = frames /\ nroots' = nroots
        /\ error' = error \/ error' = "symbol_lookup_failed"
    BY DEF EvalSymbol, Return, Fails
  <1>2. IsKonts(konts') /\ Kinds(konts') = Kinds(konts)
    BY <1>1, KontsDelivered, StateFacts
  <1>3. error' = error \/ error' # NoError
    BY <1>1 DEF NoError
  <1> QED
    BY <1>1, <1>2, <1>3, StayKeeps, StateFacts DEF Working

\* A call that is refused before anything is done.
LEMMA RefusalKeeps ==
    ASSUME IInv, mode.k \in {"eval", "apply"}, NEW e, e # NoError, Fails(e),
           konts' = konts, IsStack(frames'), Len(frames') = Len(frames), nroots' = nroots
    PROVE  IInv' /\ (\A n \in Nat : Rooted(n) => Rooted(n)')
  <1>1. mode'.k = "return" /\ error' = e
    BY DEF Fails, Return
  <1> QED
    BY <1>1, StayKeeps, StateFacts DEF Working

LEMMA EvalCallKeeps ==
    ASSUME IInv, EvalCall
    PROVE  IInv' /\ (\A n \in Nat : Rooted(n) => Rooted(n)')
  <1>1. mode.k = "eval" /\ frames' = frames
    BY DEF EvalCall
  <1>2. CASE Len(frames) >= MaxDepth \/ ~IsFunction(Car(mode.x))
    <2>1. \E e \in {"max_stack_depth_reached", "illegal_func_call"} :
            Fails(e) /\ konts' = konts /\ nroots' = nroots
      BY <1>2 DEF EvalCall
    <2> QED
      BY <1>1, <2>1, RefusalKeeps, StateFacts DEF NoError
  <1>3. CASE ~(Len(frames) >= MaxDepth) /\ IsFunction(Car(mode.x))
    <2> DEFINE kont == [k |-> "eval_internal"]
    <2>1. /\ mode'.k = "call" /\ konts' = <<kont>> \o konts /\ nroots' = nroots + 2
          /\ error' = error
      BY <1>3 DEF EvalCall, Call, Push
    <2>2. "k" \in DOMAIN kont /\ kont.k = "eval_internal"
      OBVIOUS
    <2>3. Len(frames) < MaxDepth
      BY <1>3, StateFacts, MaxDepthAssumption
    <2> HIDE DEF kont
    <2> QED
      BY <1>1, <2>1, <2>2, <2>3, EnterKeeps, RootsOfKinds, StateFacts
  <1> QED
    BY <1>2, <1>3

LEMMA PassOnKeeps ==
    ASSUME IInv, PassOn
    PROVE  IInv' /\ (\A n \in Nat : Rooted(n) => Rooted(n)')
  <1>1. /\ mode.k = "return" /\ mode' = mode /\ konts' = Below /\ frames' = frames
        /\ konts[1].k \in {"eval_internal", "funcall"}
        /\ error' = error /\ nroots' = nroots - 2
    BY DEF PassOn
  <1>2. IsKonts(Below)
    BY <1>1, Popped DEF Working
  <1> QED
    BY <1>1, <1>2, LeaveKeeps, RootsOfKinds, StateFacts DEF Working

(***************************************************************************)
(* eval_func.                                                              *)
(***************************************************************************)
LEMMA EnterFuncKeeps ==
    ASSUME IInv, EnterFunc
    PROVE  IInv' /\ (\A n \in Nat : Rooted(n) => Rooted(n)')
  <1> DEFINE frame == [id |-> mode.id, valid |-> TRUE, env |-> EnvInit]
             kont == [k |-> "args", id |-> mode.id, def |-> mode.def,
                      rest |-> Cdr(mode.args), done |-> Nil, result |-> Nil]
             func == [k |-> "eval_func"]
  <1>1. /\ mode.k = "call" /\ frames' = <<frame>> \o frames
        /\ \E collect \in BOOLEAN :
              \/ mode' = Fault /\ konts' = konts /\ error' = error /\ nroots' = nroots
              \/ /\ CallError(mode.id, mode.def, mode.args) # NoError
                 /\ Fails(CallError(mode.id, mode.def, mode.args))
                 /\ konts' = Collected(konts, collect) /\ nroots' = nroots
              \/ /\ mode' = Evaluate(Car(mode.args)) /\ error' = error
                 /\ konts' = <<kont>> \o (<<func>> \o Collected(konts, collect))
                 /\ nroots' = nroots + 7
              \/ /\ mode' = Apply(mode.id, mode.def, mode.args) /\ error' = error
                 /\ konts' = <<func>> \o Collected(konts, collect)
                 /\ nroots' = nroots + 4
    BY Zenon DEF EnterFunc
  <1>2. /\ "k" \in DOMAIN kont /\ kont.k = "args"
        /\ "k" \in DOMAIN func /\ func.k = "eval_func"
    OBVIOUS
  <1> HIDE DEF frame, kont, func
  <1>3. IsStack(frames') /\ Len(frames') = Len(frames) + 1
    BY <1>1, StackPushed, StateFacts
  <1>4. PICK collect \in BOOLEAN :
              \/ mode' = Fault /\ konts' = konts /\ error' = error /\ nroots' = nroots
              \/ /\ CallError(mode.id, mode.def, mode.args) # NoError
                 /\ Fails(CallError(mode.id, mode.def, mode.args))
                 /\ konts' = Collected(konts, collect) /\ nroots' = nroots
              \/ /\ mode' = Evaluate(Car(mode.args)) /\ error' = error
                 /\ konts' = <<kont>> \o (<<func>> \o Collected(konts, collect))
                 /\ nroots' = nroots + 7
              \/ /\ mode' = Apply(mode.id, mode.def, mode.args) /\ error' = error
                 /\ konts' = <<func>> \o Collected(konts, collect)
                 /\ nroots' = nroots + 4
    BY <1>1
  <1> DEFINE ks == Collected(konts, collect)
             called == <<func>> \o ks
  <1>5. IsKonts(ks) /\ Kinds(ks) = Kinds(konts)
    BY KontsCollected, StateFacts
  <1> HIDE DEF ks
  <1>6. Sound("call", Kinds(konts), Len(frames), error)
    BY <1>1, StateFacts
  <1>7. IsKonts(called) /\ Kinds(called) = <<"eval_func">> \o Kinds(konts)
    BY <1>2, <1>5, KontsPushed
  <1>8. Sound("apply", Kinds(called), Len(frames) + 1, error)
    BY <1>6, <1>7, StateFacts, Called
  <1> HIDE DEF called
  <1>9. Held(Kinds(called)) = Held(Kinds(konts)) + 4
    <2>1. Held(<<"eval_func">> \o Kinds(konts)) = Held(Kinds(konts)) + RootsOf("eval_func")
      BY StateFacts, KindPushed
    <2> QED
      BY <1>7, <2>1, RootsOfKinds
  <1>10. Held(Kinds(konts)) \in Nat
    BY StateFacts
  <1>11. CASE mode' = Fault /\ konts' = konts /\ error' = error /\ nroots' = nroots
    <2>1. Sound("fault", Kinds(konts), Len(frames) + 1, error)
      BY <1>6, StateFacts, Faulted
    <2>2. mode'.k = "fault"
      BY <1>11 DEF Fault
    <2> QED
      BY <1>3, <1>11, <2>1, <2>2, StateFacts DEF IInv, Rooted
  <1>12. CASE /\ CallError(mode.id, mode.def, mode.args) # NoError
              /\ Fails(CallError(mode.id, mode.def, mode.args))
              /\ konts' = ks /\ nroots' = nroots
    <2>1. mode'.k = "return" /\ error' # NoError
      BY <1>12 DEF Fails, Return
    <2>2. Sound("return", Kinds(konts), Len(frames) + 1, error')
      BY <1>6, <2>1, StateFacts, Refused
    <2> QED
      BY <1>3, <1>5, <1>12, <2>1, <2>2 DEF IInv, Rooted
  <1>13. CASE /\ mode' = Evaluate(Car(mode.args)) /\ error' = error
              /\ konts' = <<kont>> \o called /\ nroots' = nroots + 7
    <2>1. mode'.k = "eval"
      BY <1>13 DEF Evaluate
    <2>2. "apply" \in Working \ {"call"}
      BY DEF Working
    <2>3. /\ IsKonts(<<kont>> \o called)
          /\ Sound("eval", Kinds(<<kont>> \o called), Len(frames) + 1, error)
          /\ Held(Kinds(<<kont>> \o called)) = Held(Kinds(called)) + 3
      <3>1. kont.k \notin {"eval", "eval_func", "funcall"}
        BY <1>2
      <3>2. /\ IsKonts(<<kont>> \o called)
            /\ Sound("eval", Kinds(<<kont>> \o called), Len(frames) + 1, error)
            /\ Held(Kinds(<<kont>> \o called)) = Held(Kinds(called)) + RootsOf(kont.k)
        BY <1>2, <1>7, <1>8, <2>2, <3>1, Pushed, Zenon
      <3> QED
        BY <1>2, <3>2, RootsOfKinds
    <2>4. IInv'
      BY <1>3, <1>13, <2>1, <2>3 DEF IInv
    <2>5. \A n \in Nat : Rooted(n) => Rooted(n)'
      BY <1>9, <1>10, <1>13, <2>3 DEF Rooted
    <2> QED
      BY <2>4, <2>5
  <1>14. CASE /\ mode' = Apply(mode.id, mode.def, mode.args) /\ error' = error
              /\ konts' = called /\ nroots' = nroots + 4
    <2>1. mode'.k = "apply"
      BY <1>14 DEF Apply
    <2>2. IInv'
      BY <1>3, <1>7, <1>8, <1>14, <2>1 DEF IInv
    <2>3. \A n \in Nat : Rooted(n) => Rooted(n)'
      BY <1>9, <1>10, <1>14 DEF Rooted
    <2> QED
      BY <2>2, <2>3
  <1> QED
    BY <1>4, <1>11, <1>12, <1>13, <1>14 DEF ks, called

LEMMA ArgumentValueKeeps ==
    ASSUME IInv, ArgumentValue
    PROVE  IInv' /\ (\A n \in Nat : Rooted(n) => Rooted(n)')
  <1> DEFINE kont == konts[1]
             done == List(Append(kont.done[2], kont.result))
             next == [kont EXCEPT !.done = done, !.rest = Cdr(@), !.result = Nil]
  <1>1. CASE Crash
    BY <1>1, CrashKeeps
  <1>2. CASE ~Crash
    <2>1. /\ mode = Return(TRUE) /\ konts[1].k = "args"
          /\ frames' = frames /\ error' = error
          /\ \E collect \in BOOLEAN :
                \/ /\ mode' = Apply(kont.id, kont.def, done)
                   /\ konts' = Collected(Below, collect) /\ nroots' = nroots - 3
                \/ /\ mode' = Evaluate(Car(kont.rest))
                   /\ konts' = <<next>> \o Collected(Below, collect)
                   /\ nroots' = nroots
      BY <1>2, Zenon DEF ArgumentValue
    <2>2. mode.k = "return"
      BY <2>1 DEF Return
    <2>3. PICK collect \in BOOLEAN :
                \/ /\ mode' = Apply(kont.id, kont.def, done)
                   /\ konts' = Collected(Below, collect) /\ nroots' = nroots - 3
                \/ /\ mode' = Evaluate(Car(kont.rest))
                   /\ konts' = <<next>> \o Collected(Below, collect)
                   /\ nroots' = nroots
      BY <2>1
    <2> DEFINE ks == Collected(Below, collect)
    <2>4. IsKonts(ks) /\ Kinds(ks) = Kinds(Below)
      BY <2>2, Popped, KontsCollected DEF Working
    <2>5. "k" \in DOMAIN next /\ next.k = "args"
      <3>1. "k" \in DOMAIN konts[1]
        BY <2>2, StateFacts, KontsPopped DEF Working
      <3> QED
        BY <2>1, <3>1, Zenon
    <2>6. nroots' = nroots - 3 \/ nroots' = nroots
      BY <2>3
    <2> HIDE DEF ks, next, done
    <2>7. CASE /\ mode' = Apply(kont.id, kont.def, done)
               /\ konts' = ks /\ nroots' = nroots - 3
      <3>1. mode'.k = "apply"
        BY <2>7 DEF Apply
      <3> QED
        BY <2>1, <2>2, <2>4, <2>7, <3>1, LeaveKeeps, RootsOfKinds, StateFacts DEF Working
    <2>8. CASE /\ mode' = Evaluate(Car(kont.rest))
               /\ konts' = <<next>> \o ks /\ nroots' = nroots
      <3>1. mode'.k = "eval"
        BY <2>8 DEF Evaluate
      <3>2. /\ Sound("eval", Kinds(Below), Len(frames), error)
            /\ Held(Kinds(konts)) = Held(Kinds(Below)) + 3
        BY <2>1, <2>2, Returned, Popped, RootsOfKinds DEF Working
      <3>3. /\ IsKonts(konts') /\ Sound("eval", Kinds(konts'), Len(frames), error)
            /\ Held(Kinds(konts')) = Held(Kinds(ks)) + 3
        BY <2>4, <2>5, <2>8, <3>2, Pushed, RootsOfKinds DEF Working
      <3> QED
        BY <2>1, <2>4, <2>8, <3>1, <3>2, <3>3, StateFacts DEF IInv, Rooted
    <2> QED
      BY <2>3, <2>7, <2>8 DEF ks
  <1> QED
    BY <1>1, <1>2

LEMMA ArgumentFailsKeeps ==
    ASSUME IInv, ArgumentFails
    PROVE  IInv' /\ (\A n \in Nat : Rooted(n) => Rooted(n)')
  <1>1. /\ mode.k = "return" /\ mode' = mode /\ konts' = Below /\ frames' = frames
        /\ konts[1].k = "args" /\ error' = error /\ nroots' = nroots - 3
    BY DEF ArgumentFails, Return
  <1>2. IsKonts(Below)
    BY <1>1, Popped DEF Working
  <1> QED
    BY <1>1, <1>2, LeaveKeeps, RootsOfKinds, StateFacts DEF Working

LEMMA ApplyDefinedKeeps ==
    ASSUME IInv, ApplyDefined
    PROVE  IInv' /\ (\A n \in Nat : Rooted(n) => Rooted(n)')
  <1>1. /\ mode.k = "apply" /\ mode'.k = "eval" /\ error' = error /\ nroots' = nroots
    BY DEF ApplyDefined, Evaluate
  <1>2. /\ IsStack(frames') /\ Len(frames') = Len(frames)
        /\ IsKonts(konts') /\ Kinds(konts') = Kinds(konts)
    <2>1. CASE args = <<>>
      BY <2>1, StateFacts DEF ApplyDefined
    <2>2. CASE args # <<>>
      <3>1. /\ Bind(Car(mode.def)[2], args)
            /\ \E collect \in BOOLEAN : konts' = Collected(konts, collect)
        BY <2>2, Zenon DEF ApplyDefined
      <3> QED
        BY <3>1, BindKeepsFrames, KontsCollected, StateFacts
    <2> QED
      BY <2>1, <2>2
  <1> QED
    BY <1>1, <1>2, StayKeeps DEF Working

LEMMA LeaveFuncKeeps ==
    ASSUME IInv, LeaveFunc
    PROVE  IInv' /\ (\A n \in Nat : Rooted(n) => Rooted(n)')
  <1>1. /\ mode.k = "return" /\ mode' = mode /\ konts[1].k = "eval_func"
        /\ frames' = IF frames = <<>> \/ error # NoError THEN frames ELSE Tail(frames)
        /\ konts' = Below /\ error' = error /\ nroots' = nroots - 4
    BY DEF LeaveFunc
  <1>2. /\ IsKonts(Below) /\ IsStack(Kinds(Below)) /\ Held(Kinds(Below)) \in Nat
        /\ Kinds(konts) = <<"eval_func">> \o Kinds(Below)
        /\ Held(Kinds(konts)) = Held(Kinds(Below)) + 4
    BY <1>1, Popped, RootsOfKinds DEF Working
  <1>3. Sound("return", <<"eval_func">> \o Kinds(Below), Len(frames), error)
    BY <1>1, <1>2, StateFacts
  <1>4. /\ error = NoError => /\ Len(frames) > 0
                             /\ Sound("return", Kinds(Below), Len(frames) - 1, error)
        /\ error # NoError => Sound("return", Kinds(Below), Len(frames), error)
    BY <1>2, <1>3, StateFacts, LeftFunc
  <1>5. CASE error # NoError
    BY <1>1, <1>2, <1>4, <1>5, StateFacts DEF IInv, Rooted
  <1>6. CASE error = NoError
    <2>1. frames # <<>>
      BY <1>4, <1>6
    <2>2. IsStack(Tail(frames)) /\ Len(frames) = Len(Tail(frames)) + 1
      BY <2>1, StackPopped, StateFacts
    <2>3. Len(Tail(frames)) = Len(frames) - 1
      BY <2>2, StackFacts
    <2> QED
      BY <1>1, <1>2, <1>4, <1>6, <2>1, <2>2, <2>3 DEF IInv, Rooted
  <1> QED
    BY <1>5, <1>6

(***************************************************************************)
(* The built-ins.                                                          *)
(***************************************************************************)
\* A value is delivered, perhaps after a collection.
LEMMA ValueDelivered ==
    ASSUME NEW ks, IsKonts(ks), NEW collect, NEW v
    PROVE  /\ IsKonts(Deliver(Collected(ks, collect), v))
           /\ Kinds(Deliver(Collected(ks, collect), v)) = Kinds(ks)
  BY KontsCollected, KontsDelivered

LEMMA ApplySimpleKeeps ==
    ASSUME IInv, ApplySimple
    PROVE  IInv' /\ (\A n \in Nat : Rooted(n) => Rooted(n)')
  <1> DEFINE r == Applied(Name(mode.id), args, error)
  <1>1. /\ mode.k = "apply" /\ frames' = frames /\ nroots' = nroots
        /\ Name(mode.id) \in Simple
    BY DEF ApplySimple
  <1>2. Sensible(r)
    BY <1>1, AppliedSensible
  <1> HIDE DEF r
  <1>3. CASE r.ok
    <2>1. /\ mode' = Return(TRUE) /\ error' = error
          /\ \E collect : konts' = Deliver(Collected(konts, collect), r.value)
      BY <1>3, Zenon DEF ApplySimple, r
    <2>2. mode'.k = "return"
      BY <2>1 DEF Return
    <2>3. IsKonts(konts') /\ Kinds(konts') = Kinds(konts)
      BY <2>1, ValueDelivered, StateFacts
    <2> QED
      BY <1>1, <2>1, <2>2, <2>3, StayKeeps, StateFacts DEF Working
  <1>4. CASE ~r.ok
    <2>1. Fails(r.error) /\ konts' = konts
      BY <1>4, Zenon DEF ApplySimple, r
    <2>2. r.error # NoError
      BY <1>2, <1>4 DEF Sensible
    <2> QED
      BY <1>1, <2>1, <2>2, RefusalKeeps, StateFacts
  <1> QED
    BY <1>3, <1>4

LEMMA ApplyEvalKeeps ==
    ASSUME IInv, ApplyEval
    PROVE  IInv' /\ (\A n \in Nat : Rooted(n) => Rooted(n)')
  <1>1. /\ mode.k = "apply" /\ mode'.k = "eval" /\ konts' = konts /\ frames' = frames
        /\ error' = error /\ nroots' = nroots
    BY DEF ApplyEval, Running, Evaluate
  <1> QED
    BY <1>1, StayKeeps, StateFacts DEF Working

LEMMA ApplyAndKeeps ==
    ASSUME IInv, ApplyAnd
    PROVE  IInv' /\ (\A n \in Nat : Rooted(n) => Rooted(n)')
  <1> DEFINE kont == [k |-> "and", other |-> args[2], result |-> Nil]
  <1>1. /\ mode.k = "apply" /\ mode'.k = "eval" /\ konts' = <<kont>> \o konts
        /\ nroots' = nroots + 2 /\ frames' = frames /\ error' = error
    BY DEF ApplyAnd, Running, Evaluate, Push
  <1>2. "k" \in DOMAIN kont /\ kont.k = "and"
    OBVIOUS
  <1> HIDE DEF kont
  <1> QED
    BY <1>1, <1>2, EnterKeeps, RootsOfKinds, StateFacts

LEMMA AndFirstKeeps ==
    ASSUME IInv, AndFirst
    PROVE  IInv' /\ (\A n \in Nat : Rooted(n) => Rooted(n)')
  <1> DEFINE kont == [k |-> "tail", result |-> konts[1].result]
  <1>1. /\ mode.k = "return" /\ konts[1].k = "and"
        /\ frames' = frames /\ error' = error
        /\ \/ mode'.k = "eval" /\ konts' = <<kont>> \o Below /\ nroots' = nroots
           \/ /\ mode'.k = "return" /\ nroots' = nroots - 2
              /\ konts' = Deliver(Below, Nil) \/ konts' = Below
    BY DEF AndFirst, Evaluate, Return
  <1>2. IsKonts(Below)
    BY <1>1, Popped DEF Working
  <1>3. "k" \in DOMAIN kont /\ kont.k = "tail"
    OBVIOUS
  <1> HIDE DEF kont
  <1>4. CASE mode'.k = "eval" /\ konts' = <<kont>> \o Below /\ nroots' = nroots
    <2>1. nroots \in Nat => nroots' = nroots - RootsOf(konts[1].k) + RootsOf(kont.k)
      BY <1>1, <1>3, <1>4, RootsOfKinds
    <2> QED
      BY <1>1, <1>2, <1>3, <1>4, <2>1, BecomeKeeps
  <1>5. CASE /\ mode'.k = "return" /\ nroots' = nroots - 2
             /\ konts' = Deliver(Below, Nil) \/ konts' = Below
    <2>1. IsKonts(konts') /\ Kinds(konts') = Kinds(Below)
      BY <1>2, <1>5, KontsDelivered
    <2> QED
      BY <1>1, <1>5, <2>1, LeaveKeeps, RootsOfKinds, StateFacts DEF Working
  <1> QED
    BY <1>1, <1>4, <1>5

LEMMA ApplyOrKeeps ==
    ASSUME IInv, ApplyOr
    PROVE  IInv' /\ (\A n \in Nat : Rooted(n) => Rooted(n)')
  <1> DEFINE kont == [k |-> "or", other |-> args[2], result |-> Nil]
  <1>1. /\ mode.k = "apply" /\ mode'.k = "eval" /\ konts' = <<kont>> \o konts
        /\ nroots' = nroots + 2 /\ frames' = frames /\ error' = error
    BY DEF ApplyOr, Running, Evaluate, Push
  <1>2. "k" \in DOMAIN kont /\ kont.k = "or"
    OBVIOUS
  <1> HIDE DEF kont
  <1> QED
    BY <1>1, <1>2, EnterKeeps, RootsOfKinds, StateFacts

LEMMA OrFirstKeeps ==
    ASSUME IInv, OrFirst
    PROVE  IInv' /\ (\A n \in Nat : Rooted(n) => Rooted(n)')
  <1>1. /\ mode.k = "return" /\ konts[1].k = "or" /\ mode'.k \in {"eval", "return"}
        /\ frames' = frames /\ error' = error /\ nroots' = nroots - 2
        /\ \/ konts' = Below
           \/ \E collect \in BOOLEAN : konts' = Deliver(Collected(Below, collect), True)
    BY DEF OrFirst, Evaluate, Return
  <1>2. IsKonts(Below)
    BY <1>1, Popped DEF Working
  <1>3. IsKonts(konts') /\ Kinds(konts') = Kinds(Below)
    BY <1>1, <1>2, ValueDelivered
  <1> QED
    BY <1>1, <1>3, LeaveKeeps, RootsOfKinds, StateFacts DEF Working

LEMMA ApplyIfKeeps ==
    ASSUME IInv, ApplyIf
    PROVE  IInv' /\ (\A n \in Nat : Rooted(n) => Rooted(n)')
  <1> DEFINE kont == [k |-> "if", then |-> args[2], else |-> args[3], result |-> Nil]
  <1>1. /\ mode.k = "apply" /\ mode'.k = "eval" /\ konts' = <<kont>> \o konts
        /\ nroots' = nroots + 3 /\ frames' = frames /\ error' = error
    BY DEF ApplyIf, Running, Evaluate, Push
  <1>2. "k" \in DOMAIN kont /\ kont.k = "if"
    OBVIOUS
  <1> HIDE DEF kont
  <1> QED
    BY <1>1, <1>2, EnterKeeps, RootsOfKinds, StateFacts

LEMMA IfTestKeeps ==
    ASSUME IInv, IfTest
    PROVE  IInv' /\ (\A n \in Nat : Rooted(n) => Rooted(n)')
  <1> DEFINE kont == [k |-> "branch", result |-> konts[1].result]
  <1>1. /\ mode.k = "return" /\ konts[1].k = "if"
        /\ frames' = frames /\ error' = error /\ nroots' = nroots - 3
        /\ \/ mode'.k = "eval" /\ konts' = <<kont>> \o Below
           \/ mode' = mode /\ konts' = Below
    BY DEF IfTest, Evaluate
  <1>2. IsKonts(Below)
    BY <1>1, Popped DEF Working
  <1>3. "k" \in DOMAIN kont /\ kont.k = "branch"
    OBVIOUS
  <1> HIDE DEF kont
  <1>4. CASE mode'.k = "eval" /\ konts' = <<kont>> \o Below
    <2>1. nroots \in Nat => nroots' = nroots - RootsOf(konts[1].k) + RootsOf(kont.k)
      BY <1>1, <1>3, RootsOfKinds
    <2> QED
      BY <1>1, <1>2, <1>3, <1>4, <2>1, BecomeKeeps
  <1>5. CASE mode' = mode /\ konts' = Below
    BY <1>1, <1>2, <1>5, LeaveKeeps, RootsOfKinds, StateFacts DEF Working
  <1> QED
    BY <1>1, <1>4, <1>5

\* Where cond refuses a clause, two roots are given back; else the test is evaluated.
LEMMA TryClauseOutcomes ==
    ASSUME NEW clauses, NEW ks, NEW held, TryClause(clauses, ks, held)
    PROVE  \/ /\ mode'.k = "return" /\ error' # NoError /\ konts' = ks
              /\ nroots' = held - 2
           \/ /\ mode'.k = "eval" /\ error' = error /\ nroots' = held
              /\ konts' = <<[k |-> "cond", clauses |-> clauses, result |-> Nil]>> \o ks
  <1>1. CASE clauses = Nil
    BY <1>1 DEF TryClause, Fails, Return, NoError
  <1>2. CASE clauses # Nil /\ (~IsPair(Car(clauses)) \/ ~IsPair(Cdr(Car(clauses))))
    BY <1>2 DEF TryClause, Fails, Return, NoError
  <1>3. CASE clauses # Nil /\ IsPair(Car(clauses)) /\ IsPair(Cdr(Car(clauses)))
    BY <1>3 DEF TryClause, Evaluate
  <1> QED
    BY <1>1, <1>2, <1>3

LEMMA ApplyCondKeeps ==
    ASSUME IInv, ApplyCond
    PROVE  IInv' /\ (\A n \in Nat : Rooted(n) => Rooted(n)')
  <1> DEFINE kont == [k |-> "cond", clauses |-> mode.args, result |-> Nil]
             held == nroots + 2
  <1>1. /\ mode.k = "apply" /\ frames' = frames
        /\ TryClause(mode.args, konts, held)
    BY DEF ApplyCond, Running
  <1> HIDE DEF held
  <1>2. \/ /\ mode'.k = "return" /\ error' # NoError /\ konts' = konts
           /\ nroots' = held - 2
        \/ /\ mode'.k = "eval" /\ error' = error /\ nroots' = held
           /\ konts' = <<kont>> \o konts
    BY <1>1, TryClauseOutcomes
  <1>3. "k" \in DOMAIN kont /\ kont.k = "cond"
    OBVIOUS
  <1> HIDE DEF kont
  <1>4. CASE /\ mode'.k = "return" /\ error' # NoError /\ konts' = konts
             /\ nroots' = held - 2
    <2>1. Sound("return", Kinds(konts), Len(frames), error')
      BY <1>1, <1>4, StateFacts, Stayed DEF Working
    <2>2. IInv'
      BY <1>1, <1>4, <2>1, StateFacts DEF IInv
    <2>3. \A n \in Nat : Rooted(n) => Rooted(n)'
      BY <1>4, StateFacts DEF Rooted, held
    <2> QED
      BY <2>2, <2>3
  <1>5. CASE /\ mode'.k = "eval" /\ error' = error /\ nroots' = held
             /\ konts' = <<kont>> \o konts
    BY <1>1, <1>3, <1>5, EnterKeeps, RootsOfKinds, StateFacts DEF held
  <1> QED
    BY <1>2, <1>4, <1>5

LEMMA CondTestKeeps ==
    ASSUME IInv, CondTest
    PROVE  IInv' /\ (\A n \in Nat : Rooted(n) => Rooted(n)')
  <1> DEFINE next == [k |-> "cond", clauses |-> Cdr(konts[1].clauses), result |-> Nil]
             tail == [k |-> "tail", result |-> konts[1].result]
  <1>1. mode.k = "return" /\ konts[1].k = "cond" /\ frames' = frames
    BY DEF CondTest
  <1>2. \/ /\ mode'.k = "return" /\ (error' = error \/ error' # NoError)
           /\ konts' = Below /\ nroots' = nroots - 2
        \/ /\ mode'.k = "eval" /\ error' = error /\ nroots' = nroots
           /\ konts' = <<next>> \o Below \/ konts' = <<tail>> \o Below
    <2>1. CASE ~mode.ok
      BY <1>1, <2>1 DEF CondTest
    <2>2. CASE mode.ok /\ konts[1].result = Nil
      <3>1. TryClause(Cdr(konts[1].clauses), Below, nroots)
        BY <2>2, Zenon DEF CondTest
      <3> QED
        BY <3>1, TryClauseOutcomes
    <2>3. CASE mode.ok /\ konts[1].result # Nil
      BY <2>3 DEF CondTest, Evaluate
    <2> QED
      BY <2>1, <2>2, <2>3
  <1>3. IsKonts(Below)
    BY <1>1, Popped DEF Working
  <1>4. /\ "k" \in DOMAIN next /\ next.k = "cond"
        /\ "k" \in DOMAIN tail /\ tail.k = "tail"
    OBVIOUS
  <1> HIDE DEF next, tail
  <1>5. CASE /\ mode'.k = "return" /\ (error' = error \/ error' # NoError)
             /\ konts' = Below /\ nroots' = nroots - 2
    BY <1>1, <1>3, <1>5, LeaveKeeps, RootsOfKinds, StateFacts DEF Working
  <1>6. CASE /\ mode'.k = "eval" /\ error' = error /\ nroots' = nroots
             /\ konts' = <<next>> \o Below \/ konts' = <<tail>> \o Below
    <2>1. PICK kont \in {next, tail} : konts' = <<kont>> \o Below
      BY <1>6
    <2>2. /\ "k" \in DOMAIN kont /\ kont.k \in {"cond", "tail"}
          /\ RootsOf(kont.k) = 2 /\ RootsOf(konts[1].k) = 2
      BY <1>1, <1>4, RootsOfKinds
    <2>3. nroots \in Nat => nroots' = nroots - RootsOf(konts[1].k) + RootsOf(kont.k)
      BY <1>6, <2>2
    <2> QED
      BY <1>1, <1>3, <1>6, <2>1, <2>2, <2>3, BecomeKeeps
  <1> QED
    BY <1>2, <1>5, <1>6

LEMMA TailValueKeeps ==
    ASSUME IInv, TailValue
    PROVE  IInv' /\ (\A n \in Nat : Rooted(n) => Rooted(n)')
  <1>1. /\ mode.k = "return" /\ konts[1].k \in {"tail", "branch"} /\ mode' = mode
        /\ konts' = Deliver(Below, konts[1].result) \/ konts' = Below
        /\ nroots' = IF konts[1].k = "tail" THEN nroots - 2 ELSE nroots
        /\ frames' = frames /\ error' = error
    BY DEF TailValue
  <1>2. IsKonts(Below)
    BY <1>1, Popped DEF Working
  <1>3. IsKonts(konts') /\ Kinds(konts') = Kinds(Below)
    BY <1>1, <1>2, KontsDelivered
  <1>4. CASE konts[1].k = "tail"
    BY <1>1, <1>3, <1>4, LeaveKeeps, RootsOfKinds, StateFacts DEF Working
  <1>5. CASE konts[1].k = "branch"
    <2>1. Sound("return", Kinds(Below), Len(frames), error)
      BY <1>1, Returned DEF Working
    <2>2. Held(Kinds(konts)) = Held(Kinds(Below)) + 0 /\ Held(Kinds(Below)) \in Nat
      BY <1>1, <1>5, Popped, RootsOfKinds DEF Working
    <2> QED
      BY <1>1, <1>3, <1>5, <2>1, <2>2, StateFacts DEF IInv, Rooted
  <1> QED
    BY <1>1, <1>4, <1>5

LEMMA ApplyBeginKeeps ==
    ASSUME IInv, ApplyBegin
    PROVE  IInv' /\ (\A n \in Nat : Rooted(n) => Rooted(n)')
  <1> DEFINE kont == [k |-> "begin", rest |-> List(Tail(args))]
  <1>1. mode.k = "apply" /\ frames' = Disabled
    BY DEF ApplyBegin, Running
  <1>2. IsStack(frames') /\ Len(frames') = Len(frames)
    BY <1>1, DisabledKeepsFrames, StateFacts
  <1>3. CASE args = <<>>
    <2>1. Fails("erronous_arg_count") /\ konts' = konts /\ nroots' = nroots
      BY <1>3 DEF ApplyBegin
    <2>2. "erronous_arg_count" # NoError
      BY DEF NoError
    <2> QED
      BY <1>1, <1>2, <2>1, <2>2, RefusalKeeps
  <1>4. CASE args # <<>>
    <2>1. /\ mode'.k = "eval" /\ konts' = <<kont>> \o konts /\ nroots' = nroots + 2
          /\ error' = error
      BY <1>4 DEF ApplyBegin, Evaluate, Push
    <2>2. "k" \in DOMAIN kont /\ kont.k = "begin"
      OBVIOUS
    <2> HIDE DEF kont
    <2> QED
      BY <1>1, <1>2, <2>1, <2>2, EnterKeeps, RootsOfKinds
  <1> QED
    BY <1>3, <1>4

LEMMA BeginValueKeeps ==
    ASSUME IInv, BeginValue
    PROVE  IInv' /\ (\A n \in Nat : Rooted(n) => Rooted(n)')
  <1> DEFINE kont == [konts[1] EXCEPT !.rest = Cdr(konts[1].rest)]
  <1>1. /\ mode.k = "return" /\ konts[1].k = "begin"
        /\ frames' = frames /\ error' = error
        /\ \/ mode'.k = "eval" /\ konts' = <<kont>> \o Below /\ nroots' = nroots
           \/ mode' = mode /\ konts' = Below /\ nroots' = nroots - 2
    BY DEF BeginValue, Evaluate
  <1>2. IsKonts(Below)
    BY <1>1, Popped DEF Working
  <1>3. "k" \in DOMAIN kont /\ kont.k = "begin"
    <2>1. "k" \in DOMAIN konts[1]
      BY <1>1, StateFacts, KontsPopped DEF Working
    <2> QED
      BY <1>1, <2>1, Zenon
  <1> HIDE DEF kont
  <1>4. CASE mode'.k = "eval" /\ konts' = <<kont>> \o Below /\ nroots' = nroots
    <2>1. nroots \in Nat => nroots' = nroots - RootsOf(konts[1].k) + RootsOf(kont.k)
      BY <1>1, <1>3, <1>4, RootsOfKinds
    <2> QED
      BY <1>1, <1>2, <1>3, <1>4, <2>1, BecomeKeeps
  <1>5. CASE mode' = mode /\ konts' = Below /\ nroots' = nroots - 2
    BY <1>1, <1>2, <1>5, LeaveKeeps, RootsOfKinds, StateFacts DEF Working
  <1> QED
    BY <1>1, <1>4, <1>5

(***************************************************************************)
(* Assignments and functions.                                              *)
(***************************************************************************)
LEMMA ApplyLetKeeps ==
    ASSUME IInv, ApplyLet
    PROVE  IInv' /\ (\A n \in Nat : Rooted(n) => Rooted(n)')
  <1> DEFINE kont == [k |-> "let", name |-> args[1], result |-> Nil]
  <1>1. mode.k = "apply" /\ frames' = Disabled
    BY DEF ApplyLet, Running
  <1>2. IsStack(frames') /\ Len(frames') = Len(frames)
    BY <1>1, DisabledKeepsFrames, StateFacts
  <1>3. CASE ~IsSymbol(args[1])
    <2>1. Fails("invalid_type") /\ konts' = konts /\ nroots' = nroots
      BY <1>3 DEF ApplyLet
    <2>2. "invalid_type" # NoError
      BY DEF NoError
    <2> QED
      BY <1>1, <1>2, <2>1, <2>2, RefusalKeeps
  <1>4. CASE IsSymbol(args[1])
    <2>1. /\ mode'.k = "eval" /\ konts' = <<kont>> \o konts /\ nroots' = nroots + 3
          /\ error' = error
      BY <1>4 DEF ApplyLet, Evaluate, Push
    <2>2. "k" \in DOMAIN kont /\ kont.k = "let"
      OBVIOUS
    <2> HIDE DEF kont
    <2> QED
      BY <1>1, <1>2, <2>1, <2>2, EnterKeeps, RootsOfKinds
  <1> QED
    BY <1>3, <1>4

LEMMA LetValueKeeps ==
    ASSUME IInv, LetValue
    PROVE  IInv' /\ (\A n \in Nat : Rooted(n) => Rooted(n)')
  <1>1. CASE Crash
    BY <1>1, CrashKeeps
  <1>2. CASE ~Crash
    <2>1. /\ mode = Return(TRUE) /\ mode' = mode /\ konts[1].k = "let"
          /\ error' = error /\ nroots' = nroots - 3
          /\ Bind(<<konts[1].name>>, <<konts[1].result>>)
          /\ \E collect \in BOOLEAN : konts' = Collected(Below, collect)
      BY <1>2, Zenon DEF LetValue
    <2>2. mode.k = "return"
      BY <2>1 DEF Return
    <2>3. IsStack(frames') /\ Len(frames') = Len(frames)
      BY <2>1, BindKeepsFrames, StateFacts
    <2>4. IsKonts(konts') /\ Kinds(konts') = Kinds(Below)
      BY <2>1, <2>2, Popped, KontsCollected DEF Working
    <2> QED
      BY <2>1, <2>2, <2>3, <2>4, LeaveKeeps, RootsOfKinds DEF Working
  <1> QED
    BY <1>1, <1>2

LEMMA ApplySetKeeps ==
    ASSUME IInv, ApplySet
    PROVE  IInv' /\ (\A n \in Nat : Rooted(n) => Rooted(n)')
  <1> DEFINE kont == [k |-> "set", name |-> args[1], result |-> Nil]
  <1>1. mode.k = "apply" /\ frames' = frames
    BY DEF ApplySet, Running
  <1>2. CASE ~IsSymbol(args[1])
    <2>1. Fails("invalid_type") /\ konts' = konts /\ nroots' = nroots
      BY <1>2 DEF ApplySet
    <2>2. "invalid_type" # NoError
      BY DEF NoError
    <2> QED
      BY <1>1, <2>1, <2>2, RefusalKeeps, StateFacts
  <1>3. CASE IsSymbol(args[1])
    <2>1. /\ mode'.k = "eval" /\ konts' = <<kont>> \o konts /\ nroots' = nroots + 2
          /\ error' = error
      BY <1>3 DEF ApplySet, Evaluate, Push
    <2>2. "k" \in DOMAIN kont /\ kont.k = "set"
      OBVIOUS
    <2> HIDE DEF kont
    <2> QED
      BY <1>1, <2>1, <2>2, EnterKeeps, RootsOfKinds, StateFacts
  <1> QED
    BY <1>2, <1>3

LEMMA SetValueKeeps ==
    ASSUME IInv, SetValue
    PROVE  IInv' /\ (\A n \in Nat : Rooted(n) => Rooted(n)')
  <1>1. CASE Crash
    BY <1>1, CrashKeeps
  <1>2. CASE ~Crash
    <2>1. /\ mode = Return(TRUE) /\ mode' = mode /\ konts[1].k = "set"
          /\ frames' = frames /\ error' = error /\ nroots' = nroots - 2
          /\ \E collect \in BOOLEAN : konts' = Collected(Below, collect)
      BY <1>2, Zenon DEF SetValue
    <2>2. mode.k = "return"
      BY <2>1 DEF Return
    <2>3. IsKonts(konts') /\ Kinds(konts') = Kinds(Below)
      BY <2>1, <2>2, Popped, KontsCollected DEF Working
    <2> QED
      BY <2>1, <2>2, <2>3, LeaveKeeps, RootsOfKinds, StateFacts DEF Working
  <1> QED
    BY <1>1, <1>2

LEMMA AssignmentFailsKeeps ==
    ASSUME IInv, AssignmentFails
    PROVE  IInv' /\ (\A n \in Nat : Rooted(n) => Rooted(n)')
  <1>1. /\ mode.k = "return" /\ mode' = mode /\ konts' = Below /\ frames' = frames
        /\ konts[1].k \in {"let", "set"} /\ error' = error
        /\ nroots' = nroots - RootsOf(konts[1].k)
    BY RootsOfKinds DEF AssignmentFails, Return
  <1>2. IsKonts(Below)
    BY <1>1, Popped DEF Working
  <1> QED
    BY <1>1, <1>2, LeaveKeeps, StateFacts DEF Working

\* The one action that may leave a root behind.
LEMMA ApplyDefineKeeps ==
    ASSUME IInv, ApplyDefine
    PROVE  /\ IInv'
           /\ \A n \in Nat :
                Rooted(n) => Rooted(n)' \/ (RefusesDefinition /\ Rooted(n + 1)')
  <1> DEFINE def == List(<<args[2], Cons(Sym("begin"), Cddr(mode.args))>>)
             e == FunctionDefError(def)
  <1>1. mode.k = "apply" /\ frames' = frames
    BY DEF ApplyDefine, Running
  <1>2. CASE Len(args) < 3 \/ ~IsSymbol(args[1])
    <2>1. \E err \in {"erronous_arg_count", "invalid_type"} :
            Fails(err) /\ konts' = konts /\ nroots' = nroots
      BY <1>2 DEF ApplyDefine
    <2>2. IInv' /\ (\A n \in Nat : Rooted(n) => Rooted(n)')
      BY <1>1, <2>1, RefusalKeeps, StateFacts DEF NoError
    <2> QED
      BY <2>2
  <1>3. CASE ~(Len(args) < 3) /\ IsSymbol(args[1])
    <2>1. \E collections \in 0 .. 2 :
            /\ konts' = Collected(konts, collections > 0)
            /\ \/ mode' = Return(TRUE) /\ error' = error /\ nroots' = nroots
               \/ /\ e # NoError /\ nroots' = nroots + 1
                  /\ error' = IF collections = 0 THEN e ELSE error
                  /\ mode' = IF collections = 2 THEN Fault ELSE Return(FALSE)
      BY <1>3, Zenon DEF ApplyDefine
    <2>2. IsKonts(konts') /\ Kinds(konts') = Kinds(konts)
      BY <2>1, KontsCollected, StateFacts
    <2> HIDE DEF e
    <2>3. \/ mode'.k = "return" /\ error' = error /\ nroots' = nroots
          \/ /\ mode'.k \in {"return", "fault"} /\ nroots' = nroots + 1
             /\ error' = error \/ (error' # NoError /\ mode'.k = "return")
      BY <2>1 DEF Return, Fault
    <2>4. CASE mode'.k = "return" /\ error' = error /\ nroots' = nroots
      <3>1. IInv' /\ (\A n \in Nat : Rooted(n) => Rooted(n)')
        BY <1>1, <2>2, <2>4, StayKeeps, StateFacts DEF Working
      <3> QED
        BY <3>1
    <2>5. CASE /\ mode'.k \in {"return", "fault"} /\ nroots' = nroots + 1
               /\ error' = error \/ (error' # NoError /\ mode'.k = "return")
      <3>1. Sound(mode'.k, Kinds(konts), Len(frames), error')
        BY <1>1, <2>5, StateFacts, Stayed, Faulted DEF Working
      <3>2. IInv'
        BY <1>1, <2>2, <3>1, StateFacts DEF IInv
      <3>3. \A n \in Nat : Rooted(n) => RefusesDefinition /\ Rooted(n + 1)'
        BY <2>2, <2>5, StateFacts DEF Rooted, RefusesDefinition
      <3> QED
        BY <3>2, <3>3
    <2> QED
      BY <2>3, <2>4, <2>5
  <1> QED
    BY <1>2, <1>3

LEMMA ApplyLambdaKeeps ==
    ASSUME IInv, ApplyLambda
    PROVE  IInv' /\ (\A n \in Nat : Rooted(n) => Rooted(n)')
  <1>1. mode.k = "apply" /\ frames' = frames /\ nroots' = nroots
    BY DEF ApplyLambda, Running
  <1>2. CASE FunctionDefError(mode.args) # NoError
    <2>1. Fails(FunctionDefError(mode.args)) /\ konts' = konts
      BY <1>2 DEF ApplyLambda
    <2> QED
      BY <1>1, <1>2, <2>1, RefusalKeeps, StateFacts
  <1>3. CASE FunctionDefError(mode.args) = NoError
    <2>1. /\ mode' = Return(TRUE) /\ error' = error
          /\ \E collect, v : konts' = Deliver(Collected(konts, collect), v)
      BY <1>3, Zenon DEF ApplyLambda
    <2>2. mode'.k = "return"
      BY <2>1 DEF Return
    <2>3. IsKonts(konts') /\ Kinds(konts') = Kinds(konts)
      BY <2>1, ValueDelivered, StateFacts
    <2> QED
      BY <1>1, <2>1, <2>2, <2>3, StayKeeps, StateFacts DEF Working
  <1> QED
    BY <1>2, <1>3

LEMMA ApplyFunctionKeeps ==
    ASSUME IInv, ApplyFunction
    PROVE  IInv' /\ (\A n \in Nat : Rooted(n) => Rooted(n)')
  <1>1. mode.k = "apply" /\ frames' = frames /\ nroots' = nroots
    BY DEF ApplyFunction, Running
  <1>2. \/ \E e \in {"invalid_type", "symbol_lookup_failed"} : Fails(e) /\ konts' = konts
        \/ /\ mode' = Return(TRUE) \/ mode' = Fault
           /\ error' = error
           /\ \E v : konts' = Deliver(konts, v)
                    \/ \E collect : konts' = Deliver(Collected(konts, collect), v)
    <2>1. CASE ~IsSymbol(args[1])
      BY <2>1, Zenon DEF ApplyFunction
    <2>2. CASE IsSymbol(args[1]) /\ EnvFinds(funcs, Name(args[1]))
      BY <2>2, Zenon DEF ApplyFunction
    <2>3. CASE /\ IsSymbol(args[1]) /\ ~EnvFinds(funcs, Name(args[1]))
               /\ IsBuiltin(args[1])
      BY <2>3, Zenon DEF ApplyFunction
    <2>4. CASE /\ IsSymbol(args[1]) /\ ~EnvFinds(funcs, Name(args[1]))
               /\ ~IsBuiltin(args[1])
      BY <2>4, Zenon DEF ApplyFunction
    <2> QED
      BY <2>1, <2>2, <2>3, <2>4, Zenon
  <1>3. CASE \E e \in {"invalid_type", "symbol_lookup_failed"} :
               Fails(e) /\ konts' = konts
    BY <1>1, <1>3, RefusalKeeps, StateFacts DEF NoError
  <1>4. CASE /\ mode' = Return(TRUE) \/ mode' = Fault
             /\ error' = error
             /\ \E v : konts' = Deliver(konts, v)
                      \/ \E collect : konts' = Deliver(Collected(konts, collect), v)
    <2>1. IsKonts(konts') /\ Kinds(konts') = Kinds(konts)
      BY <1>4, ValueDelivered, KontsDelivered, StateFacts
    <2>2. CASE mode' = Return(TRUE)
      <3>1. mode'.k = "return"
        BY <2>2 DEF Return
      <3> QED
        BY <1>1, <1>4, <2>1, <3>1, StayKeeps, StateFacts DEF Working
    <2>3. CASE mode' = Fault
      <3>1. mode'.k = "fault"
        BY <2>3 DEF Fault
      <3>2. Sound("fault", Kinds(konts), Len(frames), error)
        BY StateFacts, Faulted
      <3> QED
        BY <1>1, <1>4, <2>1, <3>1, <3>2, StateFacts DEF IInv, Rooted
    <2> QED
      BY <1>4, <2>2, <2>3
  <1> QED
    BY <1>2, <1>3, <1>4

LEMMA ApplyFuncallKeeps ==
    ASSUME IInv, ApplyFuncall
    PROVE  IInv' /\ (\A n \in Nat : Rooted(n) => Rooted(n)')
  <1> DEFINE kont == [k |-> "funcall"]
  <1>1. mode.k = "apply" /\ frames' = frames
    BY DEF ApplyFuncall, Running
  <1>2. CASE FuncallError # NoError
    <2>1. Fails(FuncallError) /\ konts' = konts /\ nroots' = nroots
      BY <1>2, Zenon DEF ApplyFuncall
    <2> QED
      BY <1>1, <1>2, <2>1, RefusalKeeps, StateFacts
  <1>3. CASE FuncallError = NoError
    <2>1. /\ \E id, def, xs : mode' = Call(id, def, xs)
          /\ konts' = <<kont>> \o konts /\ nroots' = nroots + 2 /\ error' = error
      BY <1>3, Zenon DEF ApplyFuncall, Push
    <2>2. mode'.k = "call"
      BY <2>1 DEF Call
    <2>3. "k" \in DOMAIN kont /\ kont.k = "funcall"
      OBVIOUS
    <2> HIDE DEF kont
    <2>4. IsKonts(konts') /\ Kinds(konts') = <<"funcall">> \o Kinds(konts)
      BY <2>1, <2>3, KontsPushed, StateFacts
    <2>5. Sound("apply", Kinds(konts), Len(frames), error)
      BY <1>1, StateFacts
    <2>6. Sound("call", Kinds(konts'), Len(frames), error)
      BY <2>4, <2>5, EnteredFuncall, StateFacts
    <2>7. Held(<<"funcall">> \o Kinds(konts)) = Held(Kinds(konts)) + RootsOf("funcall")
      BY KindPushed, StateFacts
    <2>8. Held(Kinds(konts')) = Held(Kinds(konts)) + 2 /\ Held(Kinds(konts)) \in Nat
      BY <2>4, <2>7, RootsOfKinds, StateFacts
    <2>9. frames' = frames /\ mode'.k = "call" /\ nroots' = nroots + 2 /\ error' = error
      BY <1>1, <2>1, <2>2
    <2>10. IInv'
      BY <2>4, <2>6, <2>9, StateFacts DEF IInv
    <2>11. ASSUME NEW n \in Nat, Rooted(n) PROVE Rooted(n)'
      BY <2>8, <2>9, <2>11 DEF Rooted
    <2> QED
      BY <2>10, <2>11
  <1> QED
    BY <1>2, <1>3

(***************************************************************************)
(* The invariant is one.                                                   *)
(***************************************************************************)
LEMMA InitEstablishes ==
    ASSUME Init
    PROVE  IInv /\ Balanced
  <1>1. /\ mode.k = "idle" /\ konts = <<>> /\ frames = <<>> /\ error = NoError
        /\ nroots = 2
    BY DEF Init, Idle
  <1>2. IsKonts(<<>>)
    BY NoKinds DEF IsKonts
  <1>3. Kinds(konts) = <<>>
    BY <1>1, <1>2, KindsType
  <1>4. Len(frames) = 0
    BY <1>1
  <1>5. Sound("idle", <<>>, 0, NoError)
    BY NoKinds, MaxDepthAssumption DEF Sound, Working
  <1>6. Balanced
    BY <1>1, <1>3, NoKinds DEF Balanced, Rooted
  <1> QED
    BY <1>1, <1>2, <1>3, <1>4, <1>5, <1>6, NoKinds DEF IInv

LEMMA StutterKeeps ==
    ASSUME IInv, UNCHANGED state
    PROVE  IInv' /\ (\A n \in Nat : Rooted(n) => Rooted(n)')
  <1>1. /\ mode' = mode /\ konts' = konts /\ frames' = frames /\ error' = error
        /\ nroots' = nroots
    BY DEF state
  <1> QED
    BY <1>1 DEF IInv, Rooted

LEMMA StepKeeps ==
    ASSUME IInv, [Next]_state
    PROVE  /\ IInv'
           /\ \A n \in Nat :
                Rooted(n) => Rooted(n)' \/ (RefusesDefinition /\ Rooted(n + 1)')
  <1> DEFINE Kept == IInv' /\ (\A n \in Nat : Rooted(n) => Rooted(n)')
  <1>1. ASSUME Read \/ Finish
         PROVE  Kept
    BY <1>1, ReadKeeps, FinishKeeps
  <1>2. ASSUME EvalConstant \/ EvalSymbol \/ EvalCall \/ PassOn
         PROVE  Kept
    BY <1>2, EvalConstantKeeps, EvalSymbolKeeps, EvalCallKeeps, PassOnKeeps
  <1>3. ASSUME EnterFunc \/ ArgumentValue \/ ArgumentFails \/ ApplyDefined \/ LeaveFunc
         PROVE  Kept
    BY <1>3, EnterFuncKeeps, ArgumentValueKeeps, ArgumentFailsKeeps,
       ApplyDefinedKeeps, LeaveFuncKeeps
  <1>4. ASSUME ApplySimple \/ ApplyEval
         PROVE  Kept
    BY <1>4, ApplySimpleKeeps, ApplyEvalKeeps
  <1>5. ASSUME ApplyAnd \/ AndFirst \/ ApplyOr \/ OrFirst \/ ApplyIf \/ IfTest
         PROVE  Kept
    BY <1>5, ApplyAndKeeps, AndFirstKeeps, ApplyOrKeeps, OrFirstKeeps,
       ApplyIfKeeps, IfTestKeeps
  <1>6. ASSUME ApplyCond \/ CondTest \/ TailValue \/ ApplyBegin \/ BeginValue
         PROVE  Kept
    BY <1>6, ApplyCondKeeps, CondTestKeeps, TailValueKeeps, ApplyBeginKeeps,
       BeginValueKeeps
  <1>7. ASSUME ApplyLet \/ LetValue \/ ApplySet \/ SetValue \/ AssignmentFails
         PROVE  Kept
    BY <1>7, ApplyLetKeeps, LetValueKeeps, ApplySetKeeps, SetValueKeeps,
       AssignmentFailsKeeps
  <1>8. CASE ApplyDefine
    BY <1>8, ApplyDefineKeeps
  <1>9. ASSUME ApplyLambda \/ ApplyFunction \/ ApplyFuncall
         PROVE  Kept
    BY <1>9, ApplyLambdaKeeps, ApplyFunctionKeeps, ApplyFuncallKeeps
  <1>10. ASSUME Stopped \/ UNCHANGED state
         PROVE  Kept
    BY <1>10, StutterKeeps DEF Stopped
  <1> HIDE DEF Kept
  <1>11. CASE Kept
    BY <1>11 DEF Kept
  <1> QED
    BY <1>1, <1>2, <1>3, <1>4, <1>5, <1>6, <1>7, <1>8, <1>9, <1>10, <1>11 DEF Next, Step

\* In every state the number of frames, the activations and the mode fit together,
\* whatever the program does and whatever collections happen.
THEOREM InvariantHolds == Spec => []IInv
  <1>1. Init => IInv
    BY InitEstablishes
  <1>2. IInv /\ [Next]_state => IInv'
    BY StepKeeps
  <1> QED
    BY <1>1, <1>2, PTL DEF Spec

\* The stack of frames is never deeper than its limit and the calls of funcall that
\* are under way, while no error was recorded.
THEOREM DepthAlwaysBounded == Spec => []DepthBounded
  <1>1. IInv => DepthBounded
    <2> HAVE IInv
    <2>1. Sound(mode.k, Kinds(konts), Len(frames), error)
      BY StateFacts
    <2> QED
      BY <2>1 DEF Sound, DepthBounded, Funcalls, Count, Activations
  <1> QED
    BY <1>1, InvariantHolds, PTL

\* After a form that succeeded no frame is left, on whichever ways out of eval_func
\* its calls returned.
THEOREM FramesAlwaysUnwound == Spec => []FramesUnwound
  <1>1. IInv => FramesUnwound
    <2> SUFFICES ASSUME IInv, mode = Idle, error = NoError
                 PROVE  frames = <<>>
      BY DEF FramesUnwound
    <2>1. mode.k = "idle"
      BY DEF Idle
    <2>2. Sound("idle", Kinds(konts), Len(frames), error) /\ IsStack(frames)
      BY <2>1, StateFacts
    <2>3. Len(frames) = Funcs(<<>>)
      BY <2>2 DEF Sound
    <2> QED
      BY <2>2, <2>3, NoKinds, StackFacts
  <1> QED
    BY <1>1, InvariantHolds, PTL

\* As long as no definition is refused, the root array has the entries of the VM and
\* of the activations on the stack, and no other.
LEMMA BalanceHolds == Spec /\ [][~RefusesDefinition]_state => [](IInv /\ Balanced)
  <1>1. Init => IInv /\ Balanced
    BY InitEstablishes
  <1>2. /\ IInv /\ Balanced /\ [Next]_state /\ [~RefusesDefinition]_state
        => (IInv /\ Balanced)'
    <2> SUFFICES ASSUME IInv, Balanced, [Next]_state, [~RefusesDefinition]_state
                 PROVE  IInv' /\ Balanced'
      OBVIOUS
    <2>1. CASE UNCHANGED state
      BY <2>1, StutterKeeps DEF Balanced
    <2>2. CASE ~RefusesDefinition
      BY <2>2, StepKeeps DEF Balanced
    <2> QED
      BY <2>1, <2>2
  <1> QED
    BY <1>1, <1>2, PTL DEF Spec

\* The root array agrees with the C stack at every moment, on every path out of every
\* function but define's refusal, which leaves args rooted.
THEOREM RootsMatchUnlessRefused ==
    Spec /\ [][~RefusesDefinition]_state => []RootsMatchStack
  <1>1. Balanced => RootsMatchStack
    BY DEF Balanced, Rooted, Held, RootsMatchStack, RootsHeld
  <1> QED
    BY <1>1, BalanceHolds, PTL

\* So the assertion of drive on the number of roots holds after every form, unless one
\* of the forms had a definition refused.
THEOREM AssertionHoldsUnlessRefused ==
    Spec /\ [][~RefusesDefinition]_state => []RootsBalanced
  <1>1. IInv /\ Balanced => RootsBalanced
    <2> SUFFICES ASSUME IInv, Balanced, mode.k = "return", konts[1].k = "eval"
                 PROVE  nroots = 5
      BY DEF RootsBalanced
    <2>1. /\ IsStack(Kinds(Below)) /\ Kinds(konts) = <<"eval">> \o Kinds(Below)
          /\ Held(Kinds(konts)) = Held(Kinds(Below)) + 3
      BY Popped, RootsOfKinds DEF Working
    <2>2. Sound("return", <<"eval">> \o Kinds(Below), Len(frames), error)
      BY <2>1, StateFacts
    <2>3. Kinds(Below) = <<>>
      BY <2>1, <2>2, StateFacts, Finished
    <2> QED
      BY <2>1, <2>3, NoKinds DEF Balanced, Rooted
  <1> QED
    BY <1>1, BalanceHolds, PTL

(***************************************************************************)
(* What fails has recorded an error.                                       *)
(***************************************************************************)
LEMMA OthersGoOn ==
    /\ GoesOn(Return(TRUE)) /\ GoesOn(Idle) /\ GoesOn(Fault)
    /\ \A x : GoesOn(Evaluate(x))
    /\ \A id, def, xs : GoesOn(Call(id, def, xs)) /\ GoesOn(Apply(id, def, xs))
  BY DEF GoesOn, Return, Idle, Fault, Evaluate, Call, Apply

\* A step that refuses, or hands on what it was told, or does not fail.
LEMMA Explained ==
    ASSUME Answered,
           \/ \E e : e # NoError /\ Fails(e)
           \/ mode' = mode /\ error' = error
           \/ GoesOn(mode')
    PROVE  Answered'
  <1>1. Return(TRUE) # Return(FALSE) /\ Return(FALSE).k = "return"
    <2>1. Return(TRUE).ok = TRUE /\ Return(FALSE).ok = FALSE
      BY DEF Return
    <2> QED
      BY <2>1 DEF Return
  <1>2. CASE GoesOn(mode')
    <2>1. mode' # Return(FALSE)
      BY <1>1, <1>2, Zenon DEF GoesOn
    <2>2. mode'.k = "return" => mode' \in {Return(TRUE), Return(FALSE)}
      BY <1>2, Zenon DEF GoesOn
    <2> QED
      BY <2>1, <2>2 DEF Answered, FailureHasError
  <1>3. CASE mode' = mode /\ error' = error
    BY <1>3 DEF Answered, FailureHasError
  <1>4. CASE \E e : e # NoError /\ Fails(e)
    BY <1>4 DEF Answered, FailureHasError, Fails
  <1> QED
    BY <1>2, <1>3, <1>4

LEMMA FuncExplained ==
    ASSUME Answered, EnterFunc \/ ArgumentValue \/ ArgumentFails \/ ApplyDefined
                            \/ LeaveFunc
    PROVE  Answered'
  <1>1. CASE EnterFunc
    <2>1. \/ mode' = Fault
          \/ /\ CallError(mode.id, mode.def, mode.args) # NoError
             /\ Fails(CallError(mode.id, mode.def, mode.args))
          \/ \E x : mode' = Evaluate(x)
          \/ \E id, def, xs : mode' = Apply(id, def, xs)
      BY <1>1, Zenon DEF EnterFunc
    <2> QED
      BY <2>1, OthersGoOn, Explained
  <1>2. CASE ArgumentValue
    <2>1. \/ mode' = Fault
          \/ \E x : mode' = Evaluate(x)
          \/ \E id, def, xs : mode' = Apply(id, def, xs)
      BY <1>2, Zenon DEF ArgumentValue, Crash
    <2> QED
      BY <2>1, OthersGoOn, Explained
  <1>3. CASE ArgumentFails \/ LeaveFunc
    <2>1. mode' = mode /\ error' = error
      BY <1>3 DEF ArgumentFails, LeaveFunc
    <2> QED
      BY <2>1, Explained
  <1>4. CASE ApplyDefined
    <2>1. \E x : mode' = Evaluate(x)
      BY <1>4 DEF ApplyDefined
    <2> QED
      BY <2>1, OthersGoOn, Explained
  <1> QED
    BY <1>1, <1>2, <1>3, <1>4

LEMMA EvalExplained ==
    ASSUME Answered, Read \/ Finish \/ EvalConstant \/ EvalSymbol \/ EvalCall
                            \/ PassOn \/ ApplySimple \/ ApplyEval
    PROVE  Answered'
  <1>1. CASE Read \/ ApplyEval
    <2>1. \E x : mode' = Evaluate(x)
      BY <1>1 DEF Read, ApplyEval
    <2> QED
      BY <2>1, OthersGoOn, Explained
  <1>2. CASE Finish
    <2>1. mode' = Idle \/ mode' = Fault
      BY <1>2 DEF Finish, Crash
    <2> QED
      BY <2>1, OthersGoOn, Explained
  <1>3. CASE EvalConstant
    BY <1>3, OthersGoOn, Explained DEF EvalConstant
  <1>4. CASE EvalSymbol
    <2>1. mode' = Return(TRUE) \/ Fails("symbol_lookup_failed")
      BY <1>4, Zenon DEF EvalSymbol
    <2> QED
      BY <2>1, OthersGoOn, Explained DEF NoError
  <1>5. CASE EvalCall
    <2>1. \/ Fails("max_stack_depth_reached") \/ Fails("illegal_func_call")
          \/ \E id, def, xs : mode' = Call(id, def, xs)
      BY <1>5, Zenon DEF EvalCall
    <2> QED
      BY <2>1, OthersGoOn, Explained DEF NoError
  <1>6. CASE PassOn
    BY <1>6, Explained DEF PassOn
  <1>7. CASE ApplySimple
    <2> DEFINE r == Applied(Name(mode.id), args, error)
    <2>1. Sensible(r)
      BY <1>7, AppliedSensible DEF ApplySimple
    <2> HIDE DEF r
    <2>2. (r.ok /\ mode' = Return(TRUE)) \/ (~r.ok /\ Fails(r.error))
      BY <1>7, Zenon DEF ApplySimple, r
    <2> QED
      BY <2>1, <2>2, OthersGoOn, Explained DEF Sensible
  <1> QED
    BY <1>1, <1>2, <1>3, <1>4, <1>5, <1>6, <1>7

LEMMA BranchExplained ==
    ASSUME Answered, ~AndYieldsNil,
           ApplyAnd \/ AndFirst \/ ApplyOr \/ OrFirst \/ ApplyIf \/ IfTest \/ ApplyCond
           \/ CondTest \/ TailValue \/ ApplyBegin \/ BeginValue
    PROVE  Answered'
  <1>1. CASE ApplyAnd \/ ApplyOr \/ ApplyIf
    <2>1. \E x : mode' = Evaluate(x)
      BY <1>1 DEF ApplyAnd, ApplyOr, ApplyIf
    <2> QED
      BY <2>1, OthersGoOn, Explained
  <1>2. CASE AndFirst
    <2>1. mode.k = "return" /\ error' = error
      BY <1>2 DEF AndFirst
    <2>2. CASE ~mode.ok
      <3>1. mode' = Return(FALSE)
        BY <1>2, <2>2, Zenon DEF AndFirst
      <3>2. Return(TRUE).ok = TRUE
        BY DEF Return
      <3>3. mode = Return(FALSE)
        BY <2>1, <2>2, <3>2, Zenon DEF Answered
      <3> QED
        BY <2>1, <3>1, <3>3, Explained
    <2>3. CASE mode.ok
      <3>1. (\E x : mode' = Evaluate(x)) \/ mode' = Return(FALSE)
        BY <1>2, Zenon DEF AndFirst
      <3>2. \E x : mode' = Evaluate(x)
        BY <1>2, <2>3, <3>1 DEF AndYieldsNil
      <3> QED
        BY <3>2, OthersGoOn, Explained
    <2> QED
      BY <2>2, <2>3
  <1>3. CASE OrFirst
    <2>1. mode' = Return(TRUE) \/ \E x : mode' = Evaluate(x)
      BY <1>3, Zenon DEF OrFirst
    <2> QED
      BY <2>1, OthersGoOn, Explained
  <1>4. CASE IfTest
    <2>1. (mode' = mode /\ error' = error) \/ \E x : mode' = Evaluate(x)
      BY <1>4, Zenon DEF IfTest
    <2> QED
      BY <2>1, OthersGoOn, Explained
  <1>5. ASSUME NEW clauses, NEW ks, NEW held, TryClause(clauses, ks, held)
        PROVE  Answered'
    <2>1. (\E e : e # NoError /\ Fails(e)) \/ GoesOn(mode')
      <3>1. \/ Fails("illegal_func_call") \/ Fails("cond_arg_not_pair")
            \/ \E x : mode' = Evaluate(x)
        BY <1>5, Zenon DEF TryClause
      <3> QED
        BY <3>1, OthersGoOn DEF NoError
    <2> QED
      BY <2>1, Explained
  <1>6. CASE ApplyCond
    BY <1>5, <1>6 DEF ApplyCond
  <1>7. CASE CondTest
    <2>1. \/ mode' = mode /\ error' = error
          \/ TryClause(Cdr(konts[1].clauses), Below, nroots)
          \/ \E x : mode' = Evaluate(x)
      BY <1>7, Zenon DEF CondTest
    <2> QED
      BY <1>5, <2>1, OthersGoOn, Explained
  <1>8. CASE TailValue
    BY <1>8, Explained DEF TailValue
  <1>9. CASE ApplyBegin
    <2>1. Fails("erronous_arg_count") \/ \E x : mode' = Evaluate(x)
      BY <1>9, Zenon DEF ApplyBegin
    <2> QED
      BY <2>1, OthersGoOn, Explained DEF NoError
  <1>10. CASE BeginValue
    <2>1. (mode' = mode /\ error' = error) \/ \E x : mode' = Evaluate(x)
      BY <1>10, Zenon DEF BeginValue
    <2> QED
      BY <2>1, OthersGoOn, Explained
  <1> QED
    BY <1>1, <1>2, <1>3, <1>4, <1>6, <1>7, <1>8, <1>9, <1>10

LEMMA AssignmentExplained ==
    ASSUME Answered, IInv, Balanced, ~RefusesDefinition,
           ApplyLet \/ LetValue \/ ApplySet \/ SetValue \/ AssignmentFails \/ ApplyDefine
           \/ ApplyLambda \/ ApplyFunction \/ ApplyFuncall
    PROVE  Answered'
  <1>1. CASE ApplyLet \/ ApplySet
    <2>1. Fails("invalid_type") \/ \E x : mode' = Evaluate(x)
      BY <1>1, Zenon DEF ApplyLet, ApplySet
    <2> QED
      BY <2>1, OthersGoOn, Explained DEF NoError
  <1>2. CASE LetValue \/ SetValue
    <2>1. mode' = Fault \/ (mode' = mode /\ error' = error)
      BY <1>2, Zenon DEF LetValue, SetValue, Crash
    <2> QED
      BY <2>1, OthersGoOn, Explained
  <1>3. CASE AssignmentFails
    BY <1>3, Explained DEF AssignmentFails
  <1>4. CASE ApplyDefine
    <2>1. \/ Fails("erronous_arg_count") \/ Fails("invalid_type")
          \/ mode' = Return(TRUE) \/ nroots' = nroots + 1
      BY <1>4, Zenon DEF ApplyDefine
    <2>2. nroots \in Nat
      BY StateFacts DEF Balanced, Rooted
    <2>3. nroots' # nroots + 1
      BY <1>4, <2>2 DEF RefusesDefinition
    <2> QED
      BY <2>1, <2>3, OthersGoOn, Explained DEF NoError
  <1>5. CASE ApplyLambda
    <2>1. \/ FunctionDefError(mode.args) # NoError /\ Fails(FunctionDefError(mode.args))
          \/ mode' = Return(TRUE)
      BY <1>5, Zenon DEF ApplyLambda
    <2> QED
      BY <2>1, OthersGoOn, Explained
  <1>6. CASE ApplyFunction
    <2>1. \/ Fails("invalid_type") \/ Fails("symbol_lookup_failed")
          \/ mode' = Return(TRUE) \/ mode' = Fault
      <3>1. CASE ~IsSymbol(args[1])
        BY <1>6, <3>1, Zenon DEF ApplyFunction
      <3>2. CASE IsSymbol(args[1]) /\ EnvFinds(funcs, Name(args[1]))
        BY <1>6, <3>2, Zenon DEF ApplyFunction
      <3>3. CASE /\ IsSymbol(args[1]) /\ ~EnvFinds(funcs, Name(args[1]))
                 /\ IsBuiltin(args[1])
        BY <1>6, <3>3, Zenon DEF ApplyFunction
      <3>4. CASE /\ IsSymbol(args[1]) /\ ~EnvFinds(funcs, Name(args[1]))
                 /\ ~IsBuiltin(args[1])
        BY <1>6, <3>4, Zenon DEF ApplyFunction
      <3> QED
        BY <3>1, <3>2, <3>3, <3>4, Zenon
    <2> QED
      BY <2>1, OthersGoOn, Explained DEF NoError
  <1>7. CASE ApplyFuncall
    <2>1. \/ FuncallError # NoError /\ Fails(FuncallError)
          \/ \E id, def, xs : mode' = Call(id, def, xs)
      BY <1>7, Zenon DEF ApplyFuncall
    <2> QED
      BY <2>1, OthersGoOn, Explained
  <1> QED
    BY <1>1, <1>2, <1>3, <1>4, <1>5, <1>6, <1>7

LEMMA StepExplains ==
    ASSUME Answered, IInv, Balanced, [Next]_state, ~RefusesDefinition, ~AndYieldsNil
    PROVE  Answered'
  <1>1. CASE Read \/ Finish \/ EvalConstant \/ EvalSymbol \/ EvalCall \/ PassOn
             \/ ApplySimple \/ ApplyEval
    BY <1>1, EvalExplained
  <1>2. CASE EnterFunc \/ ArgumentValue \/ ArgumentFails \/ ApplyDefined \/ LeaveFunc
    BY <1>2, FuncExplained
  <1>3. CASE ApplyAnd \/ AndFirst \/ ApplyOr \/ OrFirst \/ ApplyIf \/ IfTest
             \/ ApplyCond \/ CondTest \/ TailValue \/ ApplyBegin \/ BeginValue
    BY <1>3, BranchExplained
  <1>4. CASE ApplyLet \/ LetValue \/ ApplySet \/ SetValue \/ AssignmentFails
             \/ ApplyDefine \/ ApplyLambda \/ ApplyFunction \/ ApplyFuncall
    BY <1>4, AssignmentExplained
  <1>5. CASE Stopped \/ UNCHANGED state
    BY <1>5, Explained DEF Stopped, state
  <1> QED
    BY <1>1, <1>2, <1>3, <1>4, <1>5 DEF Next, Step

\* Whatever fails has recorded why, in every program, but for "and" with a first operand
\* that is nil and for a define that is refused; so after the other failures eval does
\* not take them for a success (eval.c:24).
THEOREM FailuresExplainedUnlessSilent ==
    Spec /\ [][~RefusesDefinition /\ ~AndYieldsNil]_state => []FailureHasError
  <1>1. Init => IInv /\ Balanced /\ Answered
    <2>1. Init => Answered
      BY DEF Init, Idle, Answered, FailureHasError, Return
    <2> QED
      BY <2>1, InitEstablishes
  <1>2. /\ IInv /\ Balanced /\ Answered /\ [Next]_state
        /\ [~RefusesDefinition /\ ~AndYieldsNil]_state
        => (IInv /\ Balanced /\ Answered)'
    <2> SUFFICES ASSUME IInv, Balanced, Answered, [Next]_state,
                        [~RefusesDefinition /\ ~AndYieldsNil]_state
                 PROVE  IInv' /\ Balanced' /\ Answered'
      OBVIOUS
    <2>1. CASE UNCHANGED state
      <3>1. mode' = mode /\ error' = error
        BY <2>1 DEF state
      <3> QED
        BY <2>1, <3>1, StutterKeeps, Explained DEF Balanced
    <2>2. CASE ~RefusesDefinition /\ ~AndYieldsNil
      BY <2>2, StepKeeps, StepExplains DEF Balanced
    <2> QED
      BY <2>1, <2>2
  <1>3. Answered => FailureHasError
    BY DEF Answered
  <1> QED
    BY <1>1, <1>2, <1>3, PTL DEF Spec

=============================================================================
