---------------------------- MODULE ValueProofs ----------------------------
(***************************************************************************)
(* The values the evaluator works with, for every program: they are bound  *)
(* and typed as they should be, funcall takes apart only what function,    *)
(* lambda and define have put together, and nothing is used that was left  *)
(* behind by a collection, but in the three cases ValueInvariant and       *)
(* EvalInvariant name.                                                     *)
(***************************************************************************)
EXTENDS EvalProofs, ValueInvariant

-----------------------------------------------------------------------------
(***************************************************************************)
(* Stacks whose length is known.                                           *)
(***************************************************************************)
LEMMA PoppedFrom ==
    ASSUME NEW s, IsStack(s), NEW n \in Nat, Len(s) = n + 1
    PROVE  /\ IsStack(Tail(s)) /\ Len(Tail(s)) = n /\ s # <<>>
           /\ n # 0 => Tail(s) # <<>>
           /\ \A i \in 1 .. n : Tail(s)[i] = s[i + 1]
  <1>1. s # <<>>
    <2>1. n + 1 > 0
      OBVIOUS
    <2>2. Len(s) > 0
      BY <2>1, Zenon
    <2> QED
      BY <2>2, StackFacts
  <1>2. /\ IsStack(Tail(s)) /\ Len(s) = Len(Tail(s)) + 1
        /\ \A i \in 1 .. Len(Tail(s)) : s[i + 1] = Tail(s)[i]
    BY <1>1, StackPopped
  <1>3. Len(Tail(s)) \in Nat
    BY <1>2, StackFacts
  <1>4. PICK m \in Nat : m = Len(Tail(s))
    BY <1>3
  <1>5. m = n
    <2>1. m + 1 = n + 1
      BY <1>2, <1>4, Zenon
    <2> QED
      BY <2>1
  <1>6. n # 0 => Tail(s) # <<>>
    <2>1. Len(<<>>) = 0
      OBVIOUS
    <2> QED
      BY <1>4, <1>5, <2>1, Zenon
  <1> QED
    BY <1>1, <1>2, <1>4, <1>5, <1>6

LEMMA PushedOn ==
    ASSUME NEW s, IsStack(s), NEW e
    PROVE  LET t == <<e>> \o s IN
           /\ IsStack(t) /\ t[1] = e
           /\ \A n, m : n \in Nat /\ Len(s) = n /\ m = n + 1 =>
                Len(t) = m /\ \A i \in 1 .. n : t[i + 1] = s[i]
  <1> DEFINE t == <<e>> \o s
  <1>1. /\ IsStack(t) /\ Len(t) = Len(s) + 1 /\ t[1] = e
        /\ \A i \in 1 .. Len(s) : t[i + 1] = s[i]
    BY StackPushed
  <1> HIDE DEF t
  <1>2. /\ IsStack(t) /\ t[1] = e
        /\ \A n, m : n \in Nat /\ Len(s) = n /\ m = n + 1 =>
                Len(t) = m /\ \A i \in 1 .. n : t[i + 1] = s[i]
    BY <1>1, Zenon
  <1> QED
    BY <1>2 DEF t

LEMMA PairIs ==
    ASSUME NEW S, NEW s \in Seq(S), Len(s) = 2
    PROVE  s = <<s[1], s[2]>>
  OBVIOUS

LEMMA FourBuilt ==
    ASSUME NEW a, NEW b, NEW s, IsStack(s)
    PROVE  Len(s) = 2 =>
           LET t == <<b>> \o s
               u == <<a>> \o t IN
           /\ IsStack(u) /\ Len(u) = 4
           /\ u[1] = a /\ u[2] = b /\ <<u[3], u[4]>> = s
  <1> DEFINE t == <<b>> \o s
             u == <<a>> \o t
  <1>1. 2 \in Nat /\ 3 \in Nat /\ 3 = 2 + 1 /\ 4 = 3 + 1
    OBVIOUS
  <1>2. /\ IsStack(t) /\ t[1] = b
        /\ \A n, m : n \in Nat /\ Len(s) = n /\ m = n + 1 =>
                Len(t) = m /\ \A i \in 1 .. n : t[i + 1] = s[i]
    BY PushedOn
  <1> HIDE DEF t
  <1> HAVE Len(s) = 2
  <1>3. /\ IsStack(t) /\ Len(t) = 3 /\ t[1] = b
        /\ \A i \in 1 .. 2 : t[i + 1] = s[i]
    BY <1>1, <1>2, Zenon
  <1>4. /\ IsStack(u) /\ u[1] = a
        /\ \A n, m : n \in Nat /\ Len(t) = n /\ m = n + 1 =>
                Len(u) = m /\ \A i \in 1 .. n : u[i + 1] = t[i]
    <2>1. IsStack(t)
      BY <1>3
    <2> QED
      BY <2>1, PushedOn
  <1> HIDE DEF u
  <1>5. /\ IsStack(u) /\ Len(u) = 4 /\ u[1] = a
        /\ \A i \in 1 .. 3 : u[i + 1] = t[i]
    BY <1>1, <1>3, <1>4, Zenon
  <1>6. u[2] = t[1] /\ u[3] = t[2] /\ u[4] = t[3] /\ t[2] = s[1] /\ t[3] = s[2]
    BY <1>3, <1>5
  <1>7. s = <<s[1], s[2]>>
    BY PairIs, Zenon DEF IsStack
  <1> QED
    BY <1>3, <1>5, <1>6, <1>7 DEF t, u

(***************************************************************************)
(* S-expressions: what is well formed, and what is made of what is.        *)
(***************************************************************************)
LEMMA FormedInMore ==
    ASSUME NEW S, NEW T, S \subseteq T, NEW x, Formed(x, S)
    PROVE  Formed(x, T)
  <1>1. Seq(S) \subseteq Seq(T)
    OBVIOUS
  <1>2. MadeOf(x, T)
    BY <1>1 DEF Formed, MadeOf
  <1> QED
    BY <1>2 DEF Formed

\* The well-formed things of a family of hereditary sets are a hereditary set.
LEMMA HereditaryUnion ==
    ASSUME NEW F, \A S \in F : Hereditary(S)
    PROVE  Hereditary(UNION F)
  <1> SUFFICES ASSUME NEW S \in F, NEW x \in S
               PROVE  Formed(x, UNION F)
    BY DEF Hereditary
  <1>1. Formed(x, S) /\ S \subseteq UNION F
    BY DEF Hereditary
  <1> QED
    BY <1>1, FormedInMore

LEMMA SExprMade ==
    ASSUME NEW S, Hereditary(S), NEW x, Formed(x, S)
    PROVE  IsSExpr(x)
  <1> DEFINE T == S \cup {x}
  <1>1. \A y \in T : Formed(y, S)
    BY DEF Hereditary
  <1>2. \A y \in T : Formed(y, T)
    BY <1>1, FormedInMore
  <1>3. x \in T
    OBVIOUS
  <1> HIDE DEF T
  <1> QED
    BY <1>2, <1>3 DEF IsSExpr, Hereditary

\* One hereditary set for all the elements of a sequence, and for one thing more.
LEMMA TogetherHereditary ==
    ASSUME NEW s, IsStack(s), \A i \in DOMAIN s : IsSExpr(s[i]), NEW x, IsSExpr(x)
    PROVE  \E S : Hereditary(S) /\ s \in Seq(S) /\ x \in S
  <1> DEFINE U(y) == CHOOSE S : y \in S /\ Hereditary(S)
             F == {U(s[i]) : i \in DOMAIN s} \cup {U(x)}
  <1>1. \A y : IsSExpr(y) => y \in U(y) /\ Hereditary(U(y))
    BY DEF IsSExpr
  <1> HIDE DEF U
  <1>2. \A S \in F : Hereditary(S)
    BY <1>1
  <1>3. x \in UNION F /\ \A i \in DOMAIN s : s[i] \in UNION F
    BY <1>1
  <1>4. Hereditary(UNION F)
    BY <1>2, HereditaryUnion
  <1>5. {s[i] : i \in DOMAIN s} \subseteq UNION F
    BY <1>3
  <1> HIDE DEF F
  <1>6. s \in Seq(UNION F)
    <2>1. s \in Seq({s[i] : i \in DOMAIN s})
      BY StackFacts
    <2>2. \A T, V : T \subseteq V => Seq(T) \subseteq Seq(V)
      OBVIOUS
    <2> QED
      BY <1>5, <2>1, <2>2
  <1> QED
    BY <1>3, <1>4, <1>6

\* What a program is made of.
LEMMA FormsAreValues ==
    ASSUME NEW x \in Forms
    PROVE  IsValue(x)
  <1>1. Hereditary(Forms)
    <2> SUFFICES ASSUME NEW y \in Forms
                 PROVE  Formed(y, Forms)
      BY DEF Hereditary
    <2>1. MadeOf(y, Forms) /\ FunctionMark \notin Forms
      BY FormsAssumption
    <2>2. \A s \in Seq(Forms) : \A i \in DOMAIN s : s[i] # FunctionMark
      BY <2>1
    <2> QED
      BY <2>1, <2>2
         DEF Formed, MadeOf, IsSymbol, IsString, IsNumber, IsCons, IsList, Vocabulary
  <1>2. x # FunctionMark
    BY FormsAssumption
  <1> QED
    BY <1>1, <1>2 DEF IsValue, IsSExpr

\* What is known of an S-expression.
LEMMA SExprShape ==
    ASSUME NEW x, IsSExpr(x)
    PROVE  /\ x[1] \in {"symbol", "string", "number", "list", "dotted"}
           /\ IsSymbol(x) => x \in Vocabulary
           /\ IsCons(x) => /\ IsStack(x[2])
                           /\ \A i \in DOMAIN x[2] : IsSExpr(x[2][i])
           /\ \A i \in DOMAIN x[2] : IsCons(x) /\ x[2][i] = FunctionMark
                                     => IsList(x) /\ StructureAt(x[2], i)
           /\ IsList(x) => x = List(x[2])
           /\ IsCons(x) /\ ~IsList(x) => x[2] # <<>> /\ IsValue(x[3]) /\ ~IsCons(x[3])
  <1> PICK S : x \in S /\ Hereditary(S)
    BY DEF IsSExpr
  <1>1. Formed(x, S)
    BY DEF Hereditary
  <1>2. \A y \in S : IsSExpr(y)
    BY DEF IsSExpr
  <1>3. x[1] \in {"symbol", "string", "number", "list", "dotted"}
    BY <1>1 DEF Formed, MadeOf, IsSymbol, IsString, IsNumber, IsList
  <1>4. IsSymbol(x) => x \in Vocabulary
    BY <1>1 DEF Formed
  <1>5. ASSUME IsCons(x)
        PROVE  /\ IsStack(x[2]) /\ \A i \in DOMAIN x[2] : IsSExpr(x[2][i])
               /\ IsList(x) => x = List(x[2])
               /\ ~IsList(x) => x[2] # <<>> /\ x[3] \in S /\ ~IsCons(x[3])
    <2>1. /\ x[2] \in Seq(S)
          /\ IsList(x) => x = List(x[2])
          /\ ~IsList(x) => x[2] # <<>> /\ x[3] \in S /\ ~IsCons(x[3])
      BY <1>1, <1>5 DEF Formed, MadeOf, IsSymbol, IsString, IsNumber, IsCons, IsList
    <2>2. IsStack(x[2])
      BY <2>1, IsStackFacts
    <2>3. \A i \in DOMAIN x[2] : x[2][i] \in S
      BY <2>1
    <2> QED
      BY <1>2, <2>1, <2>2, <2>3
  <1>6. IsCons(x) => \A i \in DOMAIN x[2] :
                       x[2][i] = FunctionMark => IsList(x) /\ StructureAt(x[2], i)
    BY <1>1 DEF Formed
  <1>7. IsCons(x) /\ ~IsList(x) => IsValue(x[3])
    BY <1>1, <1>2, <1>5 DEF Formed, IsValue, IsCons, IsList
  <1>8. IsList(x) => IsCons(x)
    BY DEF IsList, IsCons
  <1> QED
    BY <1>3, <1>4, <1>5, <1>6, <1>7, <1>8

LEMMA AtomsAreSExprs ==
    /\ IsValue(Nil) /\ IsValue(True)
    /\ IsValue(Sym("lambda")) /\ IsValue(Sym("begin")) /\ IsSExpr(FunctionMark)
    /\ \A x : IsNumber(x) \/ IsString(x) => IsValue(x)
    /\ ~IsSExpr(Stale)
  <1>1. \A x : IsSymbol(x) /\ x \in Vocabulary => IsSExpr(x)
    <2> TAKE x
    <2> HAVE IsSymbol(x) /\ x \in Vocabulary
    <2>1. Formed(x, {x})
      BY DEF Formed, MadeOf, IsSymbol, IsCons
    <2> QED
      BY <2>1 DEF IsSExpr, Hereditary
  <1>2. \A x : IsNumber(x) \/ IsString(x) => IsSExpr(x)
    <2> TAKE x
    <2> HAVE IsNumber(x) \/ IsString(x)
    <2>1. Formed(x, {x})
      BY DEF Formed, MadeOf, IsSymbol, IsNumber, IsString, IsCons
    <2> QED
      BY <2>1 DEF IsSExpr, Hereditary
  <1>3. IsSExpr(Nil)
    <2>1. Formed(Nil, {Nil})
      BY DEF Formed, MadeOf, IsSymbol, IsCons, IsList, Nil, List
    <2> QED
      BY <2>1 DEF IsSExpr, Hereditary
  <1>4. /\ IsSymbol(True) /\ IsSymbol(Sym("lambda")) /\ IsSymbol(Sym("begin"))
        /\ IsSymbol(FunctionMark)
        /\ True # FunctionMark /\ Sym("lambda") # FunctionMark
        /\ Sym("begin") # FunctionMark /\ Nil # FunctionMark
        /\ \A x : IsNumber(x) \/ IsString(x) => x # FunctionMark
    BY DEF IsSymbol, IsNumber, IsString, True, FunctionMark, Sym, Nil, List
  <1>5. ~IsSExpr(Stale)
    BY SExprShape DEF Stale
  <1> QED
    BY <1>1, <1>2, <1>3, <1>4, <1>5 DEF IsValue, Vocabulary

LEMMA ListBuilt ==
    ASSUME NEW s, IsStack(s), \A i \in DOMAIN s : IsSExpr(s[i]),
           \A i \in DOMAIN s : s[i] = FunctionMark => StructureAt(s, i)
    PROVE  IsValue(List(s))
  <1>1. IsSExpr(Nil)
    BY AtomsAreSExprs DEF IsValue
  <1>2. PICK S : Hereditary(S) /\ s \in Seq(S)
    BY <1>1, TogetherHereditary
  <1>3. List(s)[1] = "list" /\ List(s)[2] = s
    BY DEF List
  <1>4. Formed(List(s), S)
    BY <1>2, <1>3 DEF Formed, MadeOf, IsSymbol, IsCons, IsList
  <1>5. List(s) # FunctionMark
    BY DEF List, FunctionMark, Sym
  <1> QED
    BY <1>2, <1>4, <1>5, SExprMade DEF IsValue

LEMMA DottedBuilt ==
    ASSUME NEW s, AllValues(s), s # <<>>, NEW last, IsValue(last), ~IsCons(last)
    PROVE  IsValue(Dotted(s, last))
  <1>1. PICK S : Hereditary(S) /\ s \in Seq(S) /\ last \in S
    BY TogetherHereditary DEF AllValues, IsValue
  <1>2. Dotted(s, last)[1] = "dotted" /\ Dotted(s, last)[2] = s /\ Dotted(s, last)[3] = last
    BY DEF Dotted
  <1>3. \A i \in DOMAIN s : s[i] # FunctionMark
    BY DEF AllValues, IsValue
  <1> DEFINE x == Dotted(s, last)
  <1> HIDE DEF x
  <1>4. MadeOf(x, S) /\ ~IsSymbol(x)
    BY <1>1, <1>2 DEF MadeOf, IsSymbol, x
  <1>5. Formed(x, S)
    BY <1>2, <1>3, <1>4 DEF Formed, IsValue, x
  <1>6. x # FunctionMark
    BY <1>2 DEF FunctionMark, Sym, x
  <1> QED
    BY <1>1, <1>5, <1>6, SExprMade DEF IsValue, x

\* The end of a list, and a list with a value in front.
LEMMA StructureShifts ==
    ASSUME NEW s, IsStack(s), NEW t, IsStack(t), Len(t) = Len(s) + 1,
           \A i \in 1 .. Len(s) : t[i + 1] = s[i], NEW i \in 1 .. Len(s)
    PROVE  StructureAt(t, i + 1) <=> StructureAt(s, i)
  <1>1. Len(s) \in Nat /\ Len(t) = i + 1 + 3 <=> Len(s) = i + 3
    BY StackFacts
  <1>2. CASE Len(s) = i + 3
    <2>1. i + 1 \in 1 .. Len(s) /\ i + 2 \in 1 .. Len(s) /\ i + 3 \in 1 .. Len(s)
      BY <1>2
    <2>2. /\ t[i + 1 + 1] = s[i + 1] /\ t[i + 1 + 2] = s[i + 2]
          /\ t[i + 1 + 3] = s[i + 3]
      BY <2>1
    <2>3. Len(t) = i + 1 + 3
      BY <1>2
    <2> QED
      BY <1>2, <2>2, <2>3 DEF StructureAt
  <1>3. CASE Len(s) # i + 3
    BY <1>1, <1>3 DEF StructureAt
  <1> QED
    BY <1>2, <1>3

LEMMA ListExtended ==
    ASSUME NEW s, IsStack(s), \A i \in DOMAIN s : IsSExpr(s[i]),
           \A i \in DOMAIN s : s[i] = FunctionMark => StructureAt(s, i),
           NEW a, IsSExpr(a), a = FunctionMark => StructureAt(<<a>> \o s, 1)
    PROVE  IsValue(List(<<a>> \o s))
  <1> DEFINE t == <<a>> \o s
  <1>1. /\ IsStack(t) /\ Len(t) = Len(s) + 1 /\ t[1] = a
        /\ \A i \in 1 .. Len(s) : t[i + 1] = s[i]
        /\ a = FunctionMark => StructureAt(t, 1)
    BY StackPushed
  <1>2. Len(s) \in Nat /\ DOMAIN s = 1 .. Len(s)
    BY StackFacts
  <1> HIDE DEF t
  <1>3. DOMAIN t = 1 .. Len(s) + 1
    BY <1>1, StackFacts
  <1>4. ASSUME NEW i \in DOMAIN t
        PROVE  IsSExpr(t[i]) /\ (t[i] = FunctionMark => StructureAt(t, i))
    <2>1. CASE i = 1
      BY <1>1, <2>1
    <2>2. CASE i # 1
      <3>1. i - 1 \in 1 .. Len(s) /\ i - 1 + 1 = i
        BY <1>2, <1>3, <2>2
      <3>2. t[i] = s[i - 1] /\ (StructureAt(t, i) <=> StructureAt(s, i - 1))
        BY <1>1, <3>1, StructureShifts
      <3> QED
        BY <1>2, <3>1, <3>2
    <2> QED
      BY <2>1, <2>2
  <1>5. IsValue(List(t))
    BY <1>1, <1>4, ListBuilt
  <1> QED
    BY <1>5 DEF t

LEMMA ConsIsValue ==
    ASSUME NEW a, IsValue(a), NEW d, IsValue(d)
    PROVE  IsValue(Cons(a, d))
  <1>1. /\ IsCons(d) => IsStack(d[2]) /\ \A i \in DOMAIN d[2] : IsSExpr(d[2][i])
        /\ \A i \in DOMAIN d[2] : IsCons(d) /\ d[2][i] = FunctionMark
                                  => IsList(d) /\ StructureAt(d[2], i)
        /\ IsCons(d) /\ ~IsList(d) => IsValue(d[3]) /\ ~IsCons(d[3])
    BY SExprShape DEF IsValue
  <1>2. IsSExpr(a) /\ a # FunctionMark
    BY DEF IsValue
  <1>3. CASE IsList(d)
    <2>1. Cons(a, d) = List(<<a>> \o d[2])
      BY <1>3 DEF Cons, IsList
    <2>2. IsCons(d)
      BY <1>3 DEF IsCons, IsList
    <2> QED
      BY <1>1, <1>2, <1>3, <2>1, <2>2, ListExtended
  <1>4. CASE IsCons(d) /\ ~IsList(d)
    <2>1. Cons(a, d) = Dotted(<<a>> \o d[2], d[3])
      BY <1>4 DEF Cons, IsCons, IsList
    <2>2. \A i \in DOMAIN d[2] : IsValue(d[2][i])
      BY <1>1, <1>4 DEF IsValue
    <2> DEFINE t == <<a>> \o d[2]
    <2>3. /\ IsStack(t) /\ Len(t) = Len(d[2]) + 1 /\ t[1] = a
          /\ \A i \in 1 .. Len(d[2]) : t[i + 1] = d[2][i]
      BY <1>1, <1>4, StackPushed
    <2>4. Len(d[2]) \in Nat /\ DOMAIN d[2] = 1 .. Len(d[2])
      BY <1>1, <1>4, StackFacts
    <2> HIDE DEF t
    <2>5. DOMAIN t = 1 .. Len(d[2]) + 1 /\ t # <<>>
      BY <2>3, <2>4, StackFacts
    <2>6. \A i \in DOMAIN t : IsValue(t[i])
      <3> TAKE i \in DOMAIN t
      <3>1. i = 1 \/ (i - 1 \in 1 .. Len(d[2]) /\ i - 1 + 1 = i)
        BY <2>4, <2>5
      <3> QED
        BY <2>2, <2>3, <2>4, <3>1
    <2>7. IsValue(Dotted(t, d[3]))
      BY <1>1, <1>4, <2>3, <2>5, <2>6, DottedBuilt DEF AllValues
    <2> QED
      BY <2>1, <2>7 DEF t
  <1>5. CASE ~IsCons(d)
    <2>1. Cons(a, d) = Dotted(<<a>>, d)
      BY <1>5 DEF Cons, IsCons
    <2>2. AllValues(<<a>>) /\ <<a>> # <<>>
      <3>1. <<a>> \in Seq({a}) /\ DOMAIN <<a>> = {1} /\ <<a>>[1] = a
        OBVIOUS
      <3>2. IsStack(<<a>>)
        BY <3>1, IsStackFacts
      <3> QED
        BY <3>1, <3>2 DEF AllValues
    <2> QED
      BY <1>5, <2>1, <2>2, DottedBuilt
  <1> QED
    BY <1>3, <1>4, <1>5

\* What comes after the first element of a list: no structure loses its end.
LEMMA TailOfList ==
    ASSUME NEW s, IsSExpr(List(s)), s # <<>>
    PROVE  IsValue(List(Tail(s)))
  <1> DEFINE t == Tail(s)
  <1>1. List(s)[1] = "list" /\ List(s)[2] = s
    BY DEF List
  <1>2. IsStack(s) /\ \A i \in DOMAIN s : IsSExpr(s[i])
                                          /\ (s[i] = FunctionMark => StructureAt(s, i))
    BY <1>1, SExprShape DEF IsCons
  <1>3. IsStack(t) /\ Len(s) = Len(t) + 1 /\ \A i \in 1 .. Len(t) : s[i + 1] = t[i]
    BY <1>2, StackPopped
  <1>4. DOMAIN s = 1 .. Len(s) /\ Len(s) \in Nat
    BY <1>2, StackFacts
  <1> HIDE DEF t
  <1>5. Len(t) \in Nat /\ DOMAIN t = 1 .. Len(t)
    BY <1>3, StackFacts
  <1>6. ASSUME NEW i \in DOMAIN t
        PROVE  IsSExpr(t[i]) /\ (t[i] = FunctionMark => StructureAt(t, i))
    <2>1. i + 1 \in DOMAIN s /\ s[i + 1] = t[i]
      BY <1>3, <1>4, <1>5
    <2>2. StructureAt(s, i + 1) <=> StructureAt(t, i)
      BY <1>2, <1>3, <1>5, StructureShifts
    <2> QED
      BY <1>2, <2>1, <2>2
  <1>7. IsValue(List(t))
    BY <1>3, <1>6, ListBuilt
  <1> QED
    BY <1>7 DEF t

\* The parts of a pair: the first may be 'function, where a structure begins.
LEMMA PartsAreSExprs ==
    ASSUME NEW x, IsSExpr(x), IsPair(x)
    PROVE  /\ IsSExpr(Car(x)) /\ IsValue(Cdr(x))
           /\ ~IsFunctionStruct(x) => IsValue(Car(x))
           /\ IsList(x) => Cdr(x) = List(Tail(x[2])) /\ x[2] # <<>>
  <1>1. /\ IsStack(x[2]) /\ \A i \in DOMAIN x[2] : IsSExpr(x[2][i])
        /\ \A i \in DOMAIN x[2] : x[2][i] = FunctionMark => IsList(x)
        /\ IsList(x) => x = List(x[2])
        /\ ~IsList(x) => x[2] # <<>> /\ IsValue(x[3]) /\ ~IsCons(x[3])
    BY SExprShape DEF IsPair
  <1>2. x[2] # <<>>
    BY <1>1 DEF IsPair, Nil
  <1>3. 1 \in DOMAIN x[2] /\ Len(x[2]) \in Nat /\ DOMAIN x[2] = 1 .. Len(x[2])
    BY <1>1, <1>2, StackFacts
  <1>4. IsSExpr(Car(x))
    BY <1>1, <1>3 DEF Car
  <1>5. CASE IsList(x)
    <2>1. Cdr(x) = List(Tail(x[2]))
      BY <1>5 DEF Cdr
    <2> QED
      BY <1>1, <1>2, <1>4, <1>5, <2>1, TailOfList DEF IsFunctionStruct, IsValue
  <1>6. CASE ~IsList(x) /\ Len(x[2]) = 1
    <2>1. Cdr(x) = x[3]
      BY <1>6, Zenon DEF Cdr
    <2> QED
      BY <1>1, <1>4, <1>6, <2>1 DEF IsFunctionStruct, IsValue
  <1>7. CASE ~IsList(x) /\ Len(x[2]) # 1
    <2>1. Cdr(x) = Dotted(Tail(x[2]), x[3])
      BY <1>7, Zenon DEF Cdr
    <2> DEFINE t == Tail(x[2])
    <2>2. /\ IsStack(t) /\ Len(x[2]) = Len(t) + 1
          /\ \A i \in 1 .. Len(t) : x[2][i + 1] = t[i]
      BY <1>1, <1>2, StackPopped
    <2> HIDE DEF t
    <2>3. Len(t) \in Nat /\ DOMAIN t = 1 .. Len(t)
      BY <2>2, StackFacts
    <2>4. t # <<>>
      <3>1. Len(t) > 0
        BY <1>3, <1>7, <2>2, <2>3
      <3> QED
        BY <2>2, <3>1, StackFacts
    <2>5. \A i \in DOMAIN t : IsValue(t[i])
      <3> TAKE i \in DOMAIN t
      <3>1. i + 1 \in DOMAIN x[2] /\ x[2][i + 1] = t[i]
        BY <1>3, <2>2, <2>3
      <3> QED
        BY <1>1, <1>7, <3>1 DEF IsValue
    <2>6. IsValue(Dotted(t, x[3]))
      BY <1>1, <1>7, <2>2, <2>4, <2>5, DottedBuilt DEF AllValues
    <2> QED
      BY <1>4, <1>7, <2>1, <2>6 DEF IsFunctionStruct, IsValue, t
  <1> QED
    BY <1>5, <1>6, <1>7

\* A definition that is accepted.
LEMMA DefinitionShape ==
    ASSUME NEW def, FunctionDefError(def) = NoError
    PROVE  /\ IsList(def) /\ Len(def[2]) = 2 /\ IsList(Car(def))
           /\ \A i \in DOMAIN Car(def)[2] : IsSymbol(Car(def)[2][i])
           /\ ParametersError(def) = NoError
  <1>1. IsList(def) /\ Len(def[2]) = 2
    BY DEF FunctionDefError, NoError
  <1>2. /\ IsCons(Car(def)) /\ IsList(Car(def))
        /\ \A i \in DOMAIN Car(def)[2] : IsSymbol(Car(def)[2][i])
    BY Zenon DEF FunctionDefError, NoError
  <1> QED
    BY <1>1, <1>2 DEF ParametersError

\* The parameters and the body of a definition.
LEMMA DefinitionParts ==
    ASSUME NEW def, IsSExpr(def), FunctionDefError(def) = NoError
    PROVE  /\ IsSExpr(Car(def)) /\ IsStack(Car(def)[2])
           /\ IsSExpr(Cadr(def))
           /\ IsStack(def[2]) /\ def = List(def[2])
           /\ Car(def) = def[2][1]
  <1>1. IsList(def) /\ Len(def[2]) = 2 /\ IsList(Car(def))
    BY DefinitionShape
  <1>2. IsCons(def) /\ IsCons(Car(def))
    BY <1>1 DEF IsList, IsCons
  <1>3. IsStack(def[2]) /\ def = List(def[2]) /\ \A i \in DOMAIN def[2] : IsSExpr(def[2][i])
    BY <1>1, <1>2, SExprShape
  <1>4. DOMAIN def[2] = 1 .. 2 /\ def[2] # <<>>
    BY <1>1, <1>3, StackFacts
  <1>5. IsSExpr(Car(def))
    BY <1>3, <1>4 DEF Car
  <1>6. IsStack(Car(def)[2])
    BY <1>2, <1>5, SExprShape
  <1>7. Cadr(def) = Tail(def[2])[1]
    BY <1>1 DEF Cadr, Cdr, Car, List
  <1>8. Tail(def[2])[1] = def[2][2]
    <2>1. /\ Len(Tail(def[2])) = 1
          /\ \A i \in 1 .. Len(Tail(def[2])) : def[2][i + 1] = Tail(def[2])[i]
      BY <1>1, <1>3, <1>4, StackPopped, StackFacts
    <2> QED
      BY <2>1
  <1> QED
    BY <1>3, <1>4, <1>5, <1>6, <1>7, <1>8 DEF Car

\* What begins with 'function can be taken apart.
LEMMA StructureShape ==
    ASSUME NEW f, IsSExpr(f), IsFunctionStruct(f)
    PROVE  /\ IsList(f) /\ Len(f[2]) = 4
           /\ FunctionDefError(Cddr(f)) = NoError
           /\ IsSExpr(Cadr(f)) /\ IsSExpr(Cddr(f))
  <1>1. IsPair(f) /\ f[2][1] = FunctionMark
    BY DEF IsFunctionStruct, Car
  <1>2. /\ IsStack(f[2]) /\ \A i \in DOMAIN f[2] : IsSExpr(f[2][i])
        /\ \A i \in DOMAIN f[2] : f[2][i] = FunctionMark
                                  => IsList(f) /\ StructureAt(f[2], i)
        /\ IsList(f) => f = List(f[2])
        /\ ~IsList(f) => f[2] # <<>>
    BY <1>1, SExprShape DEF IsPair
  <1>3. f[2] # <<>>
    BY <1>1, <1>2 DEF IsPair, Nil
  <1>4. IsList(f) /\ StructureAt(f[2], 1)
    BY <1>1, <1>2, <1>3, StackFacts
  <1> DEFINE s == f[2]
             t == Tail(s)
             u == Tail(t)
  <1>5. /\ IsStack(s) /\ s # <<>> /\ Len(s) = 4
        /\ FunctionDefError(List(<<s[3], s[4]>>)) = NoError
    BY <1>2, <1>3, <1>4 DEF StructureAt
  <1>6. Cdr(f) = List(t) /\ Cadr(f) = t[1] /\ Cddr(f) = List(u)
    BY <1>4 DEF Cadr, Cddr, Cdr, Car, IsList, List
  <1>7. IsSExpr(Cdr(f))
    BY <1>1, PartsAreSExprs DEF IsValue
  <1> HIDE DEF s
  <1>8. IsStack(t) /\ Len(t) = 3 /\ t # <<>> /\ \A i \in 1 .. 3 : t[i] = s[i + 1]
    <2>1. 3 \in Nat /\ 4 = 3 + 1 /\ 3 # 0
      OBVIOUS
    <2> QED
      BY <1>5, <2>1, PoppedFrom
  <1> HIDE DEF t
  <1>9. IsStack(u) /\ Len(u) = 2 /\ \A i \in 1 .. 2 : u[i] = t[i + 1]
    <2>1. 2 \in Nat /\ 3 = 2 + 1
      OBVIOUS
    <2> QED
      BY <1>8, <2>1, PoppedFrom
  <1> HIDE DEF u
  <1>10. u[1] = s[3] /\ u[2] = s[4] /\ t[1] = s[2]
    <2>1. u[1] = t[2] /\ u[2] = t[3]
      BY <1>9
    <2>2. t[1] = s[2] /\ t[2] = s[3] /\ t[3] = s[4]
      BY <1>8
    <2> QED
      BY <2>1, <2>2
  <1>11. u = <<u[1], u[2]>>
    BY <1>9, PairIs, Zenon DEF IsStack
  <1>12. u = <<s[3], s[4]>>
    BY <1>10, <1>11, Zenon
  <1>13. IsSExpr(Cadr(f))
    <2>1. IsSExpr(s[2])
      <3>1. 2 \in DOMAIN s
        BY <1>5, StackFacts
      <3> QED
        BY <1>2, <3>1 DEF s
    <2> QED
      BY <1>6, <1>10, <2>1
  <1>14. IsSExpr(Cddr(f))
    <2>1. IsSExpr(List(t))
      BY <1>6, <1>7
    <2>2. IsValue(List(Tail(t)))
      BY <1>8, <2>1, TailOfList
    <2> QED
      BY <1>6, <2>2 DEF IsValue, u
  <1> QED
    BY <1>4, <1>5, <1>6, <1>12, <1>13, <1>14 DEF s

\* The structures that are made.
LEMMA StructureBuilt ==
    ASSUME NEW id, IsValue(id), ~IsParameters(id),
           NEW def, IsSExpr(def), FunctionDefError(def) = NoError
    PROVE  IsValue(FunctionStruct(id, def)) /\ IsFunctionStruct(FunctionStruct(id, def))
  <1> DEFINE s == def[2]
             t == <<id>> \o s
             u == <<FunctionMark>> \o t
  <1>1. IsList(def) /\ Len(s) = 2 /\ IsList(Car(def))
    BY DefinitionShape
  <1>2. IsStack(s) /\ def = List(s) /\ Car(def) = s[1]
    BY DefinitionParts
  <1>3. \A i \in DOMAIN s : /\ IsSExpr(s[i])
                            /\ s[i] = FunctionMark => StructureAt(s, i)
    BY <1>1, SExprShape DEF IsList, IsCons
  <1>4. FunctionStruct(id, def) = List(u)
    BY <1>1 DEF FunctionStruct, Cons, IsList, List
  <1> HIDE DEF s
  <1>5. /\ IsStack(t) /\ IsStack(u) /\ Len(u) = 4
        /\ u[1] = FunctionMark /\ u[2] = id /\ <<u[3], u[4]>> = s
    <2>1. IsStack(t)
      BY <1>2, PushedOn
    <2>2. IsStack(s)
      BY <1>2
    <2>3. Len(s) = 2 => /\ IsStack(u) /\ Len(u) = 4
                        /\ u[1] = FunctionMark /\ u[2] = id /\ <<u[3], u[4]>> = s
      BY <2>2, FourBuilt
    <2> QED
      BY <1>1, <2>1, <2>3, Zenon
  <1>6. IsValue(List(t))
    BY <1>2, <1>3, ListExtended DEF IsValue
  <1> HIDE DEF t
  <1>7. \A i \in DOMAIN t : IsSExpr(t[i]) /\ (t[i] = FunctionMark => StructureAt(t, i))
    <2>1. List(t)[1] = "list" /\ List(t)[2] = t
      BY DEF List
    <2> QED
      BY <1>6, <2>1, SExprShape DEF IsValue, IsCons
  <1> HIDE DEF u
  <1>8. StructureAt(u, 1)
    BY <1>2, <1>5 DEF StructureAt
  <1>9. IsSExpr(FunctionMark)
    BY AtomsAreSExprs
  <1>10. IsValue(List(u))
    BY <1>5, <1>7, <1>8, <1>9, ListExtended DEF u
  <1>11. IsFunctionStruct(List(u))
    <2>1. u # <<>>
      BY <1>5, StackFacts
    <2> QED
      BY <1>5, <2>1 DEF IsFunctionStruct, IsPair, IsCons, Nil, List, Car
  <1> QED
    BY <1>4, <1>10, <1>11

(***************************************************************************)
(* The values of the built-ins that only compute.                          *)
(***************************************************************************)
LEMMA ArgCounts ==
    /\ \A b \in OneArgument : ArgCount(b) = 1 /\ b \notin Variadic
    /\ \A b \in TwoArguments : ArgCount(b) = 2 /\ b \notin Variadic
    /\ ArgCount("if") = 3 /\ "if" \notin Variadic
  <1>1. \A b \in OneArgument : b \notin TwoArguments /\ b # "if" /\ b \notin Variadic
    BY DEF OneArgument, TwoArguments, Variadic, Predicates, Arithmetic, Comparisons,
           Equalities
  <1>2. \A b \in TwoArguments : b \notin OneArgument /\ b # "if" /\ b \notin Variadic
    BY DEF OneArgument, TwoArguments, Variadic, Predicates, Arithmetic, Comparisons,
           Equalities
  <1>3. "if" \notin OneArgument /\ "if" \notin TwoArguments /\ "if" \notin Variadic
    BY DEF OneArgument, TwoArguments, Variadic, Predicates, Arithmetic, Comparisons,
           Equalities
  <1> QED
    BY <1>1, <1>2, <1>3, Zenon DEF ArgCount

LEMMA ResultsAreValues ==
    /\ \A p : IsValue(Truth(p))
    /\ \A m, n : \A b \in Arithmetic \cup Comparisons : IsValue(Calculated(b, m, n))
    /\ \A x, y : Compared(x, y).ok => IsValue(Compared(x, y).value)
  <1>1. \A p : IsValue(Truth(p))
    BY AtomsAreSExprs DEF Truth
  <1>2. \A n : IsValue(Num(n))
    BY AtomsAreSExprs DEF Num, IsNumber
  <1>3. ASSUME NEW m, NEW n, NEW b \in Arithmetic \cup Comparisons
        PROVE  IsValue(Calculated(b, m, n))
    <2>1. \/ b \in {"add", "+"} \/ b \in {"sub", "-"} \/ b \in {"mul", "*"}
          \/ b \in {"lt", "<"} \/ b \in {"gt", ">"} \/ b \in {"lte", "<="}
          \/ b \in {"gte", ">="}
      BY DEF Arithmetic, Comparisons
    <2>2. Calculated(b, m, n) \in {Num(m + n), Num(m - n), Num(m * n), Truth(m < n),
                                   Truth(m > n), Truth(m <= n), Truth(m >= n)}
      BY <2>1, Zenon DEF Calculated
    <2> QED
      BY <1>1, <1>2, <2>2, Zenon
  <1>4. ASSUME NEW x, NEW y, Compared(x, y).ok
        PROVE  IsValue(Compared(x, y).value)
    <2>1. Compared(x, y) \in {Ok(Truth(x = y)), Ok(Truth(NumbersEqual(x[2], y[2]))),
                              Err("illegal_func_call"), Err("invalid_type")}
      BY Zenon DEF Compared
    <2>2. (\A e : ~Err(e).ok) /\ (\A v : Ok(v).value = v)
      BY DEF Ok, Err
    <2> DEFINE c == Compared(x, y)
    <2> HIDE DEF c
    <2>3. c.ok /\ c \in {Ok(Truth(x = y)), Ok(Truth(NumbersEqual(x[2], y[2]))),
                         Err("illegal_func_call"), Err("invalid_type")}
      BY <1>4, <2>1 DEF c
    <2>4. IsValue(c.value)
      BY <1>1, <2>2, <2>3
    <2> QED
      BY <2>4 DEF c
  <1> QED
    BY <1>1, <1>3, <1>4

LEMMA PartsAreValues ==
    ASSUME NEW b, NEW x, IsValue(x), PartOf(b, x).ok
    PROVE  IsValue(PartOf(b, x).value)
  <1>1. (\A e : ~Err(e).ok) /\ (\A v : Ok(v).value = v)
    BY DEF Ok, Err
  <1>2. IsCons(x) /\ ~IsFunctionStruct(x)
    BY <1>1, Zenon DEF PartOf
  <1>3. CASE x = Nil
    <2>1. PartOf(b, x) = Ok(Nil)
      BY <1>2, <1>3, Zenon DEF PartOf
    <2> QED
      BY <1>1, <2>1, AtomsAreSExprs
  <1>4. CASE x # Nil
    <2>1. PartOf(b, x) = Ok(IF b = "car" THEN Car(x) ELSE Cdr(x))
      BY <1>2, <1>4, Zenon DEF PartOf
    <2>2. IsValue(Car(x)) /\ IsValue(Cdr(x))
      BY <1>2, <1>4, PartsAreSExprs DEF IsPair, IsValue
    <2> QED
      BY <1>1, <2>1, <2>2, Zenon
  <1> QED
    BY <1>3, <1>4

LEMMA AppliedValue ==
    ASSUME NEW b \in Simple, NEW xs, AllValues(xs), Len(xs) = ArgCount(b), NEW e,
           Applied(b, xs, e).ok
    PROVE  IsValue(Applied(b, xs, e).value)
  <1> DEFINE number == IF ~IsNumber(xs[1]) \/ ~IsNumber(xs[2]) THEN Err("invalid_type")
                       ELSE IF e # NoError THEN Err(e)
                       ELSE Ok(Calculated(b, xs[1][2], xs[2][2]))
             equal == Compared(xs[1], xs[2])
             unequal == IF equal.ok THEN Ok(Truth(equal.value = Nil)) ELSE equal
             Good(r) == r.ok => IsValue(r.value)
  <1>1. (\A err : Good(Err(err))) /\ (\A v : IsValue(v) => Good(Ok(v)))
    BY DEF Ok, Err
  <1>2. Good(equal)
    BY ResultsAreValues
  <1>3. DOMAIN xs = 1 .. ArgCount(b) /\ \A i \in DOMAIN xs : IsValue(xs[i])
    BY StackFacts DEF AllValues
  <1>4. CASE b \in Predicates
    <2>1. b \notin Arithmetic \cup Comparisons /\ ~(b \in {"eq", "=="})
          /\ ~(b \in {"neq", "!="}) /\ ~(b \in {"car", "cdr"}) /\ b # "cons"
          /\ ~(b \in {"print", "quote"})
      BY <1>4 DEF Predicates, Arithmetic, Comparisons
    <2>2. Applied(b, xs, e) = Ok(Truth(Holds(b, xs[1])))
      BY <1>4, <2>1, Zenon DEF Applied
    <2> QED
      BY <1>1, <2>2, ResultsAreValues
  <1>5. CASE b \in (Arithmetic \cup Comparisons)
    <2>1. b \notin Predicates /\ ~(b \in {"eq", "=="})
          /\ ~(b \in {"neq", "!="}) /\ ~(b \in {"car", "cdr"}) /\ b # "cons"
          /\ ~(b \in {"print", "quote"})
      BY <1>5 DEF Predicates, Arithmetic, Comparisons
    <2>2. Applied(b, xs, e) = number
      BY <1>5, <2>1, Zenon DEF Applied
    <2>3. IsValue(Calculated(b, xs[1][2], xs[2][2]))
      BY <1>5, ResultsAreValues
    <2>4. Good(number)
      BY <1>1, <2>3, Zenon
    <2> QED
      BY <2>2, <2>4
  <1>6. CASE b \in Equalities
    <2>1. b \notin Predicates \cup Arithmetic \cup Comparisons
      BY <1>6 DEF Predicates, Arithmetic, Comparisons, Equalities
    <2>2. b \in {"eq", "=="} \/ b \in {"neq", "!="}
      BY <1>6 DEF Equalities
    <2>3. Applied(b, xs, e) \in {equal, unequal}
      BY <2>1, <2>2, Zenon DEF Applied
    <2>4. Good(unequal)
      BY <1>1, <1>2, ResultsAreValues, Zenon
    <2> QED
      BY <1>2, <2>3, <2>4, Zenon
  <1>7. CASE b \in {"car", "cdr", "print", "quote"}
    <2>1. /\ b \notin Predicates \cup Arithmetic \cup Comparisons \cup Equalities
          /\ b # "cons"
      BY <1>7 DEF Predicates, Arithmetic, Comparisons, Equalities
    <2>2. IsValue(xs[1])
      <3>1. b \in OneArgument
        BY <1>7 DEF OneArgument
      <3> QED
        BY <1>3, <3>1, ArgCounts
    <2>3. Applied(b, xs, e) \in {PartOf(b, xs[1]), Ok(xs[1])}
      BY <1>7, <2>1, Zenon DEF Applied, Equalities
    <2> QED
      BY <1>1, <2>2, <2>3, PartsAreValues
  <1>8. CASE b = "cons"
    <2>1. b \notin Predicates \cup Arithmetic \cup Comparisons \cup Equalities
      BY <1>8 DEF Predicates, Arithmetic, Comparisons, Equalities
    <2>2. Applied(b, xs, e) = Ok(Cons(xs[1], xs[2]))
      BY <1>8, <2>1, Zenon DEF Applied, Equalities
    <2>3. IsValue(xs[1]) /\ IsValue(xs[2])
      <3>1. b \in TwoArguments
        BY <1>8 DEF TwoArguments
      <3> QED
        BY <1>3, <3>1, ArgCounts
    <2> QED
      BY <1>1, <2>2, <2>3, ConsIsValue
  <1> QED
    BY <1>4, <1>5, <1>6, <1>7, <1>8 DEF Simple

(***************************************************************************)
(* Environments.                                                           *)
(***************************************************************************)
\* What is on s after e[1], ..., e[n] were pushed, one after the other.
Piled(e, s, n) == [i \in 1 .. n + Len(s) |-> IF i <= n THEN e[n + 1 - i] ELSE s[i - n]]

IsPile(p, e, s, n) ==
    /\ IsStack(p)
    /\ \A i \in 1 .. n : p[i] = e[n + 1 - i]
    /\ \A l : l = Len(s) => Len(p) = n + l /\ \A i \in 1 .. l : p[n + i] = s[i]

LEMMA PiledFacts ==
    ASSUME NEW e, NEW s, IsStack(s), NEW n \in Nat
    PROVE  IsPile(Piled(e, s, n), e, s, n)
  <1> DEFINE p == Piled(e, s, n)
             T == {p[i] : i \in DOMAIN p}
  <1>1. PICK l \in Nat : l = Len(s)
    BY StackFacts
  <1>2. p = [i \in 1 .. n + l |-> IF i <= n THEN e[n + 1 - i] ELSE s[i - n]]
    BY <1>1 DEF Piled
  <1>3. /\ DOMAIN p = 1 .. n + l
        /\ \A i \in 1 .. n + l : p[i] = IF i <= n THEN e[n + 1 - i] ELSE s[i - n]
    BY <1>2, Zenon
  <1>4. p = [i \in 1 .. n + l |-> p[i]]
    BY <1>2, <1>3, Zenon
  <1> HIDE DEF p
  <1>5. p \in [1 .. n + l -> T] /\ n + l \in Nat
    BY <1>1, <1>3, <1>4
  <1> HIDE DEF T
  <1>6. p \in Seq(T) /\ Len(p) = n + l
    BY <1>5, FunctionIsSeq
  <1>7. IsStack(p)
    BY <1>6, IsStackFacts
  <1>8. \A i \in 1 .. n : p[i] = e[n + 1 - i]
    BY <1>1, <1>3
  <1>9. \A i \in 1 .. l : p[n + i] = s[i]
    <2> TAKE i \in 1 .. l
    <2>1. n + i \in 1 .. n + l /\ ~(n + i <= n) /\ n + i - n = i
      BY <1>1
    <2> QED
      BY <1>3, <2>1
  <1>10. \A m : m = Len(s) => m = l
    BY <1>1, Zenon
  <1> QED
    BY <1>6, <1>7, <1>8, <1>9, <1>10, Zenon DEF p, IsPile

\* Two stacks are the same if they have the same length and the same elements.
LEMMA StacksEqual ==
    ASSUME NEW s, IsStack(s), NEW t, IsStack(t), Len(s) = Len(t),
           \A i \in 1 .. Len(s) : s[i] = t[i]
    PROVE  s = t
  <1>1. \A u : IsStack(u) => u = [i \in 1 .. Len(u) |-> u[i]]
    <2>1. \A S : \A u \in Seq(S) : u = [i \in 1 .. Len(u) |-> u[i]]
      OBVIOUS
    <2> QED
      BY <2>1, Zenon DEF IsStack
  <1> QED
    BY <1>1, Zenon

LEMMA PiledNone ==
    ASSUME NEW e, NEW s, IsStack(s)
    PROVE  Piled(e, s, 0) = s
  <1> DEFINE p == Piled(e, s, 0)
  <1>1. /\ IsStack(p)
        /\ \A l : l = Len(s) => /\ Len(p) = 0 + l
                                /\ \A i \in 1 .. l : p[0 + i] = s[i]
    <2>1. IsPile(p, e, s, 0)
      BY PiledFacts
    <2> QED
      BY <2>1, Zenon DEF IsPile
  <1> HIDE DEF p
  <1>2. PICK l \in Nat : l = Len(s)
    BY StackFacts
  <1>3. 0 + l = l /\ \A i \in 1 .. l : 0 + i = i
    OBVIOUS
  <1>4. Len(p) = l /\ \A i \in 1 .. l : p[i] = s[i]
    BY <1>1, <1>2, <1>3, Zenon
  <1> QED
    BY <1>1, <1>2, <1>4, StacksEqual, Zenon DEF p

LEMMA PiledOne ==
    ASSUME NEW e, NEW s, IsStack(s), NEW n \in Nat
    PROVE  <<e[n + 1]>> \o Piled(e, s, n) = Piled(e, s, n + 1)
  <1> DEFINE p == Piled(e, s, n)
             q == Piled(e, s, n + 1)
             x == e[n + 1]
             u == <<x>> \o p
  <1>1. /\ IsStack(p)
        /\ \A i \in 1 .. n : p[i] = e[n + 1 - i]
        /\ \A l : l = Len(s) => /\ Len(p) = n + l
                                /\ \A i \in 1 .. l : p[n + i] = s[i]
    <2>1. IsPile(p, e, s, n)
      BY PiledFacts
    <2> QED
      BY <2>1, Zenon DEF IsPile
  <1>2. n + 1 \in Nat
    OBVIOUS
  <1>3. /\ IsStack(q)
        /\ \A i \in 1 .. n + 1 : q[i] = e[n + 1 + 1 - i]
        /\ \A l : l = Len(s) => /\ Len(q) = n + 1 + l
                                /\ \A i \in 1 .. l : q[n + 1 + i] = s[i]
    <2>1. IsPile(q, e, s, n + 1)
      BY <1>2, PiledFacts
    <2> QED
      BY <2>1, Zenon DEF IsPile
  <1> HIDE DEF p, q
  <1>4. IsStack(p)
    BY <1>1
  <1>5. /\ IsStack(u) /\ u[1] = x
        /\ \A k, m : k \in Nat /\ Len(p) = k /\ m = k + 1 =>
               Len(u) = m /\ \A i \in 1 .. k : u[i + 1] = p[i]
    <2> HIDE DEF x
    <2> QED
      BY <1>4, PushedOn
  <1> HIDE DEF u
  <1> PICK l \in Nat : l = Len(s)
    BY StackFacts
  <1>6. /\ Len(p) = n + l /\ Len(q) = n + 1 + l
        /\ \A i \in 1 .. l : p[n + i] = s[i] /\ q[n + 1 + i] = s[i]
    BY <1>1, <1>3, Zenon
  <1>7. Len(u) = n + 1 + l /\ \A i \in 1 .. n + l : u[i + 1] = p[i]
    <2>1. n + l \in Nat /\ n + 1 + l = (n + l) + 1
      OBVIOUS
    <2> QED
      BY <1>6, <1>5, <2>1, Zenon
  <1>8. \A i \in 1 .. n + 1 + l : u[i] = q[i]
    <2> TAKE i \in 1 .. n + 1 + l
    <2>1. CASE i = 1
      <3>1. i \in 1 .. n + 1 /\ n + 1 + 1 - i = n + 1
        BY <2>1
      <3> QED
        BY <1>3, <1>5, <2>1, <3>1, Zenon
    <2>2. CASE i # 1 /\ i <= n + 1
      <3>1. /\ i - 1 \in 1 .. n /\ i - 1 \in 1 .. n + l /\ i - 1 + 1 = i
            /\ i \in 1 .. n + 1 /\ n + 1 + 1 - i = n + 1 - (i - 1)
        BY <2>2
      <3>2. u[i] = p[i - 1]
        BY <1>7, <3>1, Zenon
      <3>3. p[i - 1] = e[n + 1 + 1 - i]
        BY <1>1, <3>1, Zenon
      <3>4. q[i] = e[n + 1 + 1 - i]
        BY <1>3, <3>1, Zenon
      <3> QED
        BY <3>2, <3>3, <3>4
    <2>3. CASE ~(i <= n + 1)
      <3> DEFINE j == i - (n + 1)
      <3>1. /\ j \in 1 .. l /\ n + j \in 1 .. n + l /\ n + j + 1 = i
            /\ n + 1 + j = i
        BY <2>3
      <3> HIDE DEF j
      <3>2. u[i] = p[n + j] /\ q[i] = s[j] /\ p[n + j] = s[j]
        BY <1>6, <1>7, <3>1, Zenon
      <3> QED
        BY <3>2
    <2> QED
      BY <2>1, <2>2, <2>3
  <1> QED
    BY <1>3, <1>6, <1>5, <1>7, <1>8, StacksEqual, Zenon DEF u, p, q

\* The function Extended defines recursively: it exists.
IsExtension(f, env, names, values) ==
    /\ f[0] = env
    /\ \A n \in 1 .. Len(names) : f[n] = EnvSet(f[n - 1], Name(names[n]), values[n])

LEMMA ExtensionExists ==
    ASSUME NEW env, IsStack(env.symbols), IsStack(env.values),
           NEW names, IsStack(names), NEW values
    PROVE  \E f : /\ Extended(env, names, values) = f[Len(names)]
                  /\ IsExtension(f, env, names, values)
  <1> DEFINE f == CHOOSE h : h = [n \in 0 .. Len(names) |->
                        IF n = 0 THEN env ELSE EnvSet(h[n - 1], Name(names[n]), values[n])]
             e == [n \in DOMAIN names |-> Name(names[n])]
             At(n) == [symbols |-> Piled(e, env.symbols, n),
                       values  |-> Piled(values, env.values, n)]
             g == [n \in 0 .. Len(names) |-> IF n = 0 THEN env ELSE At(n)]
  <1>1. /\ \A n \in 1 .. Len(names) : n \in 0 .. Len(names) /\ n - 1 \in 0 .. Len(names)
                                      /\ n # 0 /\ n - 1 \in Nat /\ n - 1 + 1 = n
        /\ \A n \in 0 .. Len(names) : n # 0 => n \in 1 .. Len(names)
        /\ 0 \in 0 .. Len(names)
    BY StackFacts
  <1>2. \A n \in 1 .. Len(names) : e[n] = Name(names[n])
    BY StackFacts, Zenon
  <1> HIDE DEF e
  <1>3. \A n \in 1 .. Len(names) :
            At(n) = [symbols |-> <<Name(names[n])>> \o Piled(e, env.symbols, n - 1),
                     values  |-> <<values[n]>> \o Piled(values, env.values, n - 1)]
    <2> TAKE n \in 1 .. Len(names)
    <2> PICK m \in Nat : m = n - 1
      BY <1>1
    <2>1. n = m + 1
      BY <1>1
    <2>2. /\ <<e[m + 1]>> \o Piled(e, env.symbols, m) = Piled(e, env.symbols, m + 1)
          /\ <<values[m + 1]>> \o Piled(values, env.values, m)
               = Piled(values, env.values, m + 1)
      BY PiledOne
    <2> QED
      BY <1>2, <2>1, <2>2, Zenon
  <1>4. \A n \in 1 .. Len(names) :
            At(n) = EnvSet(g[n - 1], Name(names[n]), values[n])
    <2> TAKE n \in 1 .. Len(names)
    <2>1. CASE n - 1 = 0
      <3>1. g[n - 1] = env
        BY <1>1, <2>1, Zenon
      <3>2. /\ Piled(e, env.symbols, n - 1) = env.symbols
            /\ Piled(values, env.values, n - 1) = env.values
        BY <2>1, PiledNone, Zenon
      <3> HIDE DEF g, At
      <3> QED
        BY <1>3, <3>1, <3>2, Zenon DEF EnvSet
    <2>2. CASE n - 1 # 0
      <3>1. g[n - 1] = At(n - 1)
        BY <1>1, <2>2, Zenon
      <3>2. /\ At(n - 1).symbols = Piled(e, env.symbols, n - 1)
            /\ At(n - 1).values = Piled(values, env.values, n - 1)
        BY Zenon
      <3> HIDE DEF g, At
      <3> QED
        BY <1>3, <3>1, <3>2, Zenon DEF EnvSet
    <2> QED
      BY <2>1, <2>2
  <1>5. g = [n \in 0 .. Len(names) |->
                IF n = 0 THEN env ELSE EnvSet(g[n - 1], Name(names[n]), values[n])]
    <2> DEFINE G(n) == EnvSet(g[n - 1], Name(names[n]), values[n])
    <2>1. \A n \in 0 .. Len(names) : n # 0 => At(n) = G(n)
      BY <1>1, <1>4, Zenon
    <2> HIDE DEF G, At
    <2>2. g = [n \in 0 .. Len(names) |-> IF n = 0 THEN env ELSE G(n)]
      BY <2>1, Zenon
    <2> HIDE DEF g
    <2> QED
      BY <2>2, Zenon DEF G
  <1> HIDE DEF g
  <1>6. f = [n \in 0 .. Len(names) |->
                IF n = 0 THEN env ELSE EnvSet(f[n - 1], Name(names[n]), values[n])]
    BY <1>5, Zenon
  <1>7. Extended(env, names, values) = f[Len(names)]
    BY Zenon DEF Extended
  <1> HIDE DEF f
  <1>8. /\ f[0] = env
        /\ \A n \in 1 .. Len(names) : f[n] = EnvSet(f[n - 1], Name(names[n]), values[n])
    BY <1>1, <1>6, Zenon
  <1> QED
    BY <1>7, <1>8, Zenon DEF IsExtension

LEMMA EnvInitOK ==
    EnvOK(EnvInit) /\ FuncsOK(EnvInit)
  <1>1. EnvInit.symbols = <<>> /\ EnvInit.values = <<>>
    BY DEF EnvInit
  <1>2. IsStack(<<>>) /\ \A i \in DOMAIN <<>> : FALSE
    <2>1. <<>> \in Seq({}) /\ \A i \in DOMAIN <<>> : FALSE
      OBVIOUS
    <2> QED
      BY <2>1, IsStackFacts
  <1> QED
    BY <1>1, <1>2 DEF EnvOK, FuncsOK, EnvParallel

LEMMA EnvSetOK ==
    ASSUME NEW env, EnvOK(env), NEW symbol, NEW value, IsValue(value)
    PROVE  /\ EnvOK(EnvSet(env, symbol, value))
           /\ FuncsOK(env) /\ IsFunctionStruct(value) =>
                FuncsOK(EnvSet(env, symbol, value))
  <1> DEFINE a == <<symbol>> \o env.symbols
             b == <<value>> \o env.values
  <1>1. EnvSet(env, symbol, value).symbols = a /\ EnvSet(env, symbol, value).values = b
    BY DEF EnvSet
  <1>2. IsStack(a) /\ Len(a) = Len(env.symbols) + 1
    BY StackPushed DEF EnvOK
  <1>3. /\ IsStack(b) /\ Len(b) = Len(env.values) + 1 /\ b[1] = value
        /\ \A i \in 1 .. Len(env.values) : b[i + 1] = env.values[i]
    BY StackPushed DEF EnvOK
  <1> HIDE DEF a, b
  <1>4. ASSUME NEW i \in DOMAIN b
        PROVE  i = 1 \/ (i - 1 \in DOMAIN env.values /\ b[i] = env.values[i - 1])
    <2>1. DOMAIN b = 1 .. Len(b) /\ DOMAIN env.values = 1 .. Len(env.values)
          /\ Len(env.values) \in Nat
      BY <1>3, StackFacts DEF EnvOK
    <2>2. i = 1 \/ (i - 1 \in 1 .. Len(env.values) /\ i - 1 + 1 = i)
      BY <1>3, <2>1
    <2> QED
      BY <1>3, <2>1, <2>2, Zenon
  <1>5. EnvOK(EnvSet(env, symbol, value))
    BY <1>1, <1>2, <1>3, <1>4 DEF EnvOK, EnvParallel
  <1>6. ASSUME FuncsOK(env), IsFunctionStruct(value)
        PROVE  FuncsOK(EnvSet(env, symbol, value))
    BY <1>1, <1>3, <1>4, <1>5, <1>6, Zenon DEF FuncsOK
  <1> QED
    BY <1>5, <1>6

LEMMA ExtendedOK ==
    ASSUME NEW env, EnvOK(env), NEW names, IsStack(names),
           NEW values, AllValues(values)
    PROVE  Len(names) = Len(values) => EnvOK(Extended(env, names, values))
  <1>1. PICK f : /\ Extended(env, names, values) = f[Len(names)]
                 /\ IsExtension(f, env, names, values)
    <2>1. IsStack(env.symbols) /\ IsStack(env.values)
      BY Zenon DEF EnvOK
    <2> QED
      BY <2>1, ExtensionExists
  <1> HAVE Len(names) = Len(values)
  <1>2. PICK l \in Nat : l = Len(names)
    BY StackFacts
  <1> DEFINE T == {n \in 0 .. l : ~EnvOK(f[n])}
  <1>3. T = {}
    <2> SUFFICES ASSUME T # {}
                 PROVE  FALSE
      OBVIOUS
    <2>1. T \in SUBSET Nat
      OBVIOUS
    <2>2. PICK m \in T : \A n \in T : m <= n
      BY <2>1, LeastElement
    <2>3. m # 0
      BY <1>1, <2>2 DEF IsExtension
    <2>4. m \in 1 .. l /\ m - 1 \in 0 .. l /\ ~(m <= m - 1)
      BY <1>2, <2>2, <2>3
    <2>5. EnvOK(f[m - 1])
      BY <2>2, <2>4
    <2>6. IsValue(values[m])
      BY <1>2, <2>4, StackFacts DEF AllValues
    <2>7. f[m] = EnvSet(f[m - 1], Name(names[m]), values[m])
      BY <1>1, <1>2, <2>4 DEF IsExtension
    <2>8. EnvOK(f[m])
      BY <2>5, <2>6, <2>7, EnvSetOK
    <2> QED
      BY <2>2, <2>8
  <1> QED
    BY <1>1, <1>2, <1>3

LEMMA LookupIsOne ==
    ASSUME NEW env, EnvOK(env), NEW symbol, EnvFinds(env, symbol)
    PROVE  \E i \in DOMAIN env.values : EnvLookup(env, symbol) = env.values[i]
  <1> PICK l \in Nat : l = Len(env.symbols)
    BY StackFacts DEF EnvOK
  <1>1. DOMAIN env.symbols = 1 .. l /\ DOMAIN env.values = 1 .. l
    BY StackFacts DEF EnvOK, EnvParallel
  <1> DEFINE T == {i \in 1 .. l : env.symbols[i] = symbol}
             At(i) == /\ env.symbols[i] = symbol
                      /\ \A j \in 1 .. i - 1 : env.symbols[j] # symbol
  <1>2. T # {} /\ T \in SUBSET Nat
    BY <1>1 DEF EnvFinds
  <1>3. PICK m \in T : \A n \in T : m <= n
    BY <1>2, LeastElement
  <1>4. At(m)
    <2>1. \A j \in 1 .. m - 1 : j \in 1 .. l /\ ~(m <= j)
      BY <1>3
    <2> QED
      BY <1>3, <2>1
  <1>5. \E i \in DOMAIN env.symbols : At(i)
    BY <1>1, <1>3, <1>4
  <1>6. (CHOOSE i \in DOMAIN env.symbols : At(i)) \in DOMAIN env.symbols
    <2> HIDE DEF At
    <2> QED
      BY <1>5, Zenon
  <1>7. EnvPosition(env, symbol) \in DOMAIN env.values
    BY <1>1, <1>6, Zenon DEF EnvPosition
  <1> QED
    BY <1>7, Zenon DEF EnvLookup

\* What a name stands for is a value.
LEMMA FoundValue ==
    ASSUME IsStack(frames), \A i \in DOMAIN frames : FrameOK(frames[i]), EnvOK(vars),
           NEW name, Found(name)
    PROVE  IsValue(Lookup(name))
  <1> DEFINE Here(i) == /\ EnvFinds(frames[i].env, name)
                        /\ \A j \in 1 .. i - 1 : ~EnvFinds(frames[j].env, name)
             i0 == CHOOSE i \in DOMAIN frames : Here(i)
  <1>1. \A env : EnvOK(env) /\ EnvFinds(env, name) => IsValue(EnvLookup(env, name))
    <2> TAKE env
    <2> HAVE EnvOK(env) /\ EnvFinds(env, name)
    <2> PICK i \in DOMAIN env.values : EnvLookup(env, name) = env.values[i]
      BY LookupIsOne
    <2> QED
      BY DEF EnvOK
  <1>2. CASE \E i \in DOMAIN frames : EnvFinds(frames[i].env, name)
    <2>1. PICK l \in Nat : l = Len(frames) /\ DOMAIN frames = 1 .. l
      BY StackFacts
    <2> DEFINE T == {i \in 1 .. l : EnvFinds(frames[i].env, name)}
    <2>2. T # {} /\ T \in SUBSET Nat
      BY <1>2, <2>1
    <2>3. PICK m \in T : \A n \in T : m <= n
      BY <2>2, LeastElement
    <2>4. \A j \in 1 .. m - 1 : j \in 1 .. l /\ ~(m <= j)
      BY <2>3
    <2>5. \E i \in DOMAIN frames : Here(i)
      BY <2>1, <2>3, <2>4
    <2>6. Lookup(name) = EnvLookup(frames[i0].env, name)
      BY <1>2, Zenon DEF Lookup
    <2>7. i0 \in DOMAIN frames /\ Here(i0)
      <3> HIDE DEF Here
      <3> QED
        BY <2>5, Zenon
    <2> HIDE DEF i0
    <2> QED
      BY <1>1, <2>6, <2>7, Zenon DEF FrameOK
  <1>3. CASE ~\E i \in DOMAIN frames : EnvFinds(frames[i].env, name)
    <2>1. EnvFinds(vars, name)
      BY <1>3, Zenon DEF Found
    <2>2. Lookup(name) = EnvLookup(vars, name)
      BY <1>3, Zenon DEF Lookup
    <2> QED
      BY <1>1, <2>1, <2>2, Zenon
  <1> QED
    BY <1>2, <1>3

\* Bindings are added to a frame or to the globals.
LEMMA BindOK ==
    ASSUME IsStack(frames), \A i \in DOMAIN frames : FrameOK(frames[i]), EnvOK(vars),
           NEW names, IsStack(names), NEW values, AllValues(values),
           Len(names) = Len(values), Bind(names, values)
    PROVE  /\ IsStack(frames') /\ (\A i \in DOMAIN frames' : FrameOK(frames'[i]))
           /\ EnvOK(vars')
  <1> DEFINE Here(i) == frames[i].valid /\ \A j \in 1 .. i - 1 : ~frames[j].valid
             i0 == CHOOSE i \in DOMAIN frames : Here(i)
  <1>1. \A env : EnvOK(env) => EnvOK(Extended(env, names, values))
    BY ExtendedOK, Zenon
  <1>2. CASE \E i \in DOMAIN frames : frames[i].valid
    <2>1. /\ frames' = [frames EXCEPT ![i0].env = Extended(@, names, values)]
          /\ vars' = vars
      BY <1>2, Zenon DEF Bind
    <2> HIDE DEF i0
    <2>2. DOMAIN frames' = DOMAIN frames
      BY <2>1, Zenon
    <2>3. ASSUME NEW i \in DOMAIN frames
          PROVE  FrameOK(frames'[i])
      <3>1. CASE i = i0
        <4>1. frames'[i] = [frames[i] EXCEPT !.env = Extended(frames[i].env, names, values)]
          BY <2>1, <3>1, Zenon
        <4> QED
          BY <1>1, <4>1, Zenon DEF FrameOK
      <3>2. CASE i # i0
        BY <2>1, <3>2, Zenon
      <3> QED
        BY <3>1, <3>2
    <2>4. IsStack(frames')
      BY <2>1, FrameReplaced
    <2> QED
      BY <2>1, <2>2, <2>3, <2>4, Zenon
  <1>3. CASE ~\E i \in DOMAIN frames : frames[i].valid
    <2>1. vars' = Extended(vars, names, values) /\ frames' = frames
      BY <1>3, Zenon DEF Bind
    <2> QED
      BY <1>1, <2>1, Zenon
  <1> QED
    BY <1>2, <1>3

(***************************************************************************)
(* Activations that wait for a value.                                      *)
(***************************************************************************)
MayBeWaitedFor(v) == IsValue(v) \/ v = Stale

LEMMA KontAgrees ==
    ASSUME NEW a, KontOK(a), "k" \in DOMAIN a, NEW b, DOMAIN b = DOMAIN a,
           \A f \in DOMAIN a : f # "result" => b[f] = a[f],
           "result" \in DOMAIN a => MayBeWaitedFor(b.result)
    PROVE  KontOK(b)
  <1>1. b.k = a.k
    BY DEF KontOK
  <1>2. a.k = "args" => ArgsOK(b)
    <2> HAVE a.k = "args"
    <2>1. ArgsOK(a)
      BY DEF KontOK
    <2>2. /\ b.id = a.id /\ b.def = a.def /\ b.rest = a.rest /\ b.done = a.done
          /\ {"id", "def", "rest", "done"} \subseteq DOMAIN b
      BY <2>1 DEF ArgsOK
    <2> QED
      BY <2>1, <2>2, Zenon DEF ArgsOK
  <1>3. /\ a.k \in {"and", "or"} => b.other = a.other
        /\ a.k = "if" => b.then = a.then /\ b.else = a.else
        /\ a.k = "cond" => b.clauses = a.clauses
        /\ a.k = "begin" => b.rest = a.rest
    BY DEF KontOK
  <1>4. b.k \in Waiting => IsValue(b.result) \/ b.result = Stale
    BY <1>1 DEF KontOK, MayBeWaitedFor
  <1>5. "result" \in DOMAIN b <=> b.k \in Waiting
    BY <1>1 DEF KontOK
  <1> QED
    BY <1>1, <1>2, <1>3, <1>4, <1>5 DEF KontOK

LEMMA KontsPushedOK ==
    ASSUME NEW ks, IsStack(ks), KontsOK(ks), NEW kont, KontOK(kont)
    PROVE  KontsOK(<<kont>> \o ks)
  <1> DEFINE t == <<kont>> \o ks
  <1>1. /\ IsStack(t) /\ Len(t) = Len(ks) + 1 /\ t[1] = kont
        /\ \A i \in 1 .. Len(ks) : t[i + 1] = ks[i]
    BY StackPushed
  <1>2. Len(ks) \in Nat /\ DOMAIN ks = 1 .. Len(ks)
    BY StackFacts
  <1> HIDE DEF t
  <1>3. DOMAIN t = 1 .. Len(t)
    BY <1>1, StackFacts
  <1>4. ASSUME NEW i \in DOMAIN t
        PROVE  KontOK(t[i])
    <2>1. i = 1 \/ (i - 1 \in 1 .. Len(ks) /\ i - 1 + 1 = i)
      BY <1>1, <1>2, <1>3
    <2> QED
      BY <1>1, <1>2, <2>1 DEF KontsOK
  <1> QED
    BY <1>4 DEF KontsOK, t

LEMMA KontsPoppedOK ==
    ASSUME NEW ks, IsStack(ks), KontsOK(ks), ks # <<>>
    PROVE  KontsOK(Tail(ks)) /\ KontOK(ks[1])
  <1> DEFINE t == Tail(ks)
  <1>1. /\ IsStack(t) /\ Len(ks) = Len(t) + 1
        /\ \A i \in 1 .. Len(t) : ks[i + 1] = t[i]
    BY StackPopped
  <1>2. DOMAIN ks = 1 .. Len(ks) /\ 1 \in DOMAIN ks
    BY StackFacts
  <1> HIDE DEF t
  <1>3. DOMAIN t = 1 .. Len(t) /\ Len(t) \in Nat
    BY <1>1, StackFacts
  <1>4. \A i \in 1 .. Len(t) : i + 1 \in DOMAIN ks
    BY <1>1, <1>2, <1>3
  <1> QED
    BY <1>1, <1>2, <1>3, <1>4 DEF KontsOK, t

LEMMA KontsDeliveredOK ==
    ASSUME NEW ks, IsKonts(ks), KontsOK(ks), NEW v, MayBeWaitedFor(v)
    PROVE  KontsOK(Deliver(ks, v))
  <1> DEFINE i == CHOOSE i \in DOMAIN ks :
                    /\ "result" \in DOMAIN ks[i]
                    /\ \A j \in 1 .. i - 1 : "result" \notin DOMAIN ks[j]
  <1> HIDE DEF i
  <1> DEFINE t == [ks EXCEPT ![i].result = v]
  <1>1. Deliver(ks, v) = t
    BY Zenon DEF Deliver, i
  <1>2. DOMAIN t = DOMAIN ks
    BY Zenon
  <1>3. ASSUME NEW j \in DOMAIN ks
        PROVE  KontOK(t[j])
    <2>1. "k" \in DOMAIN ks[j] /\ KontOK(ks[j])
      BY DEF IsKonts, KontsOK
    <2>2. CASE j = i
      <3> DEFINE b == [ks[j] EXCEPT !.result = v]
      <3>1. t[j] = b
        BY <2>2, Zenon
      <3>2. /\ DOMAIN b = DOMAIN ks[j]
            /\ \A f \in DOMAIN ks[j] : f # "result" => b[f] = ks[j][f]
            /\ "result" \in DOMAIN ks[j] => b.result = v
        BY Zenon
      <3> HIDE DEF b, t
      <3>3. KontOK(b)
        BY <2>1, <3>2, KontAgrees
      <3> QED
        BY <3>1, <3>3
    <2>3. CASE j # i
      <3>1. t[j] = ks[j]
        BY <2>3, Zenon
      <3> HIDE DEF t
      <3> QED
        BY <2>1, <3>1
    <2> QED
      BY <2>2, <2>3
  <1> HIDE DEF t
  <1> QED
    BY <1>1, <1>2, <1>3 DEF KontsOK

LEMMA KontsCollectedOK ==
    ASSUME NEW ks, IsKonts(ks), KontsOK(ks), NEW collect
    PROVE  KontsOK(Collected(ks, collect))
  <1> DEFINE t == [i \in DOMAIN ks |-> Moved(ks[i])]
  <1>1. ASSUME NEW i \in DOMAIN ks
        PROVE  KontOK(t[i])
    <2>1. "k" \in DOMAIN ks[i] /\ KontOK(ks[i])
      BY DEF IsKonts, KontsOK
    <2>2. t[i] = Moved(ks[i])
      BY Zenon
    <2> HIDE DEF t
    <2> DEFINE a == ks[i]
               b == Moved(a)
    <2>3. /\ DOMAIN b = DOMAIN a
          /\ \A f \in DOMAIN a : b[f] = a[f] \/ (f \in Unrooted(a) /\ b[f] = Stale)
      BY Zenon DEF Moved
    <2>4. \A f : f \in Unrooted(a) => f = "result"
      BY DEF Unrooted
    <2>5. "result" \in DOMAIN a => MayBeWaitedFor(a.result)
      BY <2>1 DEF KontOK, MayBeWaitedFor
    <2>6. MayBeWaitedFor(Stale)
      BY DEF MayBeWaitedFor
    <2> HIDE DEF b
    <2>7. KontOK(b)
      BY <2>1, <2>3, <2>4, <2>5, <2>6, KontAgrees
    <2> QED
      BY <2>2, <2>7 DEF b
  <1>2. DOMAIN t = DOMAIN ks
    BY Zenon
  <1>3. Collected(ks, collect) = IF collect THEN t ELSE ks
    BY Zenon DEF Collected
  <1> HIDE DEF t
  <1> QED
    BY <1>1, <1>2, <1>3 DEF KontsOK

(***************************************************************************)
(* The steps that keep the values well formed.                             *)
(***************************************************************************)
LEMMA ModesOK ==
    /\ \A x : Evaluate(x).k = "eval" /\ (IsSExpr(x) => ModeOK(Evaluate(x)))
    /\ \A id, def, as : /\ Call(id, def, as).k = "call"
                        /\ Callable(id, def) /\ IsSExpr(as) => ModeOK(Call(id, def, as))
    /\ \A ok : Return(ok).k = "return" /\ ModeOK(Return(ok))
    /\ Fault.k = "fault" /\ ModeOK(Fault) /\ Idle.k = "idle" /\ ModeOK(Idle)
  BY DEF Evaluate, Call, Return, Fault, Idle, ModeOK

LEMMA StoreSame ==
    ASSUME StoreOK, frames' = frames, vars' = vars, funcs' = funcs
    PROVE  StoreOK'
  BY DEF StoreOK

LEMMA ValueFacts ==
    ASSUME IInv, VInv
    PROVE  /\ IsKonts(konts) /\ IsStack(konts) /\ KontsOK(konts) /\ IsStack(frames)
           /\ StoreOK /\ ModeOK(mode)
           /\ mode.k \in Working => /\ konts # <<>> /\ KontOK(konts[1])
                                    /\ "k" \in DOMAIN konts[1]
                                    /\ IsKonts(Below) /\ IsStack(Below) /\ KontsOK(Below)
  <1>1. IsKonts(konts) /\ IsStack(konts) /\ IsStack(frames)
    BY StateFacts DEF IsKonts
  <1>2. KontsOK(konts) /\ StoreOK /\ ModeOK(mode)
    BY DEF VInv
  <1>3. ASSUME mode.k \in Working
        PROVE  /\ konts # <<>> /\ KontOK(konts[1]) /\ "k" \in DOMAIN konts[1]
               /\ IsKonts(Below) /\ IsStack(Below) /\ KontsOK(Below)
    <2>1. konts # <<>> /\ IsKonts(Below) /\ IsStack(Below)
      BY <1>3, StateFacts, Popped DEF IsKonts
    <2>2. KontOK(konts[1]) /\ KontsOK(Below)
      BY <1>1, <1>2, <2>1, KontsPoppedOK DEF Below
    <2>3. "k" \in DOMAIN konts[1]
      BY <1>1, <2>1, KontsPopped
    <2> QED
      BY <2>1, <2>2, <2>3
  <1> QED
    BY <1>1, <1>2, <1>3

\* What an action has to do that neither reads a form nor prints a value.
LEMMA ValuesKept ==
    ASSUME IInv, VInv, IInv', mode.k \in Working, program' = program, outputs' = outputs,
           mode'.k \in Working \/ (mode'.k = "fault" /\ konts' # <<>>),
           StoreOK', KontsOK(konts'), ModeOK(mode')
    PROVE  VInv'
  <1>1. mode'.k # "idle"
    BY DEF Working
  <1>2. konts' # <<>>
    <2>1. IsKonts(konts') /\ Sound(mode'.k, Kinds(konts'), Len(frames'), error')
      BY DEF IInv
    <2>2. mode'.k \in Working => Kinds(konts') # <<>>
      BY <2>1 DEF Sound
    <2>3. konts' = <<>> => Kinds(konts') = <<>>
      BY <2>1, KindsType
    <2> QED
      BY <2>2, <2>3
  <1>3. program \in Programs /\ IsStack(outputs) /\ Len(outputs) < Len(program)
        /\ Len(outputs) <= Len(program)
    BY DEF VInv
  <1> QED
    BY <1>1, <1>2, <1>3 DEF VInv

LEMMA CrashKeepsValues ==
    ASSUME IInv, VInv, IInv', mode.k \in Working, Crash
    PROVE  VInv'
  <1>1. /\ konts # <<>> /\ konts' = konts /\ mode'.k = "fault" /\ ModeOK(mode')
        /\ program' = program /\ outputs' = outputs
        /\ StoreOK' /\ KontsOK(konts')
    BY ValueFacts, ModesOK, StoreSame DEF Crash
  <1> QED
    BY <1>1, ValuesKept

\* A value is delivered, after a collection or without.
Delivers ==
    \E collect \in BOOLEAN : \E v :
        IsValue(v) /\ konts' = Deliver(Collected(konts, collect), v)

LEMMA DeliveredAtOnce ==
    ASSUME NEW v, IsValue(v), konts' = Deliver(konts, v)
    PROVE  Delivers
  <1>1. Collected(konts, FALSE) = konts
    BY DEF Collected
  <1> QED
    BY <1>1, Zenon DEF Delivers

LEMMA ValueDeliveredOK ==
    ASSUME NEW ks, IsKonts(ks), KontsOK(ks), NEW collect, NEW v, MayBeWaitedFor(v)
    PROVE  KontsOK(Deliver(Collected(ks, collect), v))
  BY KontsCollected, KontsCollectedOK, KontsDeliveredOK

LEMMA DeliversKeepsValues ==
    ASSUME IInv, VInv, IInv', mode.k \in Working, Delivers, mode' \in {Return(TRUE), Fault},
           program' = program, outputs' = outputs,
           frames' = frames, vars' = vars, funcs' = funcs
    PROVE  VInv'
  <1>1. PICK collect, v :
               /\ collect \in BOOLEAN /\ IsValue(v)
               /\ konts' = Deliver(Collected(konts, collect), v)
    BY DEF Delivers
  <1>2. KontsOK(konts')
    BY <1>1, ValueFacts, ValueDeliveredOK DEF MayBeWaitedFor
  <1>3. konts' # <<>>
    <2>1. IsKonts(konts') /\ Kinds(konts') = Kinds(konts)
      BY <1>1, ValueFacts, ValueDelivered
    <2> QED
      BY <2>1, ValueFacts, KindsType
  <1>4. ModeOK(mode') /\ mode'.k \in {"return", "fault"}
    BY ModesOK
  <1> QED
    BY <1>2, <1>3, <1>4, ValueFacts, StoreSame, ValuesKept DEF Working

\* What runs fails, or delivers a value.
LEMMA AnswerKeepsValues ==
    ASSUME IInv, VInv, IInv', mode.k \in {"eval", "apply"},
           \/ mode' = Return(FALSE) /\ konts' = konts
           \/ mode' \in {Return(TRUE), Fault} /\ Delivers,
           program' = program, outputs' = outputs,
           frames' = frames, vars' = vars, funcs' = funcs
    PROVE  VInv'
  <1>1. mode.k \in Working
    BY DEF Working
  <1>2. CASE mode' = Return(FALSE) /\ konts' = konts
    BY <1>1, <1>2, ValueFacts, StoreSame, ModesOK, ValuesKept DEF Working
  <1>3. CASE mode' \in {Return(TRUE), Fault} /\ Delivers
    BY <1>1, <1>3, DeliversKeepsValues
  <1> QED
    BY <1>2, <1>3

LEMMA EvalConstantDelivers ==
    ASSUME IInv, VInv, EvalConstant
    PROVE  Delivers /\ mode' = Return(TRUE)
  BY AtomsAreSExprs, DeliveredAtOnce DEF EvalConstant

LEMMA EvalConstantValues ==
    ASSUME IInv, VInv, IInv', EvalConstant
    PROVE  VInv'
  BY EvalConstantDelivers, DeliversKeepsValues DEF EvalConstant, Working

LEMMA EvalSymbolOutcomes ==
    ASSUME IInv, VInv, EvalSymbol
    PROVE  \/ mode' = Return(FALSE) /\ konts' = konts
           \/ mode' = Return(TRUE) /\ Delivers
  <1>1. \/ /\ Found(Name(mode.x)) /\ mode' = Return(TRUE)
           /\ konts' = Deliver(konts, Lookup(Name(mode.x)))
        \/ mode' = Return(FALSE) /\ konts' = konts
    BY Zenon DEF EvalSymbol, Fails
  <1>2. Found(Name(mode.x)) => IsValue(Lookup(Name(mode.x)))
    BY ValueFacts, FoundValue DEF StoreOK
  <1> QED
    BY <1>1, <1>2, DeliveredAtOnce

LEMMA EvalSymbolValues ==
    ASSUME IInv, VInv, IInv', EvalSymbol
    PROVE  VInv'
  <1>1. /\ mode.k = "eval" /\ program' = program /\ outputs' = outputs
        /\ frames' = frames /\ vars' = vars /\ funcs' = funcs
    BY DEF EvalSymbol
  <1> QED
    BY <1>1, EvalSymbolOutcomes, AnswerKeepsValues

\* What a form names can be called.
LEMMA DefinitionCallable ==
    ASSUME FuncsOK(funcs), NEW id, IsSExpr(id), IsFunction(id)
    PROVE  Callable(id, Definition(id))
  <1>1. CASE IsBuiltin(id)
    BY <1>1 DEF Callable
  <1>2. CASE IsSymbol(id) /\ ~IsBuiltin(id)
    <2>1. EnvFinds(funcs, Name(id))
      BY <1>2, Zenon DEF IsFunction, IsLambda, IsPair, IsCons, IsSymbol
    <2>2. ~IsCons(id)
      BY <1>2 DEF IsCons, IsSymbol
    <2>3. Definition(id) = Cddr(EnvLookup(funcs, Name(id)))
      BY <1>2, <2>2, Zenon DEF Definition
    <2>4. PICK i \in DOMAIN funcs.values : EnvLookup(funcs, Name(id)) = funcs.values[i]
      BY <2>1, LookupIsOne DEF FuncsOK
    <2>5. IsSExpr(funcs.values[i]) /\ IsFunctionStruct(funcs.values[i])
      BY Zenon DEF FuncsOK, EnvOK, IsValue
    <2>6. /\ FunctionDefError(Cddr(funcs.values[i])) = NoError
          /\ IsSExpr(Cddr(funcs.values[i]))
      BY <2>5, StructureShape
    <2> QED
      BY <2>3, <2>4, <2>6, Zenon DEF Callable
  <1>3. CASE ~IsSymbol(id)
    <2>1. IsLambda(id) /\ ~IsBuiltin(id)
      BY <1>3, Zenon DEF IsFunction, IsBuiltin
    <2>2. IsPair(id) /\ IsCons(id) /\ FunctionDefError(Cdr(id)) = NoError
      BY <2>1 DEF IsLambda, IsPair
    <2>3. IsSExpr(Cdr(id))
      BY <2>2, PartsAreSExprs DEF IsValue
    <2>4. Definition(id) = Cdr(id)
      BY <1>3, <2>1, <2>2, Zenon DEF Definition
    <2> QED
      BY <2>2, <2>3, <2>4 DEF Callable
  <1> QED
    BY <1>1, <1>2, <1>3

\* Activations without a result are pushed.
LEMMA PlainPushed ==
    ASSUME NEW ks, IsStack(ks), KontsOK(ks),
           NEW kind \in {"eval_internal", "funcall", "eval_func"}
    PROVE  KontsOK(<<[k |-> kind]>> \o ks)
  <1>1. KontOK([k |-> kind])
    <2>1. DOMAIN [k |-> kind] = {"k"} /\ [k |-> kind].k = kind
      OBVIOUS
    <2> QED
      BY <2>1 DEF KontOK, Waiting
  <1> QED
    BY <1>1, KontsPushedOK

LEMMA EvalCallValues ==
    ASSUME IInv, VInv, IInv', EvalCall
    PROVE  VInv'
  <1> DEFINE id == Car(mode.x)
  <1>1. /\ mode.k = "eval" /\ IsPair(mode.x) /\ program' = program /\ outputs' = outputs
        /\ frames' = frames /\ vars' = vars /\ funcs' = funcs
        /\ \/ mode' = Return(FALSE) /\ konts' = konts
           \/ /\ IsFunction(id) /\ mode' = Call(id, Definition(id), Cdr(mode.x))
              /\ konts' = Push([k |-> "eval_internal"])
    BY Zenon DEF EvalCall, Fails
  <1>2. IsSExpr(id) /\ IsSExpr(Cdr(mode.x))
    <2>1. IsSExpr(mode.x)
      BY <1>1, ValueFacts DEF ModeOK
    <2> QED
      BY <1>1, <2>1, PartsAreSExprs DEF IsValue
  <1> HIDE DEF id
  <1>3. CASE mode' = Return(FALSE) /\ konts' = konts
    BY <1>1, <1>3, ValueFacts, StoreSame, ModesOK, ValuesKept DEF Working
  <1>4. CASE /\ IsFunction(id) /\ mode' = Call(id, Definition(id), Cdr(mode.x))
             /\ konts' = Push([k |-> "eval_internal"])
    <2>1. Callable(id, Definition(id))
      BY <1>2, <1>4, ValueFacts, DefinitionCallable DEF StoreOK
    <2>2. KontsOK(konts')
      BY <1>4, ValueFacts, PlainPushed DEF Push
    <2> QED
      BY <1>1, <1>2, <1>4, <2>1, <2>2, ValueFacts, StoreSame, ModesOK, ValuesKept
         DEF Working
  <1> QED
    BY <1>1, <1>3, <1>4 DEF id

\* The activations are popped, and what they answered stands.
LEMMA PopValues ==
    ASSUME IInv, VInv, IInv', mode.k = "return", mode' = mode, konts' = Below,
           program' = program, outputs' = outputs,
           frames' = frames, vars' = vars, funcs' = funcs
    PROVE  VInv'
  BY ValueFacts, StoreSame, ValuesKept DEF Working

LEMMA PassOnValues ==
    ASSUME IInv, VInv, IInv', PassOn
    PROVE  VInv'
  BY PopValues DEF PassOn

LEMMA ArgumentFailsValues ==
    ASSUME IInv, VInv, IInv', ArgumentFails
    PROVE  VInv'
  BY PopValues DEF ArgumentFails, Return

LEMMA AssignmentFailsValues ==
    ASSUME IInv, VInv, IInv', AssignmentFails
    PROVE  VInv'
  BY PopValues DEF AssignmentFails, Return

LEMMA LeaveFuncValues ==
    ASSUME IInv, VInv, IInv', LeaveFunc
    PROVE  VInv'
  <1>1. /\ mode.k = "return" /\ mode' = mode /\ konts' = Below
        /\ program' = program /\ outputs' = outputs /\ vars' = vars /\ funcs' = funcs
        /\ frames' = frames \/ (frames # <<>> /\ frames' = Tail(frames))
    BY Zenon DEF LeaveFunc
  <1>2. CASE frames' = frames
    BY <1>1, <1>2, PopValues
  <1>3. CASE frames # <<>> /\ frames' = Tail(frames)
    <2>1. IsStack(frames) /\ DOMAIN frames = 1 .. Len(frames) /\ Len(frames) \in Nat
      BY ValueFacts, StackFacts
    <2>2. /\ IsStack(frames') /\ Len(frames) = Len(frames') + 1
          /\ \A i \in 1 .. Len(frames') : frames[i + 1] = frames'[i]
      BY <1>3, <2>1, StackPopped
    <2>3. DOMAIN frames' = 1 .. Len(frames') /\ Len(frames') \in Nat
      BY <2>2, StackFacts
    <2>4. ASSUME NEW i \in DOMAIN frames'
          PROVE  FrameOK(frames'[i])
      <3>1. i + 1 \in DOMAIN frames /\ frames'[i] = frames[i + 1]
        BY <2>1, <2>2, <2>3
      <3> QED
        BY <3>1, ValueFacts DEF StoreOK
    <2>5. StoreOK'
      BY <1>1, <2>4, ValueFacts DEF StoreOK
    <2> QED
      BY <1>1, <2>5, ValueFacts, ValuesKept DEF Working
  <1> QED
    BY <1>1, <1>2, <1>3

(***************************************************************************)
(* eval_func: the arguments are counted before they are evaluated.         *)
(***************************************************************************)
LEMMA NeverAborts ==
    ASSUME NEW id, NEW def, Callable(id, def), NEW as
    PROVE  ~CallAborts(id, def, as)
  <1>1. IsBuiltin(id) \/ FunctionDefError(def) = NoError
    BY DEF Callable
  <1> QED
    BY <1>1, DefinitionShape, Zenon DEF CallAborts

LEMMA CallArity ==
    ASSUME NEW id, NEW def, Callable(id, def), NEW as, CallError(id, def, as) = NoError
    PROVE  IsList(as) /\ \A n : n = Len(as[2]) => Arity(id, def, n)
  <1>1. "dotted_arg_list" # NoError /\ "erronous_arg_count" # NoError
    BY DEF NoError
  <1>2. IsList(as)
    BY <1>1, Zenon DEF CallError
  <1>3. CASE IsBuiltin(id)
    <2>1. Name(id) \in Variadic \/ ArgCount(Name(id)) = Len(as[2])
      BY <1>1, <1>2, <1>3, Zenon DEF CallError
    <2> QED
      BY <1>2, <1>3, <2>1, Zenon DEF Arity
  <1>4. CASE ~IsBuiltin(id)
    <2>1. ParametersError(def) = NoError
      BY <1>4, DefinitionShape DEF Callable
    <2>2. Len(Car(def)[2]) = Len(as[2])
      BY <1>1, <1>2, <1>4, <2>1, Zenon DEF CallError
    <2> QED
      BY <1>2, <1>4, <2>2, Zenon DEF Arity
  <1> QED
    BY <1>3, <1>4

LEMMA ArgsWaiting ==
    ASSUME NEW kont, {"k", "id", "def", "rest", "done", "result"} \subseteq DOMAIN kont,
           kont.k = "args", IsValue(kont.result),
           Callable(kont.id, kont.def), EvaluatesArguments(kont.id),
           NEW r, kont.rest = List(r), IsSExpr(List(r)),
           NEW d, kont.done = List(d), AllValues(d),
           Arity(kont.id, kont.def, Len(d) + 1 + Len(r))
    PROVE  KontOK(kont)
  <1>1. \A s : List(s)[2] = s /\ IsList(List(s))
    BY DEF List, IsList
  <1>2. kont.rest[2] = r /\ kont.done[2] = d /\ kont.done = List(kont.done[2])
        /\ IsList(kont.rest) /\ IsList(kont.done)
    BY <1>1, Zenon
  <1>3. {"id", "def", "rest", "done"} \subseteq DOMAIN kont
    OBVIOUS
  <1>4. ArgsOK(kont)
    BY <1>2, <1>3, Zenon DEF ArgsOK
  <1> QED
    BY <1>4 DEF KontOK, Waiting

LEMMA EnterFuncValues ==
    ASSUME IInv, VInv, IInv', EnterFunc
    PROVE  VInv'
  <1> DEFINE frame == [id |-> mode.id, valid |-> TRUE, env |-> EnvInit]
             kont == [k |-> "args", id |-> mode.id, def |-> mode.def,
                      rest |-> Cdr(mode.args), done |-> Nil, result |-> Nil]
             func == [k |-> "eval_func"]
  <1>1. /\ mode.k = "call" /\ frames' = <<frame>> \o frames
        /\ program' = program /\ outputs' = outputs /\ vars' = vars /\ funcs' = funcs
        /\ \E collect \in BOOLEAN :
              \/ mode' = Fault /\ konts' = konts
              \/ mode' = Return(FALSE) /\ konts' = Collected(konts, collect)
              \/ /\ CallError(mode.id, mode.def, mode.args) = NoError
                 /\ EvaluatesArguments(mode.id) /\ mode.args # Nil
                 /\ mode' = Evaluate(Car(mode.args))
                 /\ konts' = <<kont>> \o (<<func>> \o Collected(konts, collect))
              \/ /\ CallError(mode.id, mode.def, mode.args) = NoError
                 /\ ~(EvaluatesArguments(mode.id) /\ mode.args # Nil)
                 /\ mode' = Apply(mode.id, mode.def, mode.args)
                 /\ konts' = <<func>> \o Collected(konts, collect)
    BY Zenon DEF EnterFunc, Fails
  <1>2. FrameOK(frame)
    <2>1. /\ {"valid", "env"} \subseteq DOMAIN frame
          /\ frame.valid = TRUE /\ frame.env = EnvInit
      OBVIOUS
    <2> HIDE DEF frame
    <2> QED
      BY <2>1, EnvInitOK DEF FrameOK
  <1>3. /\ {"k", "id", "def", "rest", "done", "result"} = DOMAIN kont
        /\ kont.k = "args" /\ kont.id = mode.id /\ kont.def = mode.def
        /\ kont.rest = Cdr(mode.args) /\ kont.done = Nil /\ kont.result = Nil
    OBVIOUS
  <1> HIDE DEF frame, kont
  <1>4. StoreOK'
    <2>1. /\ IsStack(frames') /\ Len(frames') = Len(frames) + 1 /\ frames'[1] = frame
          /\ \A i \in 1 .. Len(frames) : frames'[i + 1] = frames[i]
      BY <1>1, ValueFacts, StackPushed
    <2>2. DOMAIN frames' = 1 .. Len(frames') /\ Len(frames) \in Nat
          /\ DOMAIN frames = 1 .. Len(frames)
      BY <2>1, ValueFacts, StackFacts
    <2>3. ASSUME NEW i \in DOMAIN frames'
          PROVE  FrameOK(frames'[i])
      <3>1. i = 1 \/ (i - 1 \in 1 .. Len(frames) /\ i - 1 + 1 = i)
        BY <2>1, <2>2
      <3>2. \A j \in DOMAIN frames : FrameOK(frames[j])
        BY ValueFacts DEF StoreOK
      <3> QED
        BY <1>2, <2>1, <2>2, <3>1, <3>2
    <2> QED
      BY <1>1, <2>3, ValueFacts DEF StoreOK
  <1>5. PICK collect \in BOOLEAN :
              \/ mode' = Fault /\ konts' = konts
              \/ mode' = Return(FALSE) /\ konts' = Collected(konts, collect)
              \/ /\ CallError(mode.id, mode.def, mode.args) = NoError
                 /\ EvaluatesArguments(mode.id) /\ mode.args # Nil
                 /\ mode' = Evaluate(Car(mode.args))
                 /\ konts' = <<kont>> \o (<<func>> \o Collected(konts, collect))
              \/ /\ CallError(mode.id, mode.def, mode.args) = NoError
                 /\ ~(EvaluatesArguments(mode.id) /\ mode.args # Nil)
                 /\ mode' = Apply(mode.id, mode.def, mode.args)
                 /\ konts' = <<func>> \o Collected(konts, collect)
    BY <1>1
  <1> DEFINE ks == Collected(konts, collect)
             called == <<func>> \o ks
  <1>6. IsKonts(ks) /\ IsStack(ks) /\ KontsOK(ks)
    BY ValueFacts, KontsCollected, KontsCollectedOK DEF IsKonts
  <1> HIDE DEF ks
  <1>7. IsStack(called) /\ KontsOK(called)
    BY <1>6, StackPushed, PlainPushed
  <1> HIDE DEF called, func
  <1>8. Callable(mode.id, mode.def) /\ IsSExpr(mode.args)
    BY <1>1, ValueFacts DEF ModeOK
  <1>9. CASE mode' = Fault /\ konts' = konts
    BY <1>1, <1>4, <1>9, ValueFacts, ModesOK, ValuesKept DEF Working
  <1>10. CASE mode' = Return(FALSE) /\ konts' = ks
    BY <1>1, <1>4, <1>6, <1>10, ValueFacts, ModesOK, ValuesKept DEF Working
  <1>11. CASE /\ CallError(mode.id, mode.def, mode.args) = NoError
              /\ EvaluatesArguments(mode.id) /\ mode.args # Nil
              /\ mode' = Evaluate(Car(mode.args)) /\ konts' = <<kont>> \o called
    <2>1. IsList(mode.args) /\ \A n : n = Len(mode.args[2]) => Arity(mode.id, mode.def, n)
      BY <1>8, <1>11, CallArity
    <2>2. IsPair(mode.args)
      BY <1>11, <2>1 DEF IsPair, IsCons, IsList
    <2> DEFINE r == Tail(mode.args[2])
    <2>3. /\ IsSExpr(Car(mode.args)) /\ IsSExpr(List(r)) /\ kont.rest = List(r)
          /\ mode.args[2] # <<>> /\ IsStack(mode.args[2])
      BY <1>3, <1>8, <2>1, <2>2, PartsAreSExprs, SExprShape DEF IsValue, IsPair
    <2>4. IsStack(r) /\ Len(mode.args[2]) = Len(r) + 1
      BY <2>3, StackPopped
    <2> HIDE DEF r
    <2> PICK n \in Nat : n = Len(r)
      BY <2>4, StackFacts
    <2>5. Arity(mode.id, mode.def, Len(<<>>) + 1 + Len(r))
      <3>1. n + 1 = Len(mode.args[2])
        BY <2>4
      <3>2. Arity(mode.id, mode.def, n + 1)
        BY <2>1, <3>1, Zenon
      <3>3. Len(<<>>) + 1 + n = n + 1
        OBVIOUS
      <3> QED
        BY <3>2, <3>3, Zenon
    <2>6. AllValues(<<>>) /\ IsValue(Nil)
      <3>1. <<>> \in Seq({}) /\ \A i \in DOMAIN <<>> : FALSE
        OBVIOUS
      <3> QED
        BY <3>1, IsStackFacts, AtomsAreSExprs DEF AllValues
    <2>7. KontOK(kont)
      BY <1>3, <1>8, <1>11, <2>3, <2>5, <2>6, ArgsWaiting DEF Nil
    <2>8. KontsOK(konts')
      BY <1>7, <1>11, <2>7, KontsPushedOK
    <2> QED
      BY <1>1, <1>4, <1>11, <2>3, <2>8, ModesOK, ValuesKept DEF Working
  <1>12. CASE /\ CallError(mode.id, mode.def, mode.args) = NoError
              /\ ~(EvaluatesArguments(mode.id) /\ mode.args # Nil)
              /\ mode' = Apply(mode.id, mode.def, mode.args) /\ konts' = called
    <2>1. IsList(mode.args) /\ Arity(mode.id, mode.def, Len(mode.args[2]))
      BY <1>8, <1>12, CallArity
    <2>2. EvaluatesArguments(mode.id) => AllValues(mode.args[2])
      <3> HAVE EvaluatesArguments(mode.id)
      <3>1. mode.args[2] = <<>>
        BY <1>12 DEF Nil, List
      <3>2. <<>> \in Seq({}) /\ \A i \in DOMAIN <<>> : FALSE
        OBVIOUS
      <3> QED
        BY <3>1, <3>2, IsStackFacts DEF AllValues
    <2>3. mode'.k = "apply" /\ mode'.id = mode.id /\ mode'.def = mode.def
          /\ mode'.args = mode.args
      BY <1>12 DEF Apply
    <2>4. ModeOK(mode')
      BY <1>8, <2>1, <2>2, <2>3 DEF ModeOK
    <2> QED
      BY <1>1, <1>4, <1>7, <1>12, <2>3, <2>4, ModesOK, ValuesKept DEF Working
  <1> QED
    BY <1>5, <1>9, <1>10, <1>11, <1>12 DEF ks, called

LEMMA AppendedValues ==
    ASSUME NEW d, AllValues(d), NEW v, IsValue(v)
    PROVE  /\ AllValues(Append(d, v)) /\ IsSExpr(List(Append(d, v)))
           /\ Len(Append(d, v)) = Len(d) + 1
  <1> DEFINE S == {d[i] : i \in DOMAIN d} \cup {v}
             t == Append(d, v)
  <1>1. d \in Seq({d[i] : i \in DOMAIN d}) /\ Len(d) \in Nat
    BY StackFacts DEF AllValues
  <1>2. d \in Seq(S) /\ v \in S /\ \A x \in S : IsValue(x)
    BY <1>1 DEF AllValues
  <1> HIDE DEF S
  <1>3. t \in Seq(S) /\ Len(t) = Len(d) + 1
    BY <1>2
  <1> HIDE DEF t
  <1>4. IsStack(t) /\ \A i \in DOMAIN t : t[i] \in S
    BY <1>3, IsStackFacts
  <1>5. AllValues(t)
    BY <1>2, <1>4 DEF AllValues
  <1>6. IsValue(List(t))
    <2>1. \A i \in DOMAIN t : IsSExpr(t[i]) /\ t[i] # FunctionMark
      BY <1>5 DEF AllValues, IsValue
    <2> QED
      BY <1>4, <2>1, ListBuilt
  <1> QED
    BY <1>3, <1>5, <1>6 DEF t, IsValue

LEMMA ArgumentValueValues ==
    ASSUME IInv, VInv, IInv', ArgumentValue
    PROVE  VInv'
  <1> DEFINE kont == konts[1]
             d == kont.done[2]
             t == Append(d, kont.result)
             done == List(t)
             next == [kont EXCEPT !.done = done, !.rest = Cdr(@), !.result = Nil]
  <1>1. mode.k = "return" /\ kont.k = "args"
    BY ModesOK DEF ArgumentValue
  <1>2. CASE Crash
    BY <1>1, <1>2, CrashKeepsValues DEF Working
  <1>3. CASE ~Crash
    <2>1. /\ kont.result # Stale
          /\ program' = program /\ outputs' = outputs
          /\ frames' = frames /\ vars' = vars /\ funcs' = funcs
          /\ \E collect \in BOOLEAN :
                \/ /\ kont.rest = Nil /\ mode' = Apply(kont.id, kont.def, done)
                   /\ konts' = Collected(Below, collect)
                \/ /\ kont.rest # Nil /\ mode' = Evaluate(Car(kont.rest))
                   /\ konts' = <<next>> \o Collected(Below, collect)
      BY <1>3, Zenon DEF ArgumentValue
    <2>2. PICK collect \in BOOLEAN :
                \/ /\ kont.rest = Nil /\ mode' = Apply(kont.id, kont.def, done)
                   /\ konts' = Collected(Below, collect)
                \/ /\ kont.rest # Nil /\ mode' = Evaluate(Car(kont.rest))
                   /\ konts' = <<next>> \o Collected(Below, collect)
      BY <2>1
    <2> DEFINE ks == Collected(Below, collect)
    <2>3. IsKonts(ks) /\ IsStack(ks) /\ KontsOK(ks)
      BY <1>1, ValueFacts, KontsCollected, KontsCollectedOK DEF IsKonts, Working
    <2>4. /\ "k" \in DOMAIN kont /\ "result" \in DOMAIN kont
          /\ IsValue(kont.result) /\ ArgsOK(kont)
      BY <1>1, <2>1, ValueFacts DEF KontOK, Working, Waiting
    <2>5. /\ {"id", "def", "rest", "done"} \subseteq DOMAIN kont
          /\ Callable(kont.id, kont.def) /\ EvaluatesArguments(kont.id)
          /\ IsList(kont.rest) /\ IsSExpr(kont.rest)
          /\ AllValues(d)
          /\ Arity(kont.id, kont.def, Len(d) + 1 + Len(kont.rest[2]))
      BY <2>4, Zenon DEF ArgsOK
    <2>6. AllValues(t) /\ IsSExpr(done) /\ Len(t) = Len(d) + 1 /\ Len(d) \in Nat
      BY <2>4, <2>5, AppendedValues, StackFacts DEF AllValues
    <2>7. done[2] = t /\ IsList(done)
      BY DEF List, IsList
    <2>8. /\ DOMAIN next = DOMAIN kont /\ next.k = kont.k /\ next.id = kont.id
          /\ next.def = kont.def /\ next.rest = Cdr(kont.rest) /\ next.done = done
          /\ next.result = Nil
      BY <2>4, <2>5, Zenon
    <2>9. StoreOK'
      BY <2>1, ValueFacts, StoreSame
    <2> HIDE DEF ks, next, t
    <2>10. CASE /\ kont.rest = Nil /\ mode' = Apply(kont.id, kont.def, done)
                /\ konts' = ks
      <3>1. Arity(kont.id, kont.def, Len(t))
        <4>1. kont.rest[2] = <<>>
          BY <2>10 DEF Nil, List
        <4>2. Len(d) + 1 + Len(<<>>) = Len(t)
          BY <2>6
        <4> QED
          BY <2>5, <4>1, <4>2, Zenon
      <3>2. mode'.k = "apply" /\ mode'.id = kont.id /\ mode'.def = kont.def
            /\ mode'.args = done
        BY <2>10 DEF Apply
      <3> HIDE DEF done
      <3>3. ModeOK(mode')
        BY <2>5, <2>6, <2>7, <3>1, <3>2, Zenon DEF ModeOK
      <3> QED
        BY <1>1, <2>1, <2>3, <2>9, <2>10, <3>2, <3>3, ValuesKept DEF Working
    <2>11. CASE /\ kont.rest # Nil /\ mode' = Evaluate(Car(kont.rest))
                /\ konts' = <<next>> \o ks
      <3> DEFINE s == kont.rest[2]
                 r == Tail(s)
      <3>1. IsPair(kont.rest)
        BY <2>5, <2>11 DEF IsPair, IsCons, IsList
      <3>2. /\ IsSExpr(Car(kont.rest)) /\ IsSExpr(List(r)) /\ Cdr(kont.rest) = List(r)
            /\ s # <<>> /\ IsStack(s)
        BY <2>5, <3>1, PartsAreSExprs, SExprShape DEF IsValue, IsPair
      <3>3. IsStack(r) /\ Len(s) = Len(r) + 1
        BY <3>2, StackPopped
      <3> HIDE DEF r
      <3>4. Arity(kont.id, kont.def, Len(t) + 1 + Len(r))
        <4>1. Len(r) \in Nat
          BY <3>3, StackFacts
        <4>2. \A m, n \in Nat : m + 1 + (n + 1) = m + 1 + 1 + n
          OBVIOUS
        <4>3. Len(d) + 1 + Len(s) = Len(t) + 1 + Len(r)
          BY <2>6, <3>3, <4>1, <4>2, Zenon
        <4> QED
          BY <2>5, <4>3, Zenon
      <3>5. KontOK(next)
        <4>1. IsValue(next.result)
          BY <2>8, AtomsAreSExprs
        <4>2. /\ {"k", "id", "def", "rest", "done", "result"} \subseteq DOMAIN next
              /\ next.k = "args" /\ next.rest = List(r) /\ next.done = List(t)
              /\ Callable(next.id, next.def) /\ EvaluatesArguments(next.id)
              /\ Arity(next.id, next.def, Len(t) + 1 + Len(r))
          BY <1>1, <2>4, <2>5, <2>8, <3>2, <3>4
        <4> QED
          BY <2>6, <3>2, <4>1, <4>2, ArgsWaiting
      <3>6. KontsOK(konts')
        BY <2>3, <2>11, <3>5, KontsPushedOK
      <3> QED
        BY <1>1, <2>1, <2>9, <2>11, <3>2, <3>6, ModesOK, ValuesKept DEF Working
    <2> QED
      BY <2>2, <2>10, <2>11 DEF ks
  <1> QED
    BY <1>2, <1>3

\* What a function or built-in is applied to.
LEMMA AppliedFacts ==
    ASSUME IInv, VInv, mode.k = "apply"
    PROVE  /\ Callable(mode.id, mode.def) /\ IsList(mode.args) /\ IsSExpr(mode.args)
           /\ mode.args = List(args) /\ IsStack(args)
           /\ \A i \in DOMAIN args : IsSExpr(args[i])
           /\ EvaluatesArguments(mode.id) => AllValues(args)
           /\ Arity(mode.id, mode.def, Len(args))
  <1>1. /\ Callable(mode.id, mode.def) /\ IsList(mode.args) /\ IsSExpr(mode.args)
        /\ EvaluatesArguments(mode.id) => AllValues(args)
        /\ Arity(mode.id, mode.def, Len(args))
    BY ValueFacts, Zenon DEF ModeOK, args
  <1>2. IsCons(mode.args)
    BY <1>1 DEF IsCons, IsList
  <1>3. /\ mode.args = List(args) /\ IsStack(args)
        /\ \A i \in DOMAIN args : IsSExpr(args[i])
    BY <1>1, <1>2, SExprShape DEF args
  <1> QED
    BY <1>1, <1>3

LEMMA RunningFacts ==
    ASSUME IInv, VInv, NEW b \in Builtins, Running(b)
    PROVE  /\ mode.k = "apply" /\ IsSExpr(Sym(b)) /\ Sym(b) \in Vocabulary
           /\ IsList(mode.args) /\ IsSExpr(mode.args)
           /\ mode.args = List(args) /\ IsStack(args)
           /\ \A i \in DOMAIN args : IsSExpr(args[i])
           /\ b \notin KeepsArguments => AllValues(args)
           /\ \A n \in Nat : ArgCount(b) = n /\ b \notin Variadic =>
                Len(args) = n /\ \A i \in 1 .. n : IsSExpr(args[i])
  <1>1. mode.k = "apply" /\ mode.id = Sym(b)
    BY DEF Running
  <1>2. IsSymbol(mode.id) /\ Name(mode.id) = b /\ IsBuiltin(mode.id)
    BY <1>1 DEF Sym, IsSymbol, Name, IsBuiltin
  <1>3. IsSExpr(Sym(b))
    BY <1>1, AppliedFacts DEF Callable
  <1>4. Sym(b) \in Vocabulary
    BY <1>1, <1>2, <1>3, SExprShape
  <1>5. b \notin KeepsArguments => AllValues(args)
    BY <1>1, <1>2, AppliedFacts DEF EvaluatesArguments
  <1>6. b \notin Variadic => ArgCount(b) = Len(args)
    BY <1>1, <1>2, AppliedFacts, Zenon DEF Arity
  <1>7. DOMAIN args = 1 .. Len(args)
    BY <1>1, AppliedFacts, StackFacts
  <1>8. ASSUME NEW n \in Nat, ArgCount(b) = n, b \notin Variadic
        PROVE  Len(args) = n /\ \A i \in 1 .. n : IsSExpr(args[i])
    <2>1. Len(args) = n
      BY <1>6, <1>8
    <2>2. DOMAIN args = 1 .. n
      BY <1>7, <2>1, Zenon
    <2> QED
      BY <1>1, <2>1, <2>2, AppliedFacts
  <1> QED
    BY <1>1, <1>3, <1>4, <1>5, <1>8, AppliedFacts, Zenon

LEMMA ApplyDefinedValues ==
    ASSUME IInv, VInv, IInv', ApplyDefined
    PROVE  VInv'
  <1>1. /\ mode.k = "apply" /\ ~IsBuiltin(mode.id) /\ mode' = Evaluate(Cadr(mode.def))
        /\ program' = program /\ outputs' = outputs /\ funcs' = funcs
        /\ \/ frames' = frames /\ vars' = vars /\ konts' = konts
           \/ /\ Bind(Car(mode.def)[2], args)
              /\ \E collect \in BOOLEAN : konts' = Collected(konts, collect)
    BY Zenon DEF ApplyDefined
  <1>2. /\ IsSExpr(mode.def) /\ FunctionDefError(mode.def) = NoError
        /\ AllValues(args) /\ Len(Car(mode.def)[2]) = Len(args)
    BY <1>1, AppliedFacts, Zenon DEF Callable, EvaluatesArguments, Arity
  <1>3. IsSExpr(Cadr(mode.def)) /\ IsStack(Car(mode.def)[2])
    BY <1>2, DefinitionParts
  <1>4. CASE frames' = frames /\ vars' = vars /\ konts' = konts
    BY <1>1, <1>3, <1>4, ValueFacts, StoreSame, ModesOK, ValuesKept DEF Working
  <1>5. CASE /\ Bind(Car(mode.def)[2], args)
             /\ \E collect \in BOOLEAN : konts' = Collected(konts, collect)
    <2>1. (\A i \in DOMAIN frames' : FrameOK(frames'[i])) /\ EnvOK(vars')
      <3>1. /\ IsStack(frames) /\ (\A i \in DOMAIN frames : FrameOK(frames[i]))
            /\ EnvOK(vars)
        BY ValueFacts DEF StoreOK
      <3> QED
        BY <1>2, <1>3, <1>5, <3>1, BindOK, Zenon
    <2>2. StoreOK'
      BY <1>1, <2>1, ValueFacts DEF StoreOK
    <2>3. KontsOK(konts')
      BY <1>5, ValueFacts, KontsCollectedOK
    <2> QED
      BY <1>1, <1>3, <2>2, <2>3, ValueFacts, ModesOK, ValuesKept DEF Working
  <1> QED
    BY <1>1, <1>4, <1>5

(***************************************************************************)
(* The built-ins.                                                          *)
(***************************************************************************)
LEMMA SimpleBuiltins ==
    /\ Simple \subseteq Builtins
    /\ \A b \in Simple : b \notin Variadic /\ (b \in KeepsArguments => b = "quote")
    /\ ArgCount("quote") = 1
  <1>1. "quote" \in OneArgument
    BY DEF OneArgument
  <1> QED
    BY <1>1, ArgCounts
       DEF Simple, Builtins, OneArgument, TwoArguments, Predicates, Arithmetic,
           Comparisons, Equalities, Variadic, KeepsArguments

LEMMA ApplySimpleOutcomes ==
    ASSUME IInv, VInv, ApplySimple
    PROVE  \/ mode' = Return(FALSE) /\ konts' = konts
           \/ mode' = Return(TRUE) /\ Delivers
  <1> DEFINE b == Name(mode.id)
             r == Applied(b, args, error)
  <1>1. /\ mode.k = "apply" /\ IsBuiltin(mode.id) /\ b \in Simple
        /\ \/ /\ r.ok /\ mode' = Return(TRUE)
              /\ \E collect \in BOOLEAN :
                    konts' = Deliver(Collected(konts, collect), r.value)
           \/ mode' = Return(FALSE) /\ konts' = konts
    <2>1. \A c \in IF Allocates(b, r.value) THEN BOOLEAN ELSE {FALSE} : c \in BOOLEAN
      OBVIOUS
    <2> QED
      BY <2>1, Zenon DEF ApplySimple, Fails
  <1>2. CASE mode' = Return(FALSE) /\ konts' = konts
    BY <1>2
  <1>3. CASE /\ r.ok /\ mode' = Return(TRUE)
             /\ \E collect \in BOOLEAN :
                   konts' = Deliver(Collected(konts, collect), r.value)
    <2>1. b \in Builtins /\ b \notin Variadic /\ (b \in KeepsArguments => b = "quote")
      BY <1>1, SimpleBuiltins
    <2>2. Len(args) = ArgCount(b)
      BY <1>1, <2>1, AppliedFacts, Zenon DEF Arity
    <2>3. EvaluatesArguments(mode.id) \/ b = "quote"
      BY <1>1, <2>1, Zenon DEF EvaluatesArguments
    <2>4. AllValues(args)
      <3>1. CASE EvaluatesArguments(mode.id)
        BY <1>1, <3>1, AppliedFacts
      <3>2. CASE b = "quote"
        <4>1. Len(args) = 1
          BY <2>2, <3>2, SimpleBuiltins, Zenon
        <4>2. \A i \in DOMAIN args : ~StructureAt(args, i)
          <5>1. \A i \in 1 .. 1 : 1 # i + 3
            OBVIOUS
          <5>2. DOMAIN args = 1 .. Len(args)
            BY <1>1, AppliedFacts, StackFacts
          <5> QED
            BY <4>1, <5>1, <5>2, Zenon DEF StructureAt
        <4>3. IsCons(mode.args) /\ mode.args[2] = args
          BY <1>1, AppliedFacts DEF IsCons, IsList, args
        <4>4. \A i \in DOMAIN args : args[i] # FunctionMark
          BY <1>1, <4>2, <4>3, AppliedFacts, SExprShape
        <4> QED
          BY <1>1, <4>4, AppliedFacts DEF AllValues, IsValue
      <3> QED
        BY <2>3, <3>1, <3>2
    <2>5. IsValue(r.value)
      BY <1>1, <1>3, <2>2, <2>4, AppliedValue
    <2> HIDE DEF r, b
    <2> QED
      BY <1>3, <2>5, Zenon DEF Delivers
  <1> QED
    BY <1>1, <1>2, <1>3

LEMMA ApplySimpleValues ==
    ASSUME IInv, VInv, IInv', ApplySimple
    PROVE  VInv'
  <1>1. /\ mode.k = "apply" /\ program' = program /\ outputs' = outputs
        /\ frames' = frames /\ vars' = vars /\ funcs' = funcs
    BY Zenon DEF ApplySimple
  <1> QED
    BY <1>1, ApplySimpleOutcomes, AnswerKeepsValues

LEMMA ApplyEvalValues ==
    ASSUME IInv, VInv, IInv', ApplyEval
    PROVE  VInv'
  <1>1. /\ Running("eval") /\ mode' = Evaluate(args[1]) /\ konts' = konts
        /\ program' = program /\ outputs' = outputs
        /\ frames' = frames /\ vars' = vars /\ funcs' = funcs
    BY DEF ApplyEval
  <1>2. "eval" \in Builtins /\ "eval" \in OneArgument
    BY DEF Builtins, OneArgument
  <1>3. mode.k = "apply" /\ IsSExpr(args[1])
    <2>1. 1 \in Nat /\ 1 \in 1 .. 1
      OBVIOUS
    <2> QED
      BY <1>1, <1>2, <2>1, RunningFacts, ArgCounts, Zenon
  <1> QED
    BY <1>1, <1>3, ValueFacts, StoreSame, ModesOK, ValuesKept DEF Working

\* The first step of the built-ins with two and three operands that wait for one.
LEMMA OperandsFacts ==
    ASSUME IInv, VInv
    PROVE  /\ \A b \in {"and", "or", "lambda", "let", "set"} :
                Running(b) => IsSExpr(args[1]) /\ IsSExpr(args[2])
           /\ Running("if") => IsSExpr(args[1]) /\ IsSExpr(args[2]) /\ IsSExpr(args[3])
           /\ Running("function") => IsSExpr(args[1])
  <1>1. /\ 1 \in Nat /\ 2 \in Nat /\ 3 \in Nat /\ 1 \in 1 .. 1 /\ 1 \in 1 .. 2
        /\ 2 \in 1 .. 2 /\ 1 \in 1 .. 3 /\ 2 \in 1 .. 3 /\ 3 \in 1 .. 3
    OBVIOUS
  <1>2. /\ {"and", "or", "lambda", "let", "set"} \subseteq TwoArguments
        /\ TwoArguments \subseteq Builtins /\ "if" \in Builtins
        /\ "function" \in OneArgument /\ "function" \in Builtins
    BY DEF TwoArguments, Builtins, OneArgument
  <1>3. ASSUME NEW b \in {"and", "or", "lambda", "let", "set"}, Running(b)
        PROVE  IsSExpr(args[1]) /\ IsSExpr(args[2])
    <2>1. b \in Builtins /\ ArgCount(b) = 2 /\ b \notin Variadic
      BY <1>2, ArgCounts
    <2> QED
      BY <1>1, <1>3, <2>1, RunningFacts, Zenon
  <1>4. Running("if") => IsSExpr(args[1]) /\ IsSExpr(args[2]) /\ IsSExpr(args[3])
    BY <1>1, <1>2, RunningFacts, ArgCounts, Zenon
  <1>5. Running("function") => IsSExpr(args[1])
    BY <1>1, <1>2, RunningFacts, ArgCounts, Zenon
  <1> QED
    BY <1>3, <1>4, <1>5

LEMMA OperandWaits ==
    ASSUME NEW r, MayBeWaitedFor(r)
    PROVE  /\ \A k \in {"and", "or"} : \A x :
                IsSExpr(x) => KontOK([k |-> k, other |-> x, result |-> r])
           /\ \A x, y : IsSExpr(x) /\ IsSExpr(y) =>
                KontOK([k |-> "if", then |-> x, else |-> y, result |-> r])
           /\ \A k \in {"tail", "branch"} : KontOK([k |-> k, result |-> r])
           /\ \A k \in {"let", "set"} : \A x :
                Sym(k) \in Vocabulary => KontOK([k |-> k, name |-> x, result |-> r])
           /\ KontOK([k |-> "eval", result |-> r])
           /\ \A x : IsList(x) /\ IsPair(x) /\ IsSExpr(x) /\ IsClause(Car(x)) =>
                KontOK([k |-> "cond", clauses |-> x, result |-> r])
           /\ \A x : IsList(x) /\ IsSExpr(x) => KontOK([k |-> "begin", rest |-> x])
  BY DEF KontOK, Waiting, MayBeWaitedFor

LEMMA ApplyAndValues ==
    ASSUME IInv, VInv, IInv', ApplyAnd
    PROVE  VInv'
  <1>1. /\ Running("and") /\ mode' = Evaluate(args[1])
        /\ konts' = Push([k |-> "and", other |-> args[2], result |-> Nil])
        /\ program' = program /\ outputs' = outputs
        /\ frames' = frames /\ vars' = vars /\ funcs' = funcs
    BY Zenon DEF ApplyAnd
  <1>2. mode.k = "apply" /\ IsSExpr(args[1]) /\ IsSExpr(args[2])
    BY <1>1, OperandsFacts DEF Running
  <1>3. KontsOK(konts')
    BY <1>1, <1>2, ValueFacts, OperandWaits, AtomsAreSExprs, KontsPushedOK
       DEF Push, MayBeWaitedFor
  <1> QED
    BY <1>1, <1>2, <1>3, ValueFacts, StoreSame, ModesOK, ValuesKept DEF Working

LEMMA ApplyOrValues ==
    ASSUME IInv, VInv, IInv', ApplyOr
    PROVE  VInv'
  <1>1. /\ Running("or") /\ mode' = Evaluate(args[1])
        /\ konts' = Push([k |-> "or", other |-> args[2], result |-> Nil])
        /\ program' = program /\ outputs' = outputs
        /\ frames' = frames /\ vars' = vars /\ funcs' = funcs
    BY Zenon DEF ApplyOr
  <1>2. mode.k = "apply" /\ IsSExpr(args[1]) /\ IsSExpr(args[2])
    BY <1>1, OperandsFacts DEF Running
  <1>3. KontsOK(konts')
    BY <1>1, <1>2, ValueFacts, OperandWaits, AtomsAreSExprs, KontsPushedOK
       DEF Push, MayBeWaitedFor
  <1> QED
    BY <1>1, <1>2, <1>3, ValueFacts, StoreSame, ModesOK, ValuesKept DEF Working

LEMMA ApplyIfValues ==
    ASSUME IInv, VInv, IInv', ApplyIf
    PROVE  VInv'
  <1>1. /\ Running("if") /\ mode' = Evaluate(args[1])
        /\ konts' = Push([k |-> "if", then |-> args[2], else |-> args[3], result |-> Nil])
        /\ program' = program /\ outputs' = outputs
        /\ frames' = frames /\ vars' = vars /\ funcs' = funcs
    BY Zenon DEF ApplyIf
  <1>2. mode.k = "apply" /\ IsSExpr(args[1]) /\ IsSExpr(args[2]) /\ IsSExpr(args[3])
    BY <1>1, OperandsFacts DEF Running
  <1>3. KontsOK(konts')
    BY <1>1, <1>2, ValueFacts, OperandWaits, AtomsAreSExprs, KontsPushedOK
       DEF Push, MayBeWaitedFor
  <1> QED
    BY <1>1, <1>2, <1>3, ValueFacts, StoreSame, ModesOK, ValuesKept DEF Working

LEMMA AndFirstValues ==
    ASSUME IInv, VInv, IInv', AndFirst
    PROVE  VInv'
  <1>1. /\ mode.k = "return" /\ konts[1].k = "and"
        /\ program' = program /\ outputs' = outputs
        /\ frames' = frames /\ vars' = vars /\ funcs' = funcs
        /\ \/ /\ mode' = Evaluate(konts[1].other)
              /\ konts' = <<[k |-> "tail", result |-> konts[1].result]>> \o Below
           \/ mode' = Return(FALSE) /\ konts' = Deliver(Below, Nil)
           \/ mode' = Return(FALSE) /\ konts' = Below
    BY Zenon DEF AndFirst
  <1>2. IsSExpr(konts[1].other) /\ MayBeWaitedFor(konts[1].result)
    BY <1>1, ValueFacts DEF KontOK, Working, Waiting, MayBeWaitedFor
  <1>3. KontOK([k |-> "tail", result |-> konts[1].result])
    BY <1>2, OperandWaits
  <1>4. KontsOK(konts')
    BY <1>1, <1>3, ValueFacts, AtomsAreSExprs, KontsPushedOK, KontsDeliveredOK
       DEF Working, MayBeWaitedFor
  <1> QED
    BY <1>1, <1>2, <1>4, ValueFacts, StoreSame, ModesOK, ValuesKept DEF Working

LEMMA OrFirstValues ==
    ASSUME IInv, VInv, IInv', OrFirst
    PROVE  VInv'
  <1>1. /\ mode.k = "return" /\ konts[1].k = "or"
        /\ program' = program /\ outputs' = outputs
        /\ frames' = frames /\ vars' = vars /\ funcs' = funcs
        /\ \/ mode' = Evaluate(konts[1].other) /\ konts' = Below
           \/ /\ mode' = Return(TRUE)
              /\ \E collect \in BOOLEAN : konts' = Deliver(Collected(Below, collect), True)
    BY Zenon DEF OrFirst
  <1>2. IsSExpr(konts[1].other)
    BY <1>1, ValueFacts DEF KontOK, Working
  <1>3. KontsOK(konts')
    BY <1>1, ValueFacts, AtomsAreSExprs, ValueDeliveredOK DEF Working, MayBeWaitedFor
  <1> QED
    BY <1>1, <1>2, <1>3, ValueFacts, StoreSame, ModesOK, ValuesKept DEF Working

LEMMA IfTestValues ==
    ASSUME IInv, VInv, IInv', IfTest
    PROVE  VInv'
  <1>1. /\ mode.k = "return" /\ konts[1].k = "if"
        /\ program' = program /\ outputs' = outputs
        /\ frames' = frames /\ vars' = vars /\ funcs' = funcs
        /\ \/ /\ mode' = Evaluate(konts[1].then) \/ mode' = Evaluate(konts[1].else)
              /\ konts' = <<[k |-> "branch", result |-> konts[1].result]>> \o Below
           \/ mode' = mode /\ konts' = Below
    BY Zenon DEF IfTest
  <1>2. /\ IsSExpr(konts[1].then) /\ IsSExpr(konts[1].else)
        /\ MayBeWaitedFor(konts[1].result)
    BY <1>1, ValueFacts DEF KontOK, Working, Waiting, MayBeWaitedFor
  <1>3. KontOK([k |-> "branch", result |-> konts[1].result])
    BY <1>2, OperandWaits
  <1>4. KontsOK(konts')
    BY <1>1, <1>3, ValueFacts, KontsPushedOK DEF Working
  <1> QED
    BY <1>1, <1>2, <1>4, ValueFacts, StoreSame, ModesOK, ValuesKept DEF Working

\* The clauses of cond that are left are a list, of which the first can be tried.
LEMMA TryClauseValues ==
    ASSUME NEW clauses, IsList(clauses), IsSExpr(clauses),
           NEW ks, IsStack(ks), KontsOK(ks), NEW held, TryClause(clauses, ks, held)
    PROVE  KontsOK(konts') /\ ModeOK(mode') /\ mode'.k \in Working
  <1> DEFINE kont == [k |-> "cond", clauses |-> clauses, result |-> Nil]
  <1>1. \/ mode' = Return(FALSE) /\ konts' = ks
        \/ /\ clauses # Nil /\ IsPair(Car(clauses)) /\ IsPair(Cdr(Car(clauses)))
           /\ mode' = Evaluate(Car(Car(clauses))) /\ konts' = <<kont>> \o ks
    BY Zenon DEF TryClause, Fails
  <1> HIDE DEF kont
  <1>2. CASE mode' = Return(FALSE) /\ konts' = ks
    BY <1>2, ModesOK DEF Working
  <1>3. CASE /\ clauses # Nil /\ IsPair(Car(clauses)) /\ IsPair(Cdr(Car(clauses)))
             /\ mode' = Evaluate(Car(Car(clauses))) /\ konts' = <<kont>> \o ks
    <2>1. IsPair(clauses)
      BY <1>3 DEF IsPair, IsCons, IsList
    <2>2. IsSExpr(Car(clauses))
      BY <2>1, PartsAreSExprs
    <2>3. IsSExpr(Car(Car(clauses)))
      BY <1>3, <2>2, PartsAreSExprs
    <2>4. IsClause(Car(clauses))
      BY <1>3 DEF IsClause
    <2>5. KontOK(kont)
      BY <2>1, <2>4, OperandWaits, AtomsAreSExprs DEF kont, MayBeWaitedFor
    <2>6. KontsOK(konts')
      BY <1>3, <2>5, KontsPushedOK
    <2> QED
      BY <1>3, <2>3, <2>6, ModesOK DEF Working
  <1> QED
    BY <1>1, <1>2, <1>3 DEF kont

LEMMA ApplyCondValues ==
    ASSUME IInv, VInv, IInv', ApplyCond
    PROVE  VInv'
  <1>1. /\ Running("cond") /\ TryClause(mode.args, konts, nroots + 2)
        /\ program' = program /\ outputs' = outputs
        /\ frames' = frames /\ vars' = vars /\ funcs' = funcs
    BY DEF ApplyCond
  <1>2. mode.k = "apply" /\ IsList(mode.args) /\ IsSExpr(mode.args)
    BY <1>1, AppliedFacts DEF Running
  <1>3. KontsOK(konts') /\ ModeOK(mode') /\ mode'.k \in Working
    BY <1>1, <1>2, ValueFacts, TryClauseValues
  <1> QED
    BY <1>1, <1>2, <1>3, ValueFacts, StoreSame, ValuesKept DEF Working

LEMMA CondTestValues ==
    ASSUME IInv, VInv, IInv', CondTest
    PROVE  VInv'
  <1> DEFINE tail == [k |-> "tail", result |-> konts[1].result]
             clauses == konts[1].clauses
  <1>1. /\ mode.k = "return" /\ konts[1].k = "cond"
        /\ program' = program /\ outputs' = outputs
        /\ frames' = frames /\ vars' = vars /\ funcs' = funcs
        /\ \/ mode' = mode /\ konts' = Below
           \/ TryClause(Cdr(clauses), Below, nroots)
           \/ mode' = Evaluate(Cadr(Car(clauses))) /\ konts' = <<tail>> \o Below
    BY Zenon DEF CondTest
  <1>2. /\ IsList(clauses) /\ IsPair(clauses) /\ IsSExpr(clauses)
        /\ IsClause(Car(clauses)) /\ MayBeWaitedFor(konts[1].result)
    BY <1>1, ValueFacts DEF KontOK, Working, Waiting, MayBeWaitedFor
  <1>3. KontOK(tail)
    BY <1>2, OperandWaits
  <1> HIDE DEF tail, clauses
  <1>4. CASE mode' = mode /\ konts' = Below
    BY <1>1, <1>4, PopValues
  <1>5. CASE TryClause(Cdr(clauses), Below, nroots)
    <2>1. Cdr(clauses) = List(Tail(clauses[2])) /\ IsSExpr(Cdr(clauses))
      BY <1>2, PartsAreSExprs DEF IsValue
    <2>2. IsList(Cdr(clauses))
      BY <2>1 DEF IsList, List
    <2>3. KontsOK(konts') /\ ModeOK(mode') /\ mode'.k \in Working
      BY <1>1, <1>5, <2>1, <2>2, ValueFacts, TryClauseValues DEF Working
    <2> QED
      BY <1>1, <2>3, ValueFacts, StoreSame, ValuesKept DEF Working
  <1>6. CASE mode' = Evaluate(Cadr(Car(clauses))) /\ konts' = <<tail>> \o Below
    <2>1. IsSExpr(Car(clauses))
      BY <1>2, PartsAreSExprs
    <2>2. IsSExpr(Cdr(Car(clauses))) /\ IsPair(Cdr(Car(clauses)))
      BY <1>2, <2>1, PartsAreSExprs DEF IsClause, IsValue
    <2>3. IsSExpr(Cadr(Car(clauses)))
      BY <2>2, PartsAreSExprs DEF Cadr
    <2>4. KontsOK(konts')
      BY <1>1, <1>3, <1>6, ValueFacts, KontsPushedOK DEF Working
    <2> QED
      BY <1>1, <1>6, <2>3, <2>4, ValueFacts, StoreSame, ModesOK, ValuesKept DEF Working
  <1> QED
    BY <1>1, <1>4, <1>5, <1>6 DEF tail, clauses

LEMMA TailValueValues ==
    ASSUME IInv, VInv, IInv', TailValue
    PROVE  VInv'
  <1>1. /\ mode.k = "return" /\ konts[1].k \in {"tail", "branch"} /\ mode' = mode
        /\ program' = program /\ outputs' = outputs
        /\ frames' = frames /\ vars' = vars /\ funcs' = funcs
        /\ konts' = Deliver(Below, konts[1].result) \/ konts' = Below
    BY Zenon DEF TailValue
  <1>2. MayBeWaitedFor(konts[1].result)
    BY <1>1, ValueFacts DEF KontOK, Working, Waiting, MayBeWaitedFor
  <1>3. KontsOK(konts')
    BY <1>1, <1>2, ValueFacts, KontsDeliveredOK DEF Working
  <1> QED
    BY <1>1, <1>3, ValueFacts, StoreSame, ValuesKept DEF Working

\* A frame that is disabled is a frame.
LEMMA DisabledOK ==
    ASSUME StoreOK, frames' = Disabled, vars' = vars, funcs' = funcs
    PROVE  StoreOK'
  <1>1. /\ DOMAIN frames' = DOMAIN frames
        /\ \A i \in DOMAIN frames : i # 1 => frames'[i] = frames[i]
        /\ 1 \in DOMAIN frames => frames'[1] = [frames[1] EXCEPT !.valid = FALSE]
    BY Zenon DEF Disabled
  <1>2. ASSUME NEW i \in DOMAIN frames
        PROVE  FrameOK(frames'[i])
    <2>1. FrameOK(frames[i])
      BY DEF StoreOK
    <2> QED
      BY <1>1, <2>1 DEF FrameOK
  <1> QED
    BY <1>1, <1>2 DEF StoreOK

LEMMA ApplyBeginValues ==
    ASSUME IInv, VInv, IInv', ApplyBegin
    PROVE  VInv'
  <1> DEFINE kont == [k |-> "begin", rest |-> List(Tail(args))]
  <1>1. /\ Running("begin") /\ frames' = Disabled
        /\ program' = program /\ outputs' = outputs /\ vars' = vars /\ funcs' = funcs
        /\ \/ mode' = Return(FALSE) /\ konts' = konts
           \/ /\ args # <<>> /\ mode' = Evaluate(args[1])
              /\ konts' = Push(kont)
    BY Zenon DEF ApplyBegin, Fails
  <1>2. mode.k = "apply" /\ StoreOK'
    BY <1>1, ValueFacts, DisabledOK DEF Running
  <1> HIDE DEF kont
  <1>3. CASE mode' = Return(FALSE) /\ konts' = konts
    BY <1>1, <1>2, <1>3, ValueFacts, ModesOK, ValuesKept DEF Working
  <1>4. CASE args # <<>> /\ mode' = Evaluate(args[1]) /\ konts' = Push(kont)
    <2>1. IsSExpr(args[1])
      BY <1>2, <1>4, AppliedFacts, StackFacts
    <2>2. IsSExpr(List(Tail(args))) /\ IsList(List(Tail(args)))
      BY <1>2, <1>4, AppliedFacts, TailOfList DEF IsValue, IsList, List
    <2>3. KontOK(kont)
      BY <2>2, OperandWaits, AtomsAreSExprs DEF kont, MayBeWaitedFor
    <2>4. KontsOK(konts')
      BY <1>4, <2>3, ValueFacts, KontsPushedOK DEF Push
    <2> QED
      BY <1>1, <1>2, <1>4, <2>1, <2>4, ValueFacts, ModesOK, ValuesKept DEF Working
  <1> QED
    BY <1>1, <1>3, <1>4 DEF kont

LEMMA BeginValueValues ==
    ASSUME IInv, VInv, IInv', BeginValue
    PROVE  VInv'
  <1> DEFINE kont == konts[1]
             next == [kont EXCEPT !.rest = Cdr(kont.rest)]
  <1>1. /\ mode.k = "return" /\ kont.k = "begin"
        /\ program' = program /\ outputs' = outputs
        /\ frames' = frames /\ vars' = vars /\ funcs' = funcs
        /\ \/ /\ kont.rest # Nil /\ mode' = Evaluate(Car(kont.rest))
              /\ konts' = <<next>> \o Below
           \/ mode' = mode /\ konts' = Below
    BY Zenon DEF BeginValue
  <1>2. /\ IsList(kont.rest) /\ IsSExpr(kont.rest) /\ "rest" \in DOMAIN kont
        /\ "k" \in DOMAIN kont /\ "result" \notin DOMAIN kont
    BY <1>1, ValueFacts DEF KontOK, Working, Waiting
  <1>3. /\ DOMAIN next = DOMAIN kont /\ next.k = kont.k /\ next.rest = Cdr(kont.rest)
    BY <1>2, Zenon
  <1> HIDE DEF next
  <1>4. CASE mode' = mode /\ konts' = Below
    BY <1>1, <1>4, PopValues
  <1>5. CASE /\ kont.rest # Nil /\ mode' = Evaluate(Car(kont.rest))
             /\ konts' = <<next>> \o Below
    <2>1. IsPair(kont.rest)
      BY <1>2, <1>5 DEF IsPair, IsCons, IsList
    <2>2. /\ IsSExpr(Car(kont.rest)) /\ IsSExpr(Cdr(kont.rest))
          /\ Cdr(kont.rest) = List(Tail(kont.rest[2]))
      BY <1>2, <2>1, PartsAreSExprs DEF IsValue
    <2>3. IsList(Cdr(kont.rest))
      BY <2>2 DEF IsList, List
    <2>4. KontOK(next)
      BY <1>1, <1>2, <1>3, <2>2, <2>3 DEF KontOK, Waiting
    <2>5. KontsOK(konts')
      BY <1>1, <1>5, <2>4, ValueFacts, KontsPushedOK DEF Working
    <2> QED
      BY <1>1, <1>5, <2>2, <2>5, ValueFacts, StoreSame, ModesOK, ValuesKept DEF Working
  <1> QED
    BY <1>1, <1>4, <1>5 DEF next

LEMMA ApplyLetValues ==
    ASSUME IInv, VInv, IInv', ApplyLet
    PROVE  VInv'
  <1> DEFINE kont == [k |-> "let", name |-> args[1], result |-> Nil]
  <1>1. /\ Running("let") /\ frames' = Disabled
        /\ program' = program /\ outputs' = outputs /\ vars' = vars /\ funcs' = funcs
        /\ \/ mode' = Return(FALSE) /\ konts' = konts
           \/ mode' = Evaluate(args[2]) /\ konts' = Push(kont)
    BY Zenon DEF ApplyLet, Fails
  <1>2. mode.k = "apply" /\ StoreOK' /\ IsSExpr(args[2])
    BY <1>1, ValueFacts, DisabledOK, OperandsFacts DEF Running
  <1>3. KontOK(kont)
    <2>1. "let" \in Builtins
      BY DEF Builtins, TwoArguments
    <2>2. Sym("let") \in Vocabulary
      BY <1>1, <2>1, RunningFacts
    <2> QED
      BY <2>2, OperandWaits, AtomsAreSExprs DEF MayBeWaitedFor
  <1> HIDE DEF kont
  <1>4. KontsOK(konts')
    BY <1>1, <1>3, ValueFacts, KontsPushedOK DEF Push
  <1> QED
    BY <1>1, <1>2, <1>4, ModesOK, ValuesKept DEF Working

LEMMA ApplySetValues ==
    ASSUME IInv, VInv, IInv', ApplySet
    PROVE  VInv'
  <1> DEFINE kont == [k |-> "set", name |-> args[1], result |-> Nil]
  <1>1. /\ Running("set") /\ frames' = frames
        /\ program' = program /\ outputs' = outputs /\ vars' = vars /\ funcs' = funcs
        /\ \/ mode' = Return(FALSE) /\ konts' = konts
           \/ mode' = Evaluate(args[2]) /\ konts' = Push(kont)
    BY Zenon DEF ApplySet, Fails
  <1>2. mode.k = "apply" /\ StoreOK' /\ IsSExpr(args[2])
    BY <1>1, ValueFacts, StoreSame, OperandsFacts DEF Running
  <1>3. KontOK(kont)
    <2>1. "set" \in Builtins
      BY DEF Builtins, TwoArguments
    <2>2. Sym("set") \in Vocabulary
      BY <1>1, <2>1, RunningFacts
    <2> QED
      BY <2>2, OperandWaits, AtomsAreSExprs DEF MayBeWaitedFor
  <1> HIDE DEF kont
  <1>4. KontsOK(konts')
    BY <1>1, <1>3, ValueFacts, KontsPushedOK DEF Push
  <1> QED
    BY <1>1, <1>2, <1>4, ModesOK, ValuesKept DEF Working

LEMMA LetValueValues ==
    ASSUME IInv, VInv, IInv', LetValue
    PROVE  VInv'
  <1>1. mode.k = "return" /\ konts[1].k = "let"
    BY ModesOK DEF LetValue
  <1>2. CASE Crash
    BY <1>1, <1>2, CrashKeepsValues DEF Working
  <1>3. CASE ~Crash
    <2> DEFINE names == <<konts[1].name>>
               values == <<konts[1].result>>
    <2>1. /\ konts[1].result # Stale /\ mode' = mode
          /\ program' = program /\ outputs' = outputs /\ funcs' = funcs
          /\ Bind(names, values)
          /\ \E collect \in BOOLEAN : konts' = Collected(Below, collect)
      BY <1>3, Zenon DEF LetValue
    <2>2. IsValue(konts[1].result)
      BY <1>1, <2>1, ValueFacts DEF KontOK, Working, Waiting
    <2>3. IsStack(names) /\ AllValues(values) /\ Len(names) = Len(values)
      <3>1. /\ names \in Seq({konts[1].name}) /\ values \in Seq({konts[1].result})
            /\ Len(names) = 1 /\ Len(values) = 1
            /\ \A i \in DOMAIN values : values[i] = konts[1].result
        OBVIOUS
      <3> HIDE DEF names, values
      <3> QED
        BY <2>2, <3>1, IsStackFacts DEF AllValues
    <2> HIDE DEF names, values
    <2>4. /\ IsStack(frames) /\ (\A i \in DOMAIN frames : FrameOK(frames[i]))
          /\ EnvOK(vars)
      BY ValueFacts DEF StoreOK
    <2>5. (\A i \in DOMAIN frames' : FrameOK(frames'[i])) /\ EnvOK(vars')
      BY <2>1, <2>3, <2>4, BindOK, Zenon
    <2>6. StoreOK'
      BY <2>1, <2>5, ValueFacts DEF StoreOK
    <2>7. KontsOK(konts')
      BY <1>1, <2>1, ValueFacts, KontsCollectedOK DEF Working
    <2> QED
      BY <1>1, <2>1, <2>6, <2>7, ValueFacts, ValuesKept DEF Working
  <1> QED
    BY <1>2, <1>3

LEMMA SetValueValues ==
    ASSUME IInv, VInv, IInv', SetValue
    PROVE  VInv'
  <1>1. mode.k = "return" /\ konts[1].k = "set"
    BY ModesOK DEF SetValue
  <1>2. CASE Crash
    BY <1>1, <1>2, CrashKeepsValues DEF Working
  <1>3. CASE ~Crash
    <2>1. /\ konts[1].result # Stale /\ mode' = mode
          /\ program' = program /\ outputs' = outputs /\ frames' = frames /\ funcs' = funcs
          /\ vars' = EnvSet(vars, Name(konts[1].name), konts[1].result)
          /\ \E collect \in BOOLEAN : konts' = Collected(Below, collect)
      BY <1>3, Zenon DEF SetValue
    <2>2. IsValue(konts[1].result)
      BY <1>1, <2>1, ValueFacts DEF KontOK, Working, Waiting
    <2>3. EnvOK(vars')
      BY <2>1, <2>2, ValueFacts, EnvSetOK DEF StoreOK
    <2>4. StoreOK'
      BY <2>1, <2>3, ValueFacts DEF StoreOK
    <2>5. KontsOK(konts')
      BY <1>1, <2>1, ValueFacts, KontsCollectedOK DEF Working
    <2> QED
      BY <1>1, <2>1, <2>4, <2>5, ValueFacts, ValuesKept DEF Working
  <1> QED
    BY <1>2, <1>3

\* What define stores is a structure.
LEMMA DefinedStructure ==
    ASSUME IInv, VInv, Running("define"), ~(Len(args) < 3), IsSymbol(args[1])
    PROVE  LET def == List(<<args[2], Cons(Sym("begin"), Cddr(mode.args))>>)
               f   == FunctionStruct(args[1], def) IN
           FunctionDefError(def) = NoError => IsValue(f) /\ IsFunctionStruct(f)
  <1> DEFINE body == Cons(Sym("begin"), Cddr(mode.args))
             s == <<args[2], body>>
             def == List(s)
  <1>1. mode.k = "apply" /\ mode.args[2] = args
    BY DEF Running, args
  <1>2. /\ IsSExpr(mode.args) /\ mode.args = List(args)
        /\ IsStack(args) /\ IsList(mode.args)
        /\ \A i \in DOMAIN args : IsSExpr(args[i])
    BY <1>1, AppliedFacts
  <1>3. 1 \in DOMAIN args /\ 2 \in DOMAIN args
    BY <1>2, StackFacts
  <1>4. args # <<>> /\ Tail(args) # <<>>
    <2>1. PICK n \in Nat : n + 1 = Len(args) /\ n # 0
      <3>1. Len(args) \in Nat /\ Len(args) - 1 \in Nat
        BY <1>2, StackFacts
      <3> QED
        BY <3>1
    <2> QED
      BY <1>2, <2>1, PoppedFrom
  <1>5. IsValue(Cddr(mode.args))
    <2>1. \A t : IsSExpr(List(t)) /\ t # <<>> =>
                   IsValue(Cdr(List(t))) /\ Cdr(List(t)) = List(Tail(t))
      <3> TAKE t
      <3> HAVE IsSExpr(List(t)) /\ t # <<>>
      <3>1. IsPair(List(t)) /\ IsList(List(t)) /\ List(t)[2] = t
        BY DEF IsPair, IsCons, IsList, List, Nil
      <3> QED
        BY <3>1, PartsAreSExprs
    <2>2. IsSExpr(List(Tail(args))) /\ Cdr(mode.args) = List(Tail(args))
      BY <1>2, <1>4, <2>1 DEF IsValue
    <2> QED
      BY <1>4, <2>1, <2>2 DEF Cddr
  <1>6. IsValue(body)
    BY <1>5, AtomsAreSExprs, ConsIsValue
  <1> HIDE DEF body
  <1>7. s[1] = args[2] /\ s[2] = body /\ DOMAIN s = 1 .. 2 /\ s \in Seq({args[2], body})
    OBVIOUS
  <1> HIDE DEF s
  <1> SUFFICES ASSUME FunctionDefError(def) = NoError
               PROVE  /\ IsValue(FunctionStruct(args[1], def))
                      /\ IsFunctionStruct(FunctionStruct(args[1], def))
    BY DEF def, s, body
  <1>8. /\ IsList(args[2]) /\ IsParameters(args[2])
    <2>1. Car(def) = args[2]
      BY <1>7 DEF Car, List
    <2>2. IsList(Car(def)) /\ \A i \in DOMAIN Car(def)[2] : IsSymbol(Car(def)[2][i])
      BY DefinitionShape
    <2> QED
      BY <2>1, <2>2 DEF IsParameters, IsList, IsCons
  <1>9. IsSExpr(def)
    <2>1. IsStack(s) /\ \A i \in DOMAIN s : i = 1 \/ i = 2
      BY <1>7, IsStackFacts
    <2>2. args[2] # FunctionMark /\ body # FunctionMark /\ IsSExpr(body)
      BY <1>6, <1>8 DEF IsValue, IsList, FunctionMark, Sym
    <2>3. \A i \in DOMAIN s : IsSExpr(s[i]) /\ s[i] # FunctionMark
      BY <1>2, <1>3, <1>7, <2>1, <2>2
    <2> QED
      BY <2>1, <2>3, ListBuilt DEF IsValue
  <1>10. args[1] # FunctionMark
    <2>1. IsCons(mode.args)
      BY <1>2 DEF IsCons, IsList
    <2>2. args[1] = FunctionMark => StructureAt(args, 1)
      BY <1>1, <1>2, <1>3, <2>1, SExprShape
    <2>3. 1 + 1 = 2
      OBVIOUS
    <2> QED
      BY <1>8, <2>2, <2>3, Zenon DEF StructureAt
  <1>11. IsValue(args[1]) /\ ~IsParameters(args[1])
    BY <1>2, <1>3, <1>10 DEF IsValue, IsParameters, IsSymbol, IsCons
  <1> QED
    BY <1>9, <1>11, StructureBuilt

LEMMA ApplyDefineValues ==
    ASSUME IInv, VInv, IInv', ApplyDefine
    PROVE  VInv'
  <1> DEFINE def == List(<<args[2], Cons(Sym("begin"), Cddr(mode.args))>>)
             f == FunctionStruct(args[1], def)
  <1>1. /\ Running("define")
        /\ program' = program /\ outputs' = outputs /\ frames' = frames /\ vars' = vars
    BY DEF ApplyDefine
  <1>2. mode.k = "apply"
    BY <1>1 DEF Running
  <1>3. CASE Len(args) < 3 \/ ~IsSymbol(args[1])
    <2>1. mode' = Return(FALSE) /\ konts' = konts /\ funcs' = funcs
      BY <1>3, Zenon DEF ApplyDefine, Fails
    <2> QED
      BY <1>1, <1>2, <2>1, ValueFacts, StoreSame, ModesOK, ValuesKept DEF Working
  <1>4. CASE ~(Len(args) < 3) /\ IsSymbol(args[1])
    <2>1. /\ \E collect : konts' = Collected(konts, collect)
          /\ mode' \in {Return(TRUE), Return(FALSE), Fault}
          /\ \/ funcs' = funcs
             \/ FunctionDefError(def) = NoError /\ funcs' = EnvSet(funcs, Name(args[1]), f)
      <3>1. PICK collections \in 0 .. 2 :
              /\ konts' = Collected(konts, collections > 0)
              /\ \/ /\ FunctionDefError(def) = NoError /\ mode' = Return(TRUE)
                    /\ funcs' = EnvSet(funcs, Name(args[1]), f)
                 \/ /\ mode' = IF collections = 2 THEN Fault ELSE Return(FALSE)
                    /\ funcs' = funcs
        BY <1>4, Zenon DEF ApplyDefine
      <3> HIDE DEF def, f
      <3> QED
        BY <3>1
    <2>2. KontsOK(konts')
      BY <2>1, ValueFacts, KontsCollectedOK
    <2>3. konts' # <<>>
      <3>1. IsKonts(konts') /\ Kinds(konts') = Kinds(konts)
        BY <2>1, ValueFacts, KontsCollected
      <3>2. konts # <<>> /\ IsKonts(konts)
        BY <1>2, ValueFacts DEF Working
      <3> QED
        BY <3>1, <3>2, KindsType
    <2>4. FunctionDefError(def) = NoError => IsValue(f) /\ IsFunctionStruct(f)
      BY <1>1, <1>4, DefinedStructure
    <2> HIDE DEF def, f
    <2>5. FuncsOK(funcs')
      BY <2>1, <2>4, ValueFacts, EnvSetOK DEF StoreOK, FuncsOK
    <2>6. StoreOK'
      BY <1>1, <2>5, ValueFacts DEF StoreOK
    <2>7. ModeOK(mode') /\ mode'.k \in {"return", "fault"}
      BY <2>1, ModesOK
    <2> QED
      BY <1>1, <1>2, <2>2, <2>3, <2>6, <2>7, ValuesKept DEF Working
  <1> QED
    BY <1>3, <1>4

LEMMA ApplyLambdaOutcomes ==
    ASSUME IInv, VInv, ApplyLambda
    PROVE  \/ mode' = Return(FALSE) /\ konts' = konts
           \/ mode' = Return(TRUE) /\ Delivers
  <1> DEFINE id == Cons(Sym("lambda"), mode.args)
             f == FunctionStruct(id, mode.args)
  <1>1. /\ Running("lambda")
        /\ \/ mode' = Return(FALSE) /\ konts' = konts
           \/ /\ FunctionDefError(mode.args) = NoError /\ mode' = Return(TRUE)
              /\ \E collect \in BOOLEAN : konts' = Deliver(Collected(konts, collect), f)
    BY Zenon DEF ApplyLambda, Fails
  <1>2. mode.k = "apply" /\ mode.args[2] = args
    BY <1>1 DEF Running, args
  <1>3. CASE mode' = Return(FALSE) /\ konts' = konts
    BY <1>3
  <1>4. CASE /\ FunctionDefError(mode.args) = NoError /\ mode' = Return(TRUE)
             /\ \E collect \in BOOLEAN : konts' = Deliver(Collected(konts, collect), f)
    <2>1. IsSExpr(mode.args) /\ mode.args = List(args) /\ IsStack(args) /\ IsList(mode.args)
      BY <1>2, AppliedFacts
    <2>2. IsValue(mode.args)
      BY <2>1 DEF IsValue, IsList, FunctionMark, Sym
    <2>3. IsValue(id)
      BY <2>2, AtomsAreSExprs, ConsIsValue
    <2>4. ~IsParameters(id)
      <3> DEFINE s == <<Sym("lambda")>> \o args
      <3>1. id = List(s) /\ id[2] = s
        BY <1>2, <2>1 DEF Cons, List, IsList
      <3>2. /\ IsStack(s) /\ Len(s) = Len(args) + 1
            /\ \A i \in 1 .. Len(args) : s[i + 1] = args[i]
        BY <2>1, StackPushed
      <3>3. Len(args) = 2 /\ IsList(args[1])
        BY <1>2, <1>4, DefinitionShape DEF Car
      <3> HIDE DEF s
      <3>4. DOMAIN s = 1 .. 3 /\ s[2] = args[1]
        <4>1. 2 + 1 = 3 /\ 1 + 1 = 2 /\ 1 \in 1 .. 2
          OBVIOUS
        <4> QED
          BY <3>2, <3>3, <4>1, StackFacts, Zenon
      <3>5. 2 \in DOMAIN s /\ ~IsSymbol(s[2])
        BY <3>3, <3>4 DEF IsList, IsSymbol
      <3> QED
        BY <3>1, <3>5, Zenon DEF IsParameters
    <2>5. IsValue(f)
      BY <1>4, <2>1, <2>3, <2>4, StructureBuilt
    <2> HIDE DEF f
    <2> QED
      BY <1>4, <2>5, Zenon DEF Delivers
  <1> QED
    BY <1>1, <1>3, <1>4

LEMMA ApplyLambdaValues ==
    ASSUME IInv, VInv, IInv', ApplyLambda
    PROVE  VInv'
  <1>1. /\ mode.k = "apply" /\ program' = program /\ outputs' = outputs
        /\ frames' = frames /\ vars' = vars /\ funcs' = funcs
    BY DEF ApplyLambda, Running
  <1> QED
    BY <1>1, ApplyLambdaOutcomes, AnswerKeepsValues

\* function fails, hands over what is defined, or makes a structure of a built-in.
LEMMA ApplyFunctionOutcomes ==
    ASSUME IInv, VInv, ApplyFunction
    PROVE  \/ mode' = Return(FALSE) /\ konts' = konts
           \/ mode' = Return(TRUE) /\ Delivers
           \/ FunctionOfBuiltin /\ mode' \in {Return(TRUE), Fault} /\ Delivers
  <1> DEFINE f == FunctionStruct(args[1], List(<<Nil, Nil>>))
             g == EnvLookup(funcs, Name(args[1]))
  <1>1. Running("function")
    BY DEF ApplyFunction
  <1>2. \/ mode' = Return(FALSE) /\ konts' = konts
        \/ /\ EnvFinds(funcs, Name(args[1])) /\ konts' = Deliver(konts, g)
           /\ mode' = Return(TRUE)
        \/ /\ FunctionOfBuiltin /\ mode' \in {Return(TRUE), Fault}
           /\ \E collect \in BOOLEAN : konts' = Deliver(Collected(konts, collect), f)
    <2>1. CASE ~IsSymbol(args[1])
      BY <2>1, Zenon DEF ApplyFunction, Fails
    <2>2. CASE IsSymbol(args[1]) /\ EnvFinds(funcs, Name(args[1]))
      BY <2>2, Zenon DEF ApplyFunction
    <2>3. CASE /\ IsSymbol(args[1]) /\ ~EnvFinds(funcs, Name(args[1]))
               /\ IsBuiltin(args[1])
      <3>1. \A c : mode' \in (IF c THEN {Return(TRUE), Fault} ELSE {Return(TRUE)})
                     => mode' \in {Return(TRUE), Fault}
        BY Zenon
      <3>2. \E collect \in BOOLEAN :
               /\ konts' = Deliver(Collected(konts, collect), f)
               /\ mode' \in IF collect THEN {Return(TRUE), Fault} ELSE {Return(TRUE)}
        BY <2>3, Zenon DEF ApplyFunction
      <3>3. FunctionOfBuiltin
        BY <1>1, <2>3 DEF FunctionOfBuiltin
      <3> QED
        BY <3>1, <3>2, <3>3, Zenon
    <2>4. CASE /\ IsSymbol(args[1]) /\ ~EnvFinds(funcs, Name(args[1]))
               /\ ~IsBuiltin(args[1])
      BY <2>4, Zenon DEF ApplyFunction, Fails
    <2> QED
      BY <2>1, <2>2, <2>3, <2>4, Zenon
  <1>3. mode.k = "apply" /\ IsSExpr(args[1])
    BY <1>1, OperandsFacts DEF Running
  <1>4. CASE mode' = Return(FALSE) /\ konts' = konts
    BY <1>4
  <1>5. CASE /\ EnvFinds(funcs, Name(args[1])) /\ konts' = Deliver(konts, g)
             /\ mode' = Return(TRUE)
    <2>1. IsValue(g)
      <3>1. FuncsOK(funcs) /\ EnvOK(funcs)
        BY ValueFacts DEF StoreOK, FuncsOK
      <3>2. PICK i \in DOMAIN funcs.values : g = funcs.values[i]
        BY <1>5, <3>1, LookupIsOne
      <3> QED
        BY <3>1, <3>2 DEF EnvOK
    <2> HIDE DEF g
    <2> QED
      BY <1>5, <2>1, DeliveredAtOnce
  <1>6. CASE /\ FunctionOfBuiltin /\ mode' \in {Return(TRUE), Fault}
             /\ \E collect \in BOOLEAN : konts' = Deliver(Collected(konts, collect), f)
    <2>1. IsValue(args[1]) /\ ~IsParameters(args[1])
      <3>1. args[1] # FunctionMark
        <4>1. "'function" \notin Builtins
          BY DEF Builtins, OneArgument, TwoArguments, Predicates, Arithmetic, Comparisons,
                 Equalities, Variadic
        <4> QED
          BY <1>6, <4>1 DEF FunctionOfBuiltin, IsBuiltin, FunctionMark, Sym, Name
      <3> QED
        BY <1>3, <1>6, <3>1
           DEF FunctionOfBuiltin, IsValue, IsBuiltin, IsParameters, IsSymbol, IsCons
    <2>2. /\ IsSExpr(List(<<Nil, Nil>>))
          /\ FunctionDefError(List(<<Nil, Nil>>)) = NoError
      <3> DEFINE s == <<Nil, Nil>>
      <3>1. s \in Seq({Nil}) /\ Len(s) = 2 /\ \A i \in DOMAIN s : s[i] = Nil
        OBVIOUS
      <3>2. s[1] = Nil
        OBVIOUS
      <3> HIDE DEF s
      <3>3. IsSExpr(List(s))
        BY <3>1, IsStackFacts, AtomsAreSExprs, ListBuilt DEF IsValue
      <3>4. Car(List(s)) = Nil /\ IsList(List(s)) /\ List(s)[2] = s
        BY <3>2 DEF Car, List, IsList
      <3>5. IsCons(Nil) /\ IsList(Nil) /\ \A i \in DOMAIN Nil[2] : FALSE
        BY DEF Nil, List, IsCons, IsList
      <3>6. FunctionDefError(List(s)) = NoError
        BY <3>1, <3>4, <3>5, Zenon DEF FunctionDefError
      <3> QED
        BY <3>3, <3>6 DEF s
    <2>3. IsValue(f)
      BY <2>1, <2>2, StructureBuilt
    <2> HIDE DEF f
    <2> QED
      BY <1>6, <2>3, Zenon DEF Delivers
  <1> QED
    BY <1>2, <1>4, <1>5, <1>6

LEMMA ApplyFunctionValues ==
    ASSUME IInv, VInv, IInv', ApplyFunction
    PROVE  VInv'
  <1>1. /\ mode.k = "apply" /\ program' = program /\ outputs' = outputs
        /\ frames' = frames /\ vars' = vars /\ funcs' = funcs
    BY DEF ApplyFunction, Running
  <1> QED
    BY <1>1, ApplyFunctionOutcomes, AnswerKeepsValues

\* funcall takes apart what function, lambda and define have put together.
LEMMA FuncallTakesApart ==
    ASSUME IInv, VInv, Running("funcall"), FuncallError = NoError
    PROVE  LET f == Lookup(Name(args[1])) IN
           /\ args # <<>>
           /\ IsList(f) /\ Len(f[2]) = 4 /\ FunctionDefError(Cddr(f)) = NoError
           /\ IsSExpr(Cadr(f)) /\ IsSExpr(Cddr(f))
  <1> DEFINE f == Lookup(Name(args[1]))
  <1>1. args # <<>> /\ Found(Name(args[1])) /\ IsFunctionStruct(f)
    BY Zenon DEF FuncallError, NoError
  <1>2. /\ IsStack(frames) /\ (\A i \in DOMAIN frames : FrameOK(frames[i]))
        /\ EnvOK(vars)
    BY ValueFacts DEF StoreOK
  <1>3. IsSExpr(f)
    BY <1>1, <1>2, FoundValue DEF IsValue
  <1> HIDE DEF f
  <1>4. /\ IsList(f) /\ Len(f[2]) = 4 /\ FunctionDefError(Cddr(f)) = NoError
        /\ IsSExpr(Cadr(f)) /\ IsSExpr(Cddr(f))
    BY <1>1, <1>3, StructureShape
  <1> QED
    BY <1>1, <1>4 DEF f

LEMMA ApplyFuncallValues ==
    ASSUME IInv, VInv, IInv', ApplyFuncall
    PROVE  VInv'
  <1> DEFINE f == Lookup(Name(args[1]))
  <1>1. /\ Running("funcall")
        /\ program' = program /\ outputs' = outputs
        /\ frames' = frames /\ vars' = vars /\ funcs' = funcs
        /\ \/ mode' = Return(FALSE) /\ konts' = konts
           \/ /\ FuncallError = NoError /\ mode' = Call(Cadr(f), Cddr(f), List(Tail(args)))
              /\ konts' = Push([k |-> "funcall"])
    BY Zenon DEF ApplyFuncall, Fails
  <1>2. mode.k = "apply"
    BY <1>1 DEF Running
  <1>3. CASE mode' = Return(FALSE) /\ konts' = konts
    BY <1>1, <1>2, <1>3, ValueFacts, StoreSame, ModesOK, ValuesKept DEF Working
  <1>4. CASE /\ FuncallError = NoError /\ mode' = Call(Cadr(f), Cddr(f), List(Tail(args)))
             /\ konts' = Push([k |-> "funcall"])
    <2>1. /\ args # <<>> /\ FunctionDefError(Cddr(f)) = NoError
          /\ IsSExpr(Cadr(f)) /\ IsSExpr(Cddr(f))
      BY <1>1, <1>4, FuncallTakesApart
    <2> HIDE DEF f
    <2>2. Callable(Cadr(f), Cddr(f))
      BY <2>1 DEF Callable
    <2>3. IsSExpr(List(Tail(args)))
      BY <1>2, <2>1, AppliedFacts, TailOfList DEF IsValue
    <2>4. KontsOK(konts')
      BY <1>4, ValueFacts, PlainPushed DEF Push
    <2> QED
      BY <1>1, <1>2, <1>4, <2>2, <2>3, <2>4, ValueFacts, StoreSame, ModesOK, ValuesKept
         DEF Working
  <1> QED
    BY <1>1, <1>3, <1>4

LEMMA ReadValues ==
    ASSUME IInv, VInv, IInv', Read
    PROVE  VInv'
  <1> DEFINE kont == [k |-> "eval", result |-> Nil]
             n == Len(outputs)
  <1>1. /\ n < Len(program) /\ mode' = Evaluate(program[n + 1]) /\ konts' = <<kont>>
        /\ frames' = <<>> /\ program' = program /\ outputs' = outputs
        /\ vars' = vars /\ funcs' = funcs
    BY DEF Read
  <1>2. /\ program \in Programs /\ IsStack(outputs) /\ StoreOK
    BY DEF VInv
  <1>3. KontOK(kont)
    BY OperandWaits, AtomsAreSExprs DEF MayBeWaitedFor
  <1> HIDE DEF kont
  <1>4. konts' # <<>> /\ KontsOK(konts')
    <2>1. <<kont>> # <<>> /\ \A i \in DOMAIN <<kont>> : <<kont>>[i] = kont
      OBVIOUS
    <2> QED
      BY <1>1, <1>3, <2>1 DEF KontsOK
  <1>5. IsSExpr(program[n + 1])
    <2>1. program \in Seq(Forms)
      BY <1>2, ProgramsAssumption
    <2>2. n \in Nat
      BY <1>2, StackFacts
    <2>3. program[n + 1] \in Forms
      BY <1>1, <2>1, <2>2
    <2> QED
      BY <2>3, FormsAreValues DEF IsValue
  <1>6. StoreOK'
    <2>1. \A i \in DOMAIN frames' : FALSE
      BY <1>1
    <2> QED
      BY <1>1, <1>2, <2>1 DEF StoreOK
  <1>7. ModeOK(mode') /\ mode'.k = "eval"
    BY <1>1, <1>5, ModesOK
  <1> QED
    BY <1>1, <1>2, <1>4, <1>6, <1>7 DEF VInv

LEMMA FinishValues ==
    ASSUME IInv, VInv, IInv', Finish
    PROVE  VInv'
  <1>1. mode.k = "return"
    BY DEF Finish
  <1>2. CASE Crash
    BY <1>1, <1>2, CrashKeepsValues DEF Working
  <1>3. CASE ~Crash
    <2>1. /\ \E v : outputs' = Append(outputs, v)
          /\ mode' = Idle /\ konts' = <<>> /\ program' = program
          /\ frames' = frames /\ vars' = vars /\ funcs' = funcs
      BY <1>3, Zenon DEF Finish
    <2>2. /\ program \in Programs /\ IsStack(outputs) /\ Len(outputs) < Len(program)
          /\ StoreOK
      BY <1>1 DEF VInv, Working
    <2>3. IsStack(outputs') /\ Len(outputs') <= Len(program)
      <3> PICK v : outputs' = Append(outputs, v)
        BY <2>1
      <3> DEFINE S == {outputs[i] : i \in DOMAIN outputs} \cup {v}
      <3>1. outputs \in Seq({outputs[i] : i \in DOMAIN outputs})
        BY <2>2, StackFacts
      <3>2. outputs \in Seq(S) /\ v \in S
        BY <3>1
      <3> HIDE DEF S
      <3>3. outputs' \in Seq(S) /\ Len(outputs') = Len(outputs) + 1
        BY <3>2
      <3>4. Len(program) \in Nat /\ Len(outputs) \in Nat
        BY <2>2, <3>2, ProgramsAssumption
      <3>5. \A m, n \in Nat : m < n => m + 1 <= n
        OBVIOUS
      <3>6. Len(outputs') <= Len(program)
        BY <2>2, <3>3, <3>4, <3>5, Zenon
      <3>7. IsStack(outputs')
        BY <3>3, IsStackFacts
      <3> QED
        BY <3>6, <3>7
    <2>4. KontsOK(konts')
      <3>1. \A i \in DOMAIN <<>> : FALSE
        OBVIOUS
      <3> QED
        BY <2>1, <3>1 DEF KontsOK
    <2>5. StoreOK'
      BY <2>1, <2>2, StoreSame
    <2>6. mode'.k = "idle" /\ ModeOK(mode')
      BY <2>1, ModesOK
    <2> QED
      BY <2>1, <2>2, <2>3, <2>4, <2>5, <2>6 DEF VInv, Working
  <1> QED
    BY <1>2, <1>3

LEMMA StutterKeepsValues ==
    ASSUME VInv, UNCHANGED state
    PROVE  VInv'
  BY DEF VInv, state, StoreOK, KontsOK, ModeOK

LEMMA ValuesHoldAtFirst ==
    ASSUME Init
    PROVE  VInv /\ Ample
  <1>1. /\ program \in Programs /\ outputs = <<>> /\ mode = Idle /\ konts = <<>>
        /\ frames = <<>> /\ vars = EnvInit /\ funcs = EnvInit
    BY DEF Init
  <1>2. IsStack(<<>>) /\ Len(<<>>) = 0 /\ \A i \in DOMAIN <<>> : FALSE
    <2>1. <<>> \in Seq({}) /\ Len(<<>>) = 0 /\ \A i \in DOMAIN <<>> : FALSE
      OBVIOUS
    <2> QED
      BY <2>1, IsStackFacts
  <1>3. Len(outputs) <= Len(program)
    <2>1. Len(program) \in Nat
      BY <1>1, ProgramsAssumption
    <2> QED
      BY <1>1, <1>2, <2>1
  <1>4. StoreOK /\ KontsOK(konts)
    BY <1>1, <1>2, EnvInitOK DEF StoreOK, KontsOK
  <1>5. mode.k = "idle" /\ ModeOK(mode)
    BY <1>1, ModesOK
  <1>6. Ample
    BY InitEstablishes DEF Ample, Balanced
  <1> QED
    BY <1>1, <1>2, <1>3, <1>4, <1>5, <1>6 DEF VInv, Working

\* What is evaluated, bound, passed and waited for stays well formed.
LEMMA StepKeepsValues ==
    ASSUME IInv, VInv, [Next]_state
    PROVE  VInv'
  <1>1. IInv'
    BY StepKeeps
  <1>2. CASE Read \/ Finish
    BY <1>1, <1>2, ReadValues, FinishValues
  <1>3. CASE EvalConstant \/ EvalSymbol \/ EvalCall \/ PassOn
    BY <1>1, <1>3, EvalConstantValues, EvalSymbolValues, EvalCallValues, PassOnValues
  <1>4. CASE EnterFunc \/ ArgumentValue \/ ArgumentFails \/ ApplyDefined \/ LeaveFunc
    BY <1>1, <1>4, EnterFuncValues, ArgumentValueValues, ArgumentFailsValues,
       ApplyDefinedValues, LeaveFuncValues
  <1>5. CASE ApplySimple \/ ApplyEval
    BY <1>1, <1>5, ApplySimpleValues, ApplyEvalValues
  <1>6. CASE ApplyAnd \/ AndFirst \/ ApplyOr \/ OrFirst \/ ApplyIf \/ IfTest
    BY <1>1, <1>6, ApplyAndValues, AndFirstValues, ApplyOrValues, OrFirstValues,
       ApplyIfValues, IfTestValues
  <1>7. CASE ApplyCond \/ CondTest \/ TailValue \/ ApplyBegin \/ BeginValue
    BY <1>1, <1>7, ApplyCondValues, CondTestValues, TailValueValues, ApplyBeginValues,
       BeginValueValues
  <1>8. CASE ApplyLet \/ LetValue \/ ApplySet \/ SetValue \/ AssignmentFails
    BY <1>1, <1>8, ApplyLetValues, LetValueValues, ApplySetValues, SetValueValues,
       AssignmentFailsValues
  <1>9. CASE ApplyDefine \/ ApplyLambda \/ ApplyFunction \/ ApplyFuncall
    BY <1>1, <1>9, ApplyDefineValues, ApplyLambdaValues, ApplyFunctionValues,
       ApplyFuncallValues
  <1>10. CASE Stopped \/ UNCHANGED state
    BY <1>10, StutterKeepsValues DEF Stopped
  <1> QED
    BY <1>2, <1>3, <1>4, <1>5, <1>6, <1>7, <1>8, <1>9, <1>10 DEF Next, Step

\* No step drops a root that it did not make, and at most one is left behind.
LEMMA StepKeepsRoots ==
    ASSUME IInv, Ample, [Next]_state
    PROVE  Ample'
  <1>1. PICK n \in Nat : n >= 2 /\ Rooted(n)
    BY DEF Ample
  <1>2. Rooted(n)' \/ Rooted(n + 1)'
    BY <1>1, StepKeeps
  <1>3. n + 1 \in Nat /\ n + 1 >= 2
    BY <1>1
  <1> QED
    BY <1>1, <1>2, <1>3 DEF Ample

LEMMA ValuesHold == Spec => [](IInv /\ VInv /\ Ample)
  <1>1. Init => IInv /\ VInv /\ Ample
    BY InitEstablishes, ValuesHoldAtFirst
  <1>2. IInv /\ VInv /\ Ample /\ [Next]_state => (IInv /\ VInv /\ Ample)'
    BY StepKeeps, StepKeepsValues, StepKeepsRoots
  <1> QED
    BY <1>1, <1>2, PTL DEF Spec

\* In every state each chain of symbols has its chain of values, no binding is one a
\* collection has left behind, the activations and the mode fit together, and no form
\* is answered that was not read; whatever the program does and whatever collections
\* happen.
THEOREM TypesAlwaysOK == Spec => []TypeOK
  <1>1. IInv /\ VInv /\ Ample => TypeOK
    <2> SUFFICES ASSUME IInv, VInv, Ample
                 PROVE  TypeOK
      OBVIOUS
    <2>1. program \in Programs /\ Len(outputs) <= Len(program)
      BY DEF VInv
    <2>2. /\ IsKonts(konts) /\ IsStack(Kinds(konts))
          /\ Sound(mode.k, Kinds(konts), Len(frames), error)
      BY StateFacts
    <2>3. mode.k \in {"idle", "eval", "call", "apply", "return", "fault"}
      BY <2>2 DEF Sound, Working
    <2>4. mode.k = "idle" <=> konts = <<>>
      <3>1. mode.k = "idle" => konts = <<>>
        BY <2>2, KindsType DEF Sound
      <3>2. konts = <<>> => mode.k = "idle"
        BY DEF VInv
      <3> QED
        BY <3>1, <3>2
    <2>5. \A env : EnvOK(env) => Bound(env)
      BY AtomsAreSExprs DEF EnvOK, Bound, IsValue
    <2>6. /\ \A i \in DOMAIN frames : frames[i].valid \in BOOLEAN /\ Bound(frames[i].env)
          /\ Bound(vars) /\ Bound(funcs)
      BY <2>5 DEF VInv, StoreOK, FrameOK, FuncsOK
    <2>7. nroots \in Nat
      BY StateFacts DEF Ample, Rooted
    <2> QED
      BY <2>1, <2>3, <2>4, <2>6, <2>7 DEF TypeOK
  <1> QED
    BY <1>1, ValuesHold, PTL

\* Whatever a program does with the structures of functions, funcall only ever takes
\* apart one that function, lambda or define has put together; it need not check.
THEOREM StructuresAlwaysGenuine == Spec => []StructuresAreGenuine
  <1>1. IInv /\ VInv => StructuresAreGenuine
    BY FuncallTakesApart DEF StructuresAreGenuine
  <1> QED
    BY <1>1, ValuesHold, PTL

(***************************************************************************)
(* No stale value is used: where a value that is there comes from.         *)
(***************************************************************************)
LEMMA GroundedPushed ==
    ASSUME NEW ks, Grounded(ks), NEW kont, "k" \in DOMAIN kont
    PROVE  Grounded(<<kont>> \o ks)
  <1> DEFINE t == <<kont>> \o ks
  <1>1. IsKonts(ks) /\ IsStack(ks)
    BY DEF Grounded, IsKonts
  <1>2. PICK n \in Nat : /\ n # 0 /\ Len(ks) = n /\ ks[n].k = "eval"
                         /\ "result" \in DOMAIN ks[n] /\ ks[n].result # Stale
    BY DEF Grounded
  <1>3. PICK m \in Nat : m = n + 1
    OBVIOUS
  <1>4. Len(t) = m /\ \A i \in 1 .. n : t[i + 1] = ks[i]
    BY <1>1, <1>2, <1>3, PushedOn
  <1>5. IsKonts(t)
    BY <1>1, KontsPushed
  <1> HIDE DEF t
  <1>6. m # 0 /\ n \in 1 .. n
    BY <1>2, <1>3
  <1>7. t[m] = ks[n]
    BY <1>3, <1>4, <1>6, Zenon
  <1>8. Grounded(t)
    BY <1>2, <1>4, <1>5, <1>6, <1>7, Zenon DEF Grounded
  <1> QED
    BY <1>8 DEF t

LEMMA GroundedPopped ==
    ASSUME NEW ks, Grounded(ks), ks[1].k # "eval"
    PROVE  Grounded(Tail(ks))
  <1>1. IsKonts(ks) /\ IsStack(ks)
    BY DEF Grounded, IsKonts
  <1>2. PICK n \in Nat : /\ n # 0 /\ Len(ks) = n /\ ks[n].k = "eval"
                         /\ "result" \in DOMAIN ks[n] /\ ks[n].result # Stale
    BY DEF Grounded
  <1>3. n # 1
    BY <1>2, Zenon
  <1>4. \A i \in Nat : i # 0 /\ i # 1 => \E j \in Nat : j # 0 /\ i = j + 1 /\ j \in 1 .. j
    <2> SUFFICES ASSUME NEW i \in Nat, i # 0, i # 1
                 PROVE  \E j \in Nat : j # 0 /\ i = j + 1 /\ j \in 1 .. j
      OBVIOUS
    <2>1. i - 1 \in Nat /\ i - 1 # 0 /\ i = (i - 1) + 1 /\ i - 1 \in 1 .. i - 1
      OBVIOUS
    <2> QED
      BY <2>1, Zenon
  <1>5. PICK m \in Nat : m # 0 /\ n = m + 1 /\ m \in 1 .. m
    BY <1>2, <1>3, <1>4, Zenon
  <1>6. Len(ks) = m + 1
    BY <1>2, <1>5, Zenon
  <1>7. ks # <<>> /\ Len(Tail(ks)) = m /\ Tail(ks)[m] = ks[n]
    BY <1>1, <1>5, <1>6, PoppedFrom, Zenon
  <1>8. IsKonts(Tail(ks))
    BY <1>1, <1>7, KontsPopped
  <1> QED
    BY <1>2, <1>5, <1>7, <1>8, Zenon DEF Grounded

LEMMA GroundedCollected ==
    ASSUME NEW ks, Grounded(ks), NEW collect
    PROVE  Grounded(Collected(ks, collect))
  <1> DEFINE t == Collected(ks, collect)
  <1>1. IsKonts(ks) /\ IsStack(ks)
    BY DEF Grounded, IsKonts
  <1>2. PICK n \in Nat : /\ n # 0 /\ Len(ks) = n /\ ks[n].k = "eval"
                         /\ "result" \in DOMAIN ks[n] /\ ks[n].result # Stale
    BY DEF Grounded
  <1>3. IsKonts(t) /\ Kinds(t) = Kinds(ks)
    BY <1>1, KontsCollected
  <1>4. n \in DOMAIN ks
    BY <1>1, <1>2, StackFacts
  <1>5. DOMAIN t[n] = DOMAIN ks[n] /\ t[n].k = ks[n].k /\ t[n].result = ks[n].result
    <2> DEFINE a == ks[n]
               b == Moved(a)
    <2>1. Unrooted(a) = {}
      BY <1>2, Zenon DEF Unrooted
    <2>2. DOMAIN b = DOMAIN a /\ \A f \in DOMAIN a : b[f] = a[f]
      BY <2>1, Zenon DEF Moved
    <2>3. t[n] = a \/ t[n] = b
      BY <1>4, Zenon DEF Collected
    <2>4. "k" \in DOMAIN a /\ "result" \in DOMAIN a
      BY <1>1, <1>2, <1>4 DEF IsKonts
    <2> HIDE DEF b, t
    <2> QED
      BY <2>2, <2>3, <2>4
  <1>6. Len(t) = n
    BY <1>1, <1>2, <1>3, KindsType, Zenon
  <1> HIDE DEF t
  <1>7. Grounded(t)
    BY <1>2, <1>3, <1>5, <1>6, Zenon DEF Grounded
  <1> QED
    BY <1>7 DEF t

LEMMA GroundedDelivered ==
    ASSUME NEW ks, Grounded(ks), NEW v, v # Stale
    PROVE  Grounded(Deliver(ks, v)) /\ Given(Deliver(ks, v))
  <1> DEFINE Takes(j) == /\ "result" \in DOMAIN ks[j]
                         /\ \A m \in 1 .. j - 1 : "result" \notin DOMAIN ks[m]
             i == CHOOSE j \in DOMAIN ks : Takes(j)
             t == [ks EXCEPT ![i].result = v]
  <1>1. IsKonts(ks) /\ IsStack(ks)
    BY DEF Grounded, IsKonts
  <1>2. PICK n \in Nat : /\ n # 0 /\ Len(ks) = n /\ ks[n].k = "eval"
                         /\ "result" \in DOMAIN ks[n] /\ ks[n].result # Stale
    BY DEF Grounded
  <1>3. DOMAIN ks = 1 .. n /\ n \in DOMAIN ks
    BY <1>1, <1>2, StackFacts
  <1>4. \E j \in DOMAIN ks : Takes(j)
    <2> DEFINE T == {j \in 1 .. n : "result" \in DOMAIN ks[j]}
    <2>1. T \in SUBSET Nat /\ T # {}
      BY <1>2, <1>3
    <2>2. PICK j \in T : \A m \in T : j <= m
      BY <2>1, LeastElement
    <2>3. \A m \in 1 .. j - 1 : m \in 1 .. n /\ ~(j <= m)
      BY <1>2, <2>2
    <2>4. Takes(j)
      BY <2>2, <2>3
    <2> QED
      BY <1>3, <2>2, <2>4
  <1>5. i \in DOMAIN ks /\ Takes(i)
    BY <1>4, Zenon
  <1>6. Deliver(ks, v) = t
    BY Zenon DEF Deliver
  <1> HIDE DEF i
  <1>7. /\ DOMAIN t = DOMAIN ks
        /\ \A j \in DOMAIN ks : j # i => t[j] = ks[j]
        /\ DOMAIN t[i] = DOMAIN ks[i] /\ t[i].result = v
    <2> DEFINE b == [ks[i] EXCEPT !.result = v]
    <2>1. DOMAIN b = DOMAIN ks[i] /\ b.result = v
      BY <1>5, Zenon
    <2>2. DOMAIN t = DOMAIN ks /\ t[i] = b /\ \A j \in DOMAIN ks : j # i => t[j] = ks[j]
      BY <1>5, Zenon
    <2> HIDE DEF b, t
    <2> QED
      BY <2>1, <2>2
  <1> HIDE DEF t
  <1>8. IsKonts(t) /\ Kinds(t) = Kinds(ks)
    <2>1. IsKonts(Deliver(ks, v)) /\ Kinds(Deliver(ks, v)) = Kinds(ks)
      BY <1>1, KontsDelivered
    <2> QED
      BY <1>6, <2>1, Zenon
  <1>9. Len(t) = n
    BY <1>1, <1>2, <1>8, KindsType, Zenon
  <1>10. t[n].k = "eval"
    <2>1. Kinds(t)[n] = Kinds(ks)[n]
      BY <1>8
    <2> QED
      BY <1>2, <1>3, <1>7, <2>1, Zenon DEF Kinds
  <1>11. "result" \in DOMAIN t[n] /\ t[n].result # Stale
    BY <1>2, <1>3, <1>5, <1>7, Zenon
  <1>12. Grounded(t)
    BY <1>2, <1>8, <1>9, <1>10, <1>11, Zenon DEF Grounded
  <1>13. Given(t)
    <2>1. ASSUME NEW m \in 1 .. i - 1
          PROVE  "result" \notin DOMAIN t[m]
      <3>1. m \in DOMAIN ks /\ m # i
        BY <1>3, <1>5
      <3> QED
        BY <1>5, <1>7, <3>1, Zenon
    <2> QED
      BY <1>5, <1>7, <2>1, Zenon DEF Given
  <1> QED
    BY <1>6, <1>12, <1>13

\* A value passes through the activations that wait for none, and goes to the first.
LEMMA GivenPopped ==
    ASSUME NEW ks, IsStack(ks), ks # <<>>, Given(ks), "result" \notin DOMAIN ks[1]
    PROVE  Given(Tail(ks))
  <1> DEFINE t == Tail(ks)
  <1>1. PICK i \in DOMAIN ks : /\ "result" \in DOMAIN ks[i] /\ ks[i].result # Stale
                               /\ \A j \in 1 .. i - 1 : "result" \notin DOMAIN ks[j]
    BY DEF Given
  <1>2. DOMAIN ks = 1 .. Len(ks) /\ Len(ks) \in Nat
    BY StackFacts
  <1>3. /\ IsStack(t) /\ Len(ks) = Len(t) + 1
        /\ \A m \in 1 .. Len(t) : ks[m + 1] = t[m]
    BY StackPopped
  <1> HIDE DEF t
  <1>4. DOMAIN t = 1 .. Len(t) /\ Len(t) \in Nat
    BY <1>3, StackFacts
  <1>5. i # 1
    BY <1>1
  <1>6. PICK m \in 1 .. Len(t) : i = m + 1
    <2>1. i - 1 \in 1 .. Len(t) /\ i = (i - 1) + 1
      BY <1>2, <1>3, <1>4, <1>5
    <2> QED
      BY <2>1
  <1>7. ASSUME NEW j \in 1 .. m - 1
        PROVE  "result" \notin DOMAIN t[j]
    <2>1. j \in 1 .. Len(t) /\ j + 1 \in 1 .. i - 1
      BY <1>4, <1>6
    <2> QED
      BY <1>1, <1>3, <2>1
  <1>8. t[m] = ks[i]
    BY <1>3, <1>6
  <1>9. Given(t)
    BY <1>1, <1>4, <1>7, <1>8, Zenon DEF Given
  <1> QED
    BY <1>9 DEF t

LEMMA GivenFirst ==
    ASSUME NEW ks, IsStack(ks), Given(ks), "result" \in DOMAIN ks[1]
    PROVE  ks[1].result # Stale
  <1>1. PICK i \in DOMAIN ks : /\ "result" \in DOMAIN ks[i] /\ ks[i].result # Stale
                               /\ \A j \in 1 .. i - 1 : "result" \notin DOMAIN ks[j]
    BY DEF Given
  <1>2. i # 1 => 1 \in 1 .. i - 1
    <2>1. i \in Nat /\ i >= 1
      <3>1. DOMAIN ks = 1 .. Len(ks) /\ Len(ks) \in Nat
        BY StackFacts
      <3> QED
        BY <3>1
    <2> QED
      BY <2>1
  <1> QED
    BY <1>1, <1>2

\* What waits for a value has room for it.
LEMMA FreshFacts ==
    ASSUME IInv, VInv, Fresh, mode.k \in Working
    PROVE  /\ Grounded(konts) /\ IsStack(konts) /\ konts # <<>> /\ "k" \in DOMAIN konts[1]
           /\ konts[1].k # "eval" => Grounded(Below)
           /\ "result" \in DOMAIN konts[1] <=> konts[1].k \in Waiting
           /\ mode = Return(TRUE) /\ konts[1].k \in Waiting => konts[1].result # Stale
           /\ mode = Return(TRUE) /\ konts[1].k \notin Waiting => Given(Below)
           /\ mode.k = "return" => mode \in {Return(TRUE), Return(FALSE)}
  <1>1. /\ Grounded(konts) /\ (mode = Return(TRUE) => Given(konts))
        /\ mode.k = "return" => mode \in {Return(TRUE), Return(FALSE)}
    BY DEF Fresh
  <1>2. IsStack(konts) /\ konts # <<>> /\ KontOK(konts[1]) /\ "k" \in DOMAIN konts[1]
    BY ValueFacts
  <1>3. "result" \in DOMAIN konts[1] <=> konts[1].k \in Waiting
    BY <1>2 DEF KontOK
  <1>4. konts[1].k # "eval" => Grounded(Below)
    BY <1>1, GroundedPopped DEF Below
  <1>5. ASSUME mode = Return(TRUE)
        PROVE  /\ konts[1].k \in Waiting => konts[1].result # Stale
               /\ konts[1].k \notin Waiting => Given(Below)
    <2>1. Given(konts)
      BY <1>1, <1>5
    <2> QED
      BY <1>2, <1>3, <2>1, GivenFirst, GivenPopped DEF Below
  <1> QED
    BY <1>1, <1>2, <1>3, <1>4, <1>5

LEMMA ReturnsDiffer ==
    Return(TRUE) # Fault /\ Return(FALSE) # Fault /\ Return(FALSE) # Return(TRUE)
  BY DEF Return, Fault

LEMMA ModesDiffer ==
    ASSUME NEW m, m.k \in {"eval", "call", "apply"} \/ m = Return(FALSE)
    PROVE  m # Return(TRUE) /\ m # Fault
  BY DEF Return, Fault

\* The evaluation goes on, or fails.
LEMMA GoesOnFresh ==
    ASSUME mode'.k \in {"eval", "call", "apply"} \/ mode' = Return(FALSE), Grounded(konts')
    PROVE  Fresh'
  <1>1. mode' # Return(TRUE) /\ mode' # Fault
    BY ModesDiffer, Zenon
  <1>2. mode'.k = "return" => mode' \in {Return(TRUE), Return(FALSE)}
    OBVIOUS
  <1> QED
    BY <1>1, <1>2 DEF Fresh, NoStaleUse

\* It succeeds with a value.
LEMMA DeliveredFresh ==
    ASSUME NEW ks, Grounded(ks), NEW collect, NEW v, v # Stale,
           konts' = Deliver(Collected(ks, collect), v), mode' = Return(TRUE)
    PROVE  Fresh'
  <1>1. Grounded(konts') /\ Given(konts')
    BY GroundedCollected, GroundedDelivered
  <1>2. mode' # Fault
    BY ReturnsDiffer
  <1> QED
    BY <1>1, <1>2 DEF Fresh, NoStaleUse

LEMMA ValuesAreNotStale == \A v : IsValue(v) => v # Stale
  BY AtomsAreSExprs, Zenon DEF IsValue

LEMMA AnswerFresh ==
    ASSUME IInv, VInv, Fresh, mode.k \in {"eval", "apply"},
           \/ mode' = Return(FALSE) /\ konts' = konts
           \/ mode' = Return(TRUE) /\ Delivers
    PROVE  Fresh'
  <1>1. Grounded(konts)
    BY FreshFacts DEF Working
  <1>2. CASE mode' = Return(FALSE) /\ konts' = konts
    BY <1>1, <1>2, GoesOnFresh
  <1>3. CASE mode' = Return(TRUE) /\ Delivers
    <2>1. PICK collect, v :
                 /\ collect \in BOOLEAN /\ IsValue(v)
                 /\ konts' = Deliver(Collected(konts, collect), v)
      BY <1>3 DEF Delivers
    <2> QED
      BY <1>1, <1>3, <2>1, ValuesAreNotStale, DeliveredFresh
  <1> QED
    BY <1>2, <1>3

\* An activation that waits for no value returns.
LEMMA PassedFresh ==
    ASSUME IInv, VInv, Fresh, mode.k = "return", mode' = mode, konts' = Below,
           konts[1].k # "eval", mode = Return(FALSE) \/ konts[1].k \notin Waiting
    PROVE  Fresh'
  <1>1. Grounded(konts') /\ (mode' = Return(TRUE) => Given(konts'))
    BY FreshFacts, ReturnsDiffer DEF Working
  <1>2. mode' \in {Return(TRUE), Return(FALSE)} /\ mode' # Fault
    BY FreshFacts, ReturnsDiffer DEF Working
  <1> QED
    BY <1>1, <1>2 DEF Fresh, NoStaleUse

\* It goes on, or fails, with the same activations, one more or one in place of another.
LEMMA StackedFresh ==
    ASSUME IInv, VInv, Fresh, mode.k \in Working,
           mode'.k \in {"eval", "call", "apply"} \/ mode' = Return(FALSE),
           NEW kont, "k" \in DOMAIN kont,
           \/ konts' = konts
           \/ konts' = <<kont>> \o konts
           \/ konts[1].k # "eval" /\ (konts' = Below \/ konts' = <<kont>> \o Below)
    PROVE  Fresh'
  <1>1. Grounded(konts) /\ (konts[1].k # "eval" => Grounded(Below))
    BY FreshFacts
  <1>2. Grounded(konts')
    BY <1>1, GroundedPushed
  <1> QED
    BY <1>2, GoesOnFresh

LEMMA ReadFresh ==
    ASSUME Read
    PROVE  Fresh'
  <1> DEFINE kont == [k |-> "eval", result |-> Nil]
             t == <<kont>>
  <1>1. konts' = t /\ mode'.k = "eval"
    BY DEF Read, Evaluate
  <1>2. "k" \in DOMAIN kont /\ kont.k = "eval" /\ "result" \in DOMAIN kont
        /\ kont.result # Stale
    BY DEF Nil, List, Stale
  <1>3. t \in Seq({kont}) /\ DOMAIN t = {1} /\ t[1] = kont /\ Len(t) = 1
    OBVIOUS
  <1> HIDE DEF kont, t
  <1>4. IsKonts(t)
    BY <1>2, <1>3, IsStackFacts DEF IsKonts
  <1>5. 1 \in Nat /\ 1 # 0
    OBVIOUS
  <1>6. Grounded(t)
    BY <1>2, <1>3, <1>4, <1>5, Zenon DEF Grounded
  <1> QED
    BY <1>1, <1>6, GoesOnFresh

\* eval returns when the roots are as they were, and has its value where it put it.
LEMMA FinishFresh ==
    ASSUME IInv, VInv, Fresh, Balanced, Finish
    PROVE  Fresh'
  <1>1. mode.k = "return" /\ konts[1].k = "eval"
    BY DEF Finish
  <1>2. /\ IsKonts(Below) /\ IsStack(Kinds(Below))
        /\ Kinds(konts) = <<"eval">> \o Kinds(Below)
        /\ Held(Kinds(konts)) = Held(Kinds(Below)) + 3
    BY <1>1, Popped, RootsOfKinds DEF Working
  <1>3. Kinds(Below) = <<>>
    <2>1. Sound("return", <<"eval">> \o Kinds(Below), Len(frames), error)
      BY <1>1, <1>2, StateFacts
    <2> QED
      BY <1>2, <2>1, StateFacts, Finished
  <1>4. nroots = 5
    BY <1>2, <1>3, NoKinds DEF Balanced, Rooted
  <1>5. konts[1].result # Stale
    <2>1. Below = <<>>
      BY <1>2, <1>3, KindsType
    <2>2. IsStack(konts) /\ konts # <<>> /\ Grounded(konts)
      BY <1>1, FreshFacts DEF Working
    <2>3. PICK n \in Nat : n # 0 /\ Len(konts) = n /\ konts[n].result # Stale
      BY <2>2 DEF Grounded
    <2>4. Len(konts) = Len(Below) + 1
      BY <2>2, StackPopped DEF Below
    <2>5. n = 1
      <3>1. Len(Below) = 0
        BY <2>1
      <3>2. 0 + 1 = 1
        OBVIOUS
      <3> QED
        BY <2>3, <2>4, <3>1, <3>2, Zenon
    <2> QED
      BY <2>3, <2>5, Zenon
  <1>6. mode' = Idle
    BY <1>4, <1>5 DEF Finish
  <1> QED
    BY <1>6 DEF Fresh, NoStaleUse, Idle, Fault, Return, Working

LEMMA EvalCallFresh ==
    ASSUME IInv, VInv, Fresh, EvalCall
    PROVE  Fresh'
  <1> DEFINE kont == [k |-> "eval_internal"]
  <1>1. /\ mode.k = "eval"
        /\ \/ mode' = Return(FALSE) /\ konts' = konts
           \/ /\ mode' = Call(Car(mode.x), Definition(Car(mode.x)), Cdr(mode.x))
              /\ konts' = <<kont>> \o konts
    BY Zenon DEF EvalCall, Fails, Push
  <1>2. "k" \in DOMAIN kont
    OBVIOUS
  <1> HIDE DEF kont
  <1> QED
    BY <1>1, <1>2, StackedFresh, ModesOK DEF Working

LEMMA PassOnFresh ==
    ASSUME IInv, VInv, Fresh, PassOn
    PROVE  Fresh'
  BY PassedFresh DEF PassOn, Waiting

LEMMA LeaveFuncFresh ==
    ASSUME IInv, VInv, Fresh, LeaveFunc
    PROVE  Fresh'
  BY PassedFresh DEF LeaveFunc, Waiting

LEMMA ArgumentFailsFresh ==
    ASSUME IInv, VInv, Fresh, ArgumentFails
    PROVE  Fresh'
  BY PassedFresh DEF ArgumentFails, Return

LEMMA AssignmentFailsFresh ==
    ASSUME IInv, VInv, Fresh, AssignmentFails
    PROVE  Fresh'
  BY PassedFresh DEF AssignmentFails, Return

\* Without another.
LEMMA RemainingFresh ==
    ASSUME IInv, VInv, Fresh, mode.k \in Working,
           mode'.k \in {"eval", "call", "apply"} \/ mode' = Return(FALSE),
           konts' = konts \/ (konts[1].k # "eval" /\ konts' = Below)
    PROVE  Fresh'
  <1>1. Grounded(konts')
    BY FreshFacts
  <1> QED
    BY <1>1, GoesOnFresh

LEMMA EnterFuncFresh ==
    ASSUME IInv, VInv, Fresh, EnterFunc
    PROVE  Fresh'
  <1> DEFINE func(ks) == <<[k |-> "eval_func"]>> \o ks
             kont == [k |-> "args", id |-> mode.id, def |-> mode.def,
                      rest |-> Cdr(mode.args), done |-> Nil, result |-> Nil]
  <1>1. mode.k = "call"
    BY DEF EnterFunc
  <1>2. Grounded(konts) /\ konts[Len(konts)].result # Stale
    <2>1. Grounded(konts)
      BY <1>1, FreshFacts DEF Working
    <2> QED
      BY <2>1, Zenon DEF Grounded
  <1>. ~CallAborts(mode.id, mode.def, mode.args)
    BY <1>1, ValueFacts, NeverAborts DEF ModeOK
  <1>3. PICK collect \in BOOLEAN :
           LET ks == Collected(konts, collect) IN
           \/ mode' = Return(FALSE) /\ konts' = ks
           \/ mode' = Evaluate(Car(mode.args)) /\ konts' = <<kont>> \o func(ks)
           \/ mode' = Apply(mode.id, mode.def, mode.args) /\ konts' = func(ks)
    BY <1>2, Zenon DEF EnterFunc, Fails
  <1> DEFINE ks == Collected(konts, collect)
  <1>4. Grounded(ks)
    BY <1>2, GroundedCollected
  <1>5. "k" \in DOMAIN kont /\ "k" \in DOMAIN [k |-> "eval_func"]
    OBVIOUS
  <1>6. \/ mode' = Return(FALSE) /\ konts' = ks
        \/ mode' = Evaluate(Car(mode.args)) /\ konts' = <<kont>> \o func(ks)
        \/ mode' = Apply(mode.id, mode.def, mode.args) /\ konts' = func(ks)
    BY <1>3
  <1> HIDE DEF kont, ks
  <1>7. mode'.k \in {"eval", "apply"} \/ mode' = Return(FALSE)
    <2>1. /\ Apply(mode.id, mode.def, mode.args).k = "apply"
          /\ Evaluate(Car(mode.args)).k = "eval"
      BY DEF Apply, Evaluate
    <2> QED
      BY <1>6, <2>1, Zenon
  <1>8. Grounded(func(ks))
    BY <1>4, <1>5, GroundedPushed
  <1> HIDE DEF func
  <1>9. Grounded(konts')
    BY <1>4, <1>5, <1>6, <1>8, GroundedPushed
  <1> QED
    BY <1>7, <1>9, GoesOnFresh

\* The argument is there, and so are those before.
LEMMA ArgumentValueFresh ==
    ASSUME IInv, VInv, Fresh, ArgumentValue
    PROVE  Fresh'
  <1> DEFINE kont == konts[1]
             done == List(Append(kont.done[2], kont.result))
             next == [kont EXCEPT !.done = done, !.rest = Cdr(@), !.result = Nil]
  <1>1. mode = Return(TRUE) /\ kont.k = "args"
    BY DEF ArgumentValue
  <1>2. mode.k = "return"
    BY <1>1, ModesOK
  <1>3. /\ kont.result # Stale /\ kont.done # Stale /\ Grounded(Below)
        /\ "k" \in DOMAIN kont
    <2>1. kont.result # Stale /\ Grounded(Below) /\ "k" \in DOMAIN kont
      BY <1>1, <1>2, FreshFacts DEF Working, Waiting
    <2>2. kont.done = List(kont.done[2])
      BY <1>1, <1>2, ValueFacts DEF KontOK, ArgsOK, Working
    <2>3. \A s : List(s) # Stale
      BY DEF List, Stale
    <2> QED
      BY <2>1, <2>2, <2>3, Zenon
  <1>4. PICK collect \in BOOLEAN :
           \/ /\ mode' = Apply(kont.id, kont.def, done)
              /\ konts' = Collected(Below, collect)
           \/ /\ mode' = Evaluate(Car(kont.rest))
              /\ konts' = <<next>> \o Collected(Below, collect)
    BY <1>3, Zenon DEF ArgumentValue
  <1>5. "k" \in DOMAIN next
    BY <1>3, Zenon
  <1>6. mode'.k \in {"eval", "apply"}
    BY <1>4, ModesOK DEF Apply
  <1> HIDE DEF next, done
  <1>7. Grounded(konts')
    BY <1>3, <1>4, <1>5, GroundedCollected, GroundedPushed
  <1> QED
    BY <1>6, <1>7, GoesOnFresh

LEMMA ApplyDefinedFresh ==
    ASSUME IInv, VInv, Fresh, ApplyDefined
    PROVE  Fresh'
  <1>1. mode.k = "apply" /\ mode' = Evaluate(Cadr(mode.def))
        /\ (konts' = konts \/ \E collect \in BOOLEAN : konts' = Collected(konts, collect))
    BY Zenon DEF ApplyDefined
  <1>2. Grounded(konts')
    BY <1>1, FreshFacts, GroundedCollected DEF Working
  <1> QED
    BY <1>1, <1>2, GoesOnFresh, ModesOK

LEMMA ApplyEvalFresh ==
    ASSUME IInv, VInv, Fresh, ApplyEval
    PROVE  Fresh'
  <1>1. mode.k = "apply" /\ mode' = Evaluate(args[1]) /\ konts' = konts
    BY DEF ApplyEval, Running
  <1> QED
    BY <1>1, RemainingFresh, ModesOK DEF Working

\* The first operand, or the only one, of a built-in that waits for its value.
LEMMA OperandFresh ==
    ASSUME IInv, VInv, Fresh, ApplyAnd \/ ApplyOr \/ ApplyIf
    PROVE  Fresh'
  <1>1. mode.k = "apply" /\ mode' = Evaluate(args[1])
    BY Zenon DEF ApplyAnd, ApplyOr, ApplyIf, Running
  <1>2. \E kont : "k" \in DOMAIN kont /\ konts' = <<kont>> \o konts
    <2>1. CASE ApplyAnd
      BY <2>1 DEF ApplyAnd, Push
    <2>2. CASE ApplyOr
      BY <2>2 DEF ApplyOr, Push
    <2>3. CASE ApplyIf
      BY <2>3 DEF ApplyIf, Push
    <2> QED
      BY <2>1, <2>2, <2>3
  <1> QED
    BY <1>1, <1>2, StackedFresh, ModesOK DEF Working

LEMMA AndFirstFresh ==
    ASSUME IInv, VInv, Fresh, AndFirst
    PROVE  Fresh'
  <1> DEFINE kont == [k |-> "tail", result |-> konts[1].result]
  <1>1. /\ mode.k = "return" /\ konts[1].k = "and"
        /\ \/ mode' = Evaluate(konts[1].other) /\ konts' = <<kont>> \o Below
           \/ mode' = Return(FALSE) /\ konts' = Deliver(Below, Nil)
           \/ mode' = Return(FALSE) /\ konts' = Below
    BY Zenon DEF AndFirst
  <1>2. "k" \in DOMAIN kont
    OBVIOUS
  <1>3. mode'.k = "eval" \/ mode' = Return(FALSE)
    BY <1>1, ModesOK
  <1>4. Grounded(Below) /\ Nil # Stale
    BY <1>1, FreshFacts DEF Working, Nil, List, Stale
  <1> HIDE DEF kont
  <1>5. Grounded(konts')
    BY <1>1, <1>2, <1>4, GroundedPushed, GroundedDelivered
  <1> QED
    BY <1>3, <1>5, GoesOnFresh

LEMMA OrFirstFresh ==
    ASSUME IInv, VInv, Fresh, OrFirst
    PROVE  Fresh'
  <1>1. /\ mode.k = "return" /\ konts[1].k = "or"
        /\ \/ mode' = Evaluate(konts[1].other) /\ konts' = Below
           \/ /\ mode' = Return(TRUE)
              /\ \E collect \in BOOLEAN : konts' = Deliver(Collected(Below, collect), True)
    BY Zenon DEF OrFirst
  <1>2. Grounded(Below) /\ True # Stale
    BY <1>1, FreshFacts, AtomsAreSExprs, ValuesAreNotStale DEF Working
  <1>3. CASE mode' = Evaluate(konts[1].other) /\ konts' = Below
    BY <1>2, <1>3, GoesOnFresh, ModesOK
  <1>4. CASE /\ mode' = Return(TRUE)
             /\ \E collect \in BOOLEAN : konts' = Deliver(Collected(Below, collect), True)
    BY <1>2, <1>4, DeliveredFresh
  <1> QED
    BY <1>1, <1>3, <1>4

LEMMA IfTestFresh ==
    ASSUME IInv, VInv, Fresh, IfTest
    PROVE  Fresh'
  <1> DEFINE kont == [k |-> "branch", result |-> konts[1].result]
  <1>1. /\ mode.k = "return" /\ konts[1].k = "if"
        /\ \/ /\ mode' = Evaluate(konts[1].then) \/ mode' = Evaluate(konts[1].else)
              /\ konts' = <<kont>> \o Below
           \/ ~mode.ok /\ mode' = mode /\ konts' = Below
    BY Zenon DEF IfTest
  <1>2. "k" \in DOMAIN kont
    OBVIOUS
  <1> HIDE DEF kont
  <1>3. ~mode.ok => mode = Return(FALSE)
    BY <1>1, FreshFacts DEF Return, Working
  <1> QED
    BY <1>1, <1>2, <1>3, StackedFresh, ModesOK DEF Working

\* The clauses of cond are tried one after the other.
LEMMA TryClauseFresh ==
    ASSUME NEW clauses, NEW ks, Grounded(ks), NEW held, TryClause(clauses, ks, held)
    PROVE  Fresh'
  <1> DEFINE kont == [k |-> "cond", clauses |-> clauses, result |-> Nil]
  <1>1. \/ mode' = Return(FALSE) /\ konts' = ks
        \/ mode' = Evaluate(Car(Car(clauses))) /\ konts' = <<kont>> \o ks
    BY Zenon DEF TryClause, Fails
  <1>2. "k" \in DOMAIN kont
    OBVIOUS
  <1> HIDE DEF kont
  <1>3. Grounded(konts')
    BY <1>1, <1>2, GroundedPushed
  <1> QED
    BY <1>1, <1>3, GoesOnFresh, ModesOK

LEMMA ApplyCondFresh ==
    ASSUME IInv, VInv, Fresh, ApplyCond
    PROVE  Fresh'
  BY TryClauseFresh, FreshFacts DEF ApplyCond, Running, Working

LEMMA CondTestFresh ==
    ASSUME IInv, VInv, Fresh, CondTest
    PROVE  Fresh'
  <1> DEFINE kont == [k |-> "tail", result |-> konts[1].result]
  <1>1. /\ mode.k = "return" /\ konts[1].k = "cond"
        /\ \/ ~mode.ok /\ mode' = mode /\ konts' = Below
           \/ TryClause(Cdr(konts[1].clauses), Below, nroots)
           \/ /\ mode' = Evaluate(Cadr(Car(konts[1].clauses)))
              /\ konts' = <<kont>> \o Below
    BY Zenon DEF CondTest
  <1>2. "k" \in DOMAIN kont
    OBVIOUS
  <1> HIDE DEF kont
  <1>3. ~mode.ok => mode = Return(FALSE)
    BY <1>1, FreshFacts DEF Return, Working
  <1>4. Grounded(Below)
    BY <1>1, FreshFacts DEF Working
  <1>5. CASE TryClause(Cdr(konts[1].clauses), Below, nroots)
    BY <1>4, <1>5, TryClauseFresh
  <1> QED
    BY <1>1, <1>2, <1>3, <1>5, StackedFresh, ModesOK DEF Working

\* The value of a branch is handed on.
LEMMA TailValueFresh ==
    ASSUME IInv, VInv, Fresh, TailValue
    PROVE  Fresh'
  <1>1. mode.k = "return" /\ konts[1].k \in {"tail", "branch"} /\ mode' = mode
        /\ konts' = IF mode.ok THEN Deliver(Below, konts[1].result) ELSE Below
    BY DEF TailValue
  <1>2. Grounded(Below) /\ mode \in {Return(TRUE), Return(FALSE)}
    BY <1>1, FreshFacts DEF Working
  <1>3. CASE mode = Return(TRUE)
    <2>1. konts[1].result # Stale
      BY <1>1, <1>3, FreshFacts DEF Waiting, Working
    <2>2. konts' = Deliver(Below, konts[1].result)
      BY <1>1, <1>3 DEF Return
    <2>3. Collected(Below, FALSE) = Below
      BY DEF Collected
    <2> QED
      BY <1>1, <1>2, <1>3, <2>1, <2>2, <2>3, DeliveredFresh
  <1>4. CASE mode = Return(FALSE)
    <2>1. konts' = Below
      BY <1>1, <1>4 DEF Return
    <2> QED
      BY <1>1, <1>2, <1>4, <2>1, GoesOnFresh
  <1> QED
    BY <1>2, <1>3, <1>4

LEMMA ApplyBeginFresh ==
    ASSUME IInv, VInv, Fresh, ApplyBegin
    PROVE  Fresh'
  <1> DEFINE kont == [k |-> "begin", rest |-> List(Tail(args))]
  <1>1. /\ mode.k = "apply"
        /\ \/ mode' = Return(FALSE) /\ konts' = konts
           \/ mode' = Evaluate(args[1]) /\ konts' = <<kont>> \o konts
    BY Zenon DEF ApplyBegin, Running, Fails, Push
  <1>2. "k" \in DOMAIN kont
    OBVIOUS
  <1> HIDE DEF kont
  <1> QED
    BY <1>1, <1>2, StackedFresh, ModesOK DEF Working

LEMMA BeginValueFresh ==
    ASSUME IInv, VInv, Fresh, BeginValue
    PROVE  Fresh'
  <1> DEFINE kont == [konts[1] EXCEPT !.rest = Cdr(konts[1].rest)]
  <1>1. /\ mode.k = "return" /\ konts[1].k = "begin"
        /\ \/ mode' = Evaluate(Car(konts[1].rest)) /\ konts' = <<kont>> \o Below
           \/ mode' = mode /\ konts' = Below
    BY Zenon DEF BeginValue
  <1>2. "k" \in DOMAIN kont
    <2>1. "k" \in DOMAIN konts[1]
      BY <1>1, FreshFacts DEF Working
    <2> QED
      BY <2>1, Zenon
  <1> HIDE DEF kont
  <1>3. CASE mode' = Evaluate(Car(konts[1].rest)) /\ konts' = <<kont>> \o Below
    BY <1>1, <1>2, <1>3, StackedFresh, ModesOK DEF Working
  <1>4. CASE mode' = mode /\ konts' = Below
    BY <1>1, <1>4, PassedFresh DEF Waiting
  <1> QED
    BY <1>1, <1>3, <1>4

LEMMA ApplyLetFresh ==
    ASSUME IInv, VInv, Fresh, ApplyLet
    PROVE  Fresh'
  <1> DEFINE kont == [k |-> "let", name |-> args[1], result |-> Nil]
  <1>1. /\ mode.k = "apply"
        /\ \/ mode' = Return(FALSE) /\ konts' = konts
           \/ mode' = Evaluate(args[2]) /\ konts' = <<kont>> \o konts
    BY Zenon DEF ApplyLet, Running, Fails, Push
  <1>2. "k" \in DOMAIN kont
    OBVIOUS
  <1> HIDE DEF kont
  <1> QED
    BY <1>1, <1>2, StackedFresh, ModesOK DEF Working

LEMMA ApplySetFresh ==
    ASSUME IInv, VInv, Fresh, ApplySet
    PROVE  Fresh'
  <1> DEFINE kont == [k |-> "set", name |-> args[1], result |-> Nil]
  <1>1. /\ mode.k = "apply"
        /\ \/ mode' = Return(FALSE) /\ konts' = konts
           \/ mode' = Evaluate(args[2]) /\ konts' = <<kont>> \o konts
    BY Zenon DEF ApplySet, Running, Fails, Push
  <1>2. "k" \in DOMAIN kont
    OBVIOUS
  <1> HIDE DEF kont
  <1> QED
    BY <1>1, <1>2, StackedFresh, ModesOK DEF Working

LEMMA ApplyFuncallFresh ==
    ASSUME IInv, VInv, Fresh, ApplyFuncall
    PROVE  Fresh'
  <1> DEFINE kont == [k |-> "funcall"]
             f == Lookup(Name(args[1]))
  <1>1. /\ mode.k = "apply"
        /\ \/ mode' = Return(FALSE) /\ konts' = konts
           \/ /\ mode' = Call(Cadr(f), Cddr(f), List(Tail(args)))
              /\ konts' = <<kont>> \o konts
    BY Zenon DEF ApplyFuncall, Running, Fails, Push
  <1>2. "k" \in DOMAIN kont
    OBVIOUS
  <1> HIDE DEF kont, f
  <1> QED
    BY <1>1, <1>2, StackedFresh, ModesOK DEF Working

\* let and set find the value they bind, and report a success.
LEMMA AssignmentFresh ==
    ASSUME IInv, VInv, Fresh, LetValue \/ SetValue, ~LeavesStale
    PROVE  Fresh'
  <1>1. mode = Return(TRUE) /\ konts[1].k \in {"let", "set"}
    BY Zenon DEF LetValue, SetValue
  <1>2. mode.k = "return"
    BY <1>1, ModesOK
  <1>3. konts[1].result # Stale /\ Grounded(Below)
    BY <1>1, <1>2, FreshFacts DEF Working, Waiting
  <1>4. mode' = mode /\ \E collect \in BOOLEAN : konts' = Collected(Below, collect)
    BY <1>3, Zenon DEF LetValue, SetValue
  <1>5. Grounded(konts')
    BY <1>3, <1>4, GroundedCollected
  <1>6. Given(konts')
    BY <1>1, <1>4, Zenon DEF LeavesStale
  <1> QED
    BY <1>1, <1>4, <1>5, <1>6, ReturnsDiffer DEF Fresh, NoStaleUse

LEMMA ApplyDefineFresh ==
    ASSUME IInv, VInv, Fresh, Balanced, ApplyDefine, ~RefusesDefinition, ~LeavesStale
    PROVE  Fresh'
  <1>1. mode.k = "apply"
    BY DEF ApplyDefine, Running
  <1>2. nroots \in Nat /\ nroots' = nroots
    <2>1. nroots \in Nat
      BY StateFacts DEF Balanced, Rooted
    <2> QED
      BY <2>1 DEF RefusesDefinition
  <1>3. nroots' # nroots + 1
    BY <1>2
  <1>4. \/ mode' = Return(FALSE) /\ konts' = konts
        \/ /\ mode' = Return(TRUE)
           /\ \E collect \in BOOLEAN : konts' = Collected(konts, collect)
    <2>1. \A n \in 0 .. 2 : (n > 0) \in BOOLEAN
      OBVIOUS
    <2> QED
      BY <1>3, <2>1, Zenon DEF ApplyDefine, Fails
  <1>5. Grounded(konts)
    BY <1>1, FreshFacts DEF Working
  <1>6. CASE mode' = Return(FALSE) /\ konts' = konts
    BY <1>5, <1>6, GoesOnFresh
  <1>7. CASE /\ mode' = Return(TRUE)
             /\ \E collect \in BOOLEAN : konts' = Collected(konts, collect)
    <2>1. Grounded(konts') /\ Given(konts')
      BY <1>5, <1>7, GroundedCollected DEF LeavesStale
    <2> QED
      BY <1>7, <2>1, ReturnsDiffer DEF Fresh, NoStaleUse
  <1> QED
    BY <1>4, <1>6, <1>7

\* Without a definition that is refused, a function of a built-in or an old value that
\* is reported as a success, what is waited for stays where it is.
LEMMA StepFresh ==
    ASSUME IInv, VInv, Fresh, Balanced, [Next]_state,
           ~RefusesDefinition, ~FunctionOfBuiltin, ~LeavesStale
    PROVE  Fresh'
  <1>1. CASE Read \/ Finish
    BY <1>1, ReadFresh, FinishFresh
  <1>2. CASE EvalConstant \/ EvalSymbol
    BY <1>2, EvalConstantDelivers, EvalSymbolOutcomes, AnswerFresh
       DEF EvalConstant, EvalSymbol
  <1>3. CASE EvalCall \/ PassOn
    BY <1>3, EvalCallFresh, PassOnFresh
  <1>4. CASE EnterFunc \/ ArgumentValue \/ ArgumentFails \/ ApplyDefined \/ LeaveFunc
    BY <1>4, EnterFuncFresh, ArgumentValueFresh, ArgumentFailsFresh, ApplyDefinedFresh,
       LeaveFuncFresh
  <1>5. CASE ApplySimple
    <2>1. mode.k = "apply"
      BY <1>5, Zenon DEF ApplySimple
    <2> QED
      BY <1>5, <2>1, ApplySimpleOutcomes, AnswerFresh
  <1>6. CASE ApplyEval \/ ApplyAnd \/ AndFirst \/ ApplyOr \/ OrFirst \/ ApplyIf \/ IfTest
    BY <1>6, ApplyEvalFresh, OperandFresh, AndFirstFresh, OrFirstFresh, IfTestFresh
  <1>7. CASE ApplyCond \/ CondTest \/ TailValue \/ ApplyBegin \/ BeginValue
    BY <1>7, ApplyCondFresh, CondTestFresh, TailValueFresh, ApplyBeginFresh,
       BeginValueFresh
  <1>8. CASE ApplyLet \/ LetValue \/ ApplySet \/ SetValue \/ AssignmentFails
    BY <1>8, ApplyLetFresh, ApplySetFresh, AssignmentFresh, AssignmentFailsFresh
  <1>9. CASE ApplyDefine \/ ApplyFuncall
    BY <1>9, ApplyDefineFresh, ApplyFuncallFresh
  <1>10. CASE ApplyLambda \/ ApplyFunction
    <2>1. mode.k = "apply"
      BY <1>10 DEF ApplyLambda, ApplyFunction, Running
    <2> QED
      BY <1>10, <2>1, ApplyLambdaOutcomes, ApplyFunctionOutcomes, AnswerFresh
  <1>11. CASE Stopped \/ UNCHANGED state
    <2>1. mode' = mode /\ konts' = konts
      BY <1>11 DEF Stopped, state
    <2> QED
      BY <2>1 DEF Fresh, NoStaleUse
  <1> QED
    BY <1>1, <1>2, <1>3, <1>4, <1>5, <1>6, <1>7, <1>8, <1>9, <1>10, <1>11
       DEF Next, Step

\* Whatever collections happen, no object is used through a pointer that a collection
\* left behind and no assertion fails, unless define refuses a definition, function is
\* asked for a built-in, or let, set or define report a success where an old value is.
THEOREM NothingStaleIsUsed ==
    Spec /\ [][~RefusesDefinition /\ ~FunctionOfBuiltin /\ ~LeavesStale]_state
    => []NoStaleUse
  <1> DEFINE Harmless == ~RefusesDefinition /\ ~FunctionOfBuiltin /\ ~LeavesStale
             Inv == IInv /\ VInv /\ Balanced /\ Fresh
  <1>1. Init => Inv
    <2> SUFFICES ASSUME Init PROVE Inv
      OBVIOUS
    <2>1. mode = Idle
      BY DEF Init
    <2>2. Fresh
      BY <2>1 DEF Fresh, NoStaleUse, Idle, Return, Fault, Working
    <2> QED
      BY <2>2, InitEstablishes, ValuesHoldAtFirst
  <1>2. Inv /\ [Next]_state /\ [Harmless]_state => Inv'
    <2> SUFFICES ASSUME Inv, [Next]_state, [Harmless]_state
                 PROVE  Inv'
      OBVIOUS
    <2>1. CASE UNCHANGED state
      <3>1. Fresh'
        <4>1. mode' = mode /\ konts' = konts
          BY <2>1 DEF state
        <4> QED
          BY <4>1 DEF Fresh, NoStaleUse
      <3> QED
        BY <2>1, <3>1, StutterKeeps, StutterKeepsValues DEF Balanced
    <2>2. CASE Harmless
      BY <2>2, StepKeeps, StepKeepsValues, StepFresh DEF Balanced
    <2> QED
      BY <2>1, <2>2
  <1>3. Inv => NoStaleUse
    BY DEF Fresh
  <1> QED
    BY <1>1, <1>2, <1>3, PTL DEF Spec

\* A program in which none of set, let, define and function occurs takes none of these.
LEMMA HarmlessWithoutAssignments ==
    ASSUME Assigning \cap Forms = {}, IInv, VInv
    PROVE  ~RefusesDefinition /\ ~FunctionOfBuiltin /\ ~LeavesStale
  <1>1. Assigning \cap Vocabulary = {}
    <2>1. \A s \in Assigning :
             s \notin {True, Sym("lambda"), Sym("begin"), FunctionMark}
      BY DEF Assigning, True, FunctionMark, Sym
    <2> QED
      BY <2>1 DEF Vocabulary
  <1>2. \A k \in {"set", "let", "define", "function"} : Sym(k) \notin Vocabulary
    BY <1>1 DEF Assigning
  <1>3. ~Running("define") /\ ~Running("function")
    <2>1. "define" \in Builtins /\ "function" \in Builtins
      BY DEF Builtins, OneArgument, Variadic
    <2> QED
      BY <1>2, <2>1, RunningFacts
  <1>4. ~(LetValue \/ SetValue)
    <2>1. ASSUME LetValue \/ SetValue
          PROVE  FALSE
      <3>1. mode = Return(TRUE) /\ konts[1].k \in {"let", "set"}
        BY <2>1, Zenon DEF LetValue, SetValue
      <3>2. mode.k \in Working
        BY <3>1, ModesOK DEF Working
      <3>3. KontOK(konts[1])
        BY <3>2, ValueFacts
      <3> QED
        BY <1>2, <3>1, <3>3 DEF KontOK
    <2> QED
      BY <2>1
  <1> QED
    BY <1>3, <1>4 DEF RefusesDefinition, FunctionOfBuiltin, LeavesStale, ApplyDefine

\* So such a program uses nothing stale, and the root array has the entries of the VM
\* and of the activations on the stack at every moment.
THEOREM NothingStaleWithoutAssignments ==
    ASSUME Assigning \cap Forms = {}
    PROVE  Spec => [](NoStaleUse /\ RootsMatchStack)
  <1>1. IInv /\ VInv => ~RefusesDefinition /\ ~FunctionOfBuiltin /\ ~LeavesStale
    BY HarmlessWithoutAssignments
  <1>2. Spec => [][~RefusesDefinition /\ ~FunctionOfBuiltin /\ ~LeavesStale]_state
    BY <1>1, ValuesHold, PTL
  <1>3. Spec => [][~RefusesDefinition]_state
    BY <1>1, ValuesHold, PTL
  <1> QED
    BY <1>2, <1>3, NothingStaleIsUsed, RootsMatchUnlessRefused, PTL
=============================================================================
