------------------------------ MODULE MCEval ------------------------------
(***************************************************************************)
(* Programs for the evaluator: all small forms of a grammar, and the       *)
(* integration tests of test/sprint-5 to test/sprint-9 with variations.    *)
(***************************************************************************)
EXTENDS MeaningProperties

Form(name, operands) == List(<<Sym(name)>> \o operands)
Quote(x) == Form("quote", <<x>>)
Function(params, body) == Form("lambda", <<List(params), body>>)

x == Sym("x")
y == Sym("y")
f == Sym("f")
g == Sym("g")
k == Sym("k")
One == Num(1)
Two == Num(2)

-----------------------------------------------------------------------------
(***************************************************************************)
(* The grammar.  x is unbound unless a lambda binds it.                    *)
(***************************************************************************)
Leaves == {One, Nil, x, Quote(List(<<Two, x>>))}
Constants == {Two, Nil}

Unary(A) == {Form(b, <<a>>) : b \in {"car", "not", "eval"}, a \in A}
Binary(A, B) == {Form(b, <<p, q>>) : b \in {"+", "cons", "or", "begin"}, p \in A, q \in B}
Branches(A, B) ==
    {Form("if", <<p, q, Two>>) : p \in A, q \in B}
    \cup {Form("cond", <<List(<<p, q>>), List(<<One, x>>)>>) : p \in A, q \in B}
Lambdas(A, B) == {List(<<Function(<<x>>, p), q>>) : p \in A, q \in B}
\* The first operand is not nil: see NestedAnds.
Ands(A) == {Form("and", <<One, p>>) : p \in A}

Small == Unary(Leaves) \cup Binary(Leaves, Leaves) \cup Branches(Leaves, Constants)
         \cup Lambdas({x, One}, Leaves) \cup Ands(Leaves)

Larger == Unary(Small) \cup Binary(Small, {One}) \cup Binary({Two}, Small)
          \cup Branches(Small, {One}) \cup Branches({One}, Small)
          \cup Lambdas(Small, {One, x}) \cup Lambdas({x}, Small) \cup Ands(Small)

Deep == Lambdas(Larger, {Two}) \cup {Form("cons", <<p, One>>) : p \in Larger}

Malformed == {List(<<One>>), Form("car", <<>>), Dotted(<<Sym("car")>>, One),
              Form("cond", <<One>>), Form("cond", <<>>), Form("begin", <<>>),
              List(<<Form("lambda", <<List(<<One>>), x>>), One>>), List(<<Nil>>)}

Pure == {<<form>> : form \in Leaves \cup Small \cup Larger \cup Deep \cup Malformed}

\* What the forms of programs are made of: their parts, the parts of these, and so on
\* down to the twelfth level, which is deeper than any form is nested.
PartsOf(z) ==
    IF ~IsCons(z) THEN {}
    ELSE {z[2][i] : i \in DOMAIN z[2]} \cup (IF IsList(z) THEN {} ELSE {z[3]})

FormsOf(programs) ==
    LET level[n \in 0 .. 12] ==
            IF n = 0 THEN UNION {{p[i] : i \in DOMAIN p} : p \in programs}
            ELSE UNION {PartsOf(z) : z \in level[n - 1]}
    IN  UNION {level[n] : n \in 0 .. 12}

\* A part of a form of the grammar is a smaller form, or two or three levels deep.
PartAt(z, i) ==
    IF IsCons(z) /\ i \in DOMAIN z[2] THEN z[2][i]
    ELSE IF i > 0 /\ IsCons(z) /\ ~IsList(z) THEN z[3] ELSE z

PureParts == {PartAt(PartAt(PartAt(p[1], i), j), m) :
                p \in Pure, i \in 0 .. 3, j \in 0 .. 3, m \in 0 .. 3}

NoExpectation == [p \in {} |-> <<>>]

-----------------------------------------------------------------------------
(***************************************************************************)
(* The integration tests: sessions of forms, each with the output that the *)
(* .o file next to its .i file asks for.                                   *)
(***************************************************************************)
a == Sym("a")
b == Sym("b")
L == Sym("L")
tmp == Sym("tmp")
Numbers(ns) == List([i \in DOMAIN ns |-> Num(ns[i])])
Set(name, form) == Form("set", <<name, form>>)
Let(name, form) == Form("let", <<name, form>>)
Define(name, params, forms) == Form("define", <<name, List(params)>> \o forms)
CallOf(name, operands) == List(<<name>> \o operands)
Times(p, q) == Form("*", <<p, q>>)
Plus(p, q) == Form("+", <<p, q>>)

Session(pairs) == [input  |-> [i \in DOMAIN pairs |-> pairs[i][1]],
                   output |-> [i \in DOMAIN pairs |-> pairs[i][2]]]

\* sprint-5/set.i and quote.i
SetTest == Session(<<
    <<Set(x, One), Nil>>, <<Set(y, Two), Nil>>, <<Plus(x, y), Num(3)>>,
    <<Set(x, y), Nil>>, <<Set(y, Str("a")), Nil>>,
    <<Set(k, Quote(Numbers(<<1, 2, 3>>))), Nil>>,
    <<Plus(x, x), Num(4)>>, <<y, Str("a")>>, <<k, Numbers(<<1, 2, 3>>)>>,
    <<Quote(a), a>>, <<Quote(Form("car", <<One>>)), Form("car", <<One>>)>> >>)

\* sprint-6/and.i, or.i, if.i and cond.i
ConsOneTwo == Form("cons", <<One, Quote(Numbers(<<2>>))>>)

BranchTest == Session(<<
    <<Form("and", <<Nil, Nil>>), Nil>>, <<Form("and", <<Nil, a>>), Nil>>,
    <<Form("and", <<One, Nil>>), Nil>>,
    <<Form("and", <<One, ConsOneTwo>>), Numbers(<<1, 2>>)>>,
    <<Form("and", <<Plus(Num(0), One), Plus(Num(5), Two)>>), Num(7)>>,
    <<Form("or", <<Nil, Nil>>), Nil>>, <<Form("or", <<Nil, One>>), One>>,
    <<Form("or", <<One, Nil>>), True>>,
    <<Form("or", <<Form("or", <<One, f>>), Form("or", <<Nil, f>>)>>), True>>,
    <<Form("if", <<Nil, One, Two>>), Two>>,
    <<Form("if", <<Form("symbol?", <<Quote(True)>>), Plus(One, Two), Nil>>), Num(3)>>,
    <<Form("if", <<One, ConsOneTwo, Quote(b)>>), Numbers(<<1, 2>>)>>,
    <<Form("cond", << List(<<Nil, Form("car", <<Quote(Numbers(<<1, 2>>))>>)>>),
                      List(<<Form("cdr", <<Quote(Numbers(<<1, 2>>))>>), Plus(One, Two)>>),
                      List(<<f, Nil>>) >>), Num(3)>> >>)

\* sprint-7/define.i and shadowing.i
DefineTest == Session(<<
    <<Define(f, <<x>>, <<Times(x, x)>>), Nil>>,
    <<Define(g, <<x>>, <<Times(CallOf(f, <<x>>), x)>>), Nil>>,
    <<CallOf(f, <<Num(5)>>), Num(25)>>, <<CallOf(g, <<Num(5)>>), Num(125)>>,
    <<Set(f, Two), Nil>>, <<CallOf(f, <<f>>), Num(4)>> >>)

\* sprint-8/basic.i and map.i: map is f, square is g.
MapTest == Session(<<
    <<List(<<Function(<<x>>, Plus(x, One)), Num(5)>>), Num(6)>>,
    <<Define(f, <<k, L>>, <<Form("cond", <<
        List(<<Form("nil?", <<L>>), Nil>>),
        List(<<Quote(True),
               Form("cons", <<Form("funcall", <<k, Form("car", <<L>>)>>),
                              CallOf(f, <<k, Form("cdr", <<L>>)>>)>>)>>)>>)>>), Nil>>,
    <<Define(g, <<x>>, <<Times(x, x)>>), Nil>>,
    <<CallOf(f, <<Function(<<y>>, Times(y, y)), Quote(Numbers(<<1, 2, 3>>))>>),
      Numbers(<<1, 4, 9>>)>>,
    <<CallOf(f, <<Form("function", <<g>>), Quote(Numbers(<<1, 2, 3>>))>>),
      Numbers(<<1, 4, 9>>)>> >>)

\* sprint-9/begin.i, let.i (its last part with another operation) and multi-def.i
BeginTest == Session(<<
    <<Form("begin", <<Set(x, Quote(y)), Set(y, One), Form("eval", <<x>>)>>), One>>,
    <<Form("begin", <<One, Two, Num(3)>>), Num(3)>>,
    <<Define(f, <<x>>, <<Form("begin", <<Set(a, Quote(b)), Set(b, x),
                                         Form("eval", <<a>>)>>)>>), Nil>>,
    <<CallOf(f, <<One>>), One>>, <<CallOf(f, <<Two>>), Two>> >>)

LetTest == Session(<<
    <<Form("begin", <<Let(x, One), Let(y, One), Plus(x, y)>>), Two>>,
    <<Set(k, Two), Nil>>,
    <<Define(f, <<x>>, <<Form("begin", <<Let(k, Times(x, Two)), Times(k, Two)>>)>>), Nil>>,
    <<CallOf(f, <<Two>>), Num(8)>>, <<CallOf(f, <<Num(3)>>), Num(12)>>,
    <<k, Two>> >>)

MultiDefTest == Session(<<
    <<Define(f, <<x>>, <<Times(x, x)>>), Nil>>,
    <<Define(g, <<x>>, <<Let(tmp, CallOf(f, <<x>>)), Times(tmp, x)>>), Nil>>,
    <<Define(k, <<x>>, <<Let(x, CallOf(f, <<x>>)), CallOf(f, <<x>>)>>), Nil>>,
    <<CallOf(f, <<Num(3)>>), Num(9)>>, <<CallOf(g, <<Num(3)>>), Num(27)>>,
    <<CallOf(k, <<Num(3)>>), Num(81)>> >>)

\* sprint-7/sort.i: insertionsort, with INSERTSORT as g and insert as f.
SortTest == Session(<<
    <<Define(g, <<a, b>>, <<Form("cond", <<
        List(<<Form("nil?", <<a>>), b>>),
        List(<<Quote(True), CallOf(g, <<Form("cdr", <<a>>),
                                        CallOf(f, <<Form("car", <<a>>), b>>)>>)>>)>>)>>), Nil>>,
    <<Define(f, <<x, L>>, <<Form("cond", <<
        List(<<Form("nil?", <<L>>), Form("cons", <<x, Nil>>), tmp>>),
        List(<<Form("lte", <<x, Form("car", <<L>>)>>), Form("cons", <<x, L>>), tmp>>),
        List(<<Quote(True), Form("cons", <<Form("car", <<L>>),
                 CallOf(f, <<x, Form("cdr", <<L>>)>>)>>), tmp>>)>>)>>), Nil>>,
    <<CallOf(g, <<Quote(Numbers(<<3, 1, 2>>)), Nil>>), Numbers(<<1, 2, 3>>)>> >>)

Sessions == {SetTest, BranchTest, DefineTest, MapTest, BeginTest, LetTest,
             MultiDefTest, SortTest}

Tests == {s.input : s \in Sessions}
TestOutputs == [p \in Tests |-> (CHOOSE s \in Sessions : s.input = p).output]

-----------------------------------------------------------------------------
(***************************************************************************)
(* Programs that fail, that never stop by themselves, and that go too deep.*)
(***************************************************************************)
Unbound == Sym("unbound")

Runaways == {
    <<Define(f, <<x>>, <<CallOf(f, <<x>>)>>), CallOf(f, <<One>>), CallOf(f, <<Unbound>>)>>,
    <<Define(f, <<>>, <<CallOf(f, <<>>)>>), CallOf(f, <<>>), One>>,
    <<Set(x, Quote(Form("eval", <<x>>))), Form("eval", <<x>>)>>,
    <<Define(f, <<x>>, <<Form("or", <<CallOf(f, <<x>>), CallOf(f, <<x>>)>>)>>),
      CallOf(f, <<One>>)>>,
    <<Form("cond", <<List(<<Nil, One>>), List(<<Nil, Two>>)>>),
      Form("cond", <<List(<<Unbound, One>>)>>)>>,
    <<Form("begin", <<Let(x, Unbound), One>>), Form("begin", <<Set(x, Unbound), One>>),
      Let(One, One), Set(One, One), Form("and", <<Unbound, One>>),
      Form("if", <<Unbound, One, Two>>), x>>,
    <<Form("begin", <<Set(x, Two), Let(y, Plus(x, One)), Plus(x, y)>>),
      Plus(Unbound, One), Plus(x, Nil), Form("==", <<Nil, One>>)>>,
    <<Form("define", <<f>>), Define(One, <<x>>, <<x>>), CallOf(f, <<>>),
      Form("function", <<f>>), Form("function", <<One>>), Function(<<One>>, x)>>,
    <<Form("funcall", <<>>), Form("funcall", <<One>>), Form("funcall", <<f>>),
      Set(f, One), Form("funcall", <<f>>)>> }

\* Programs that use a value a collection may have moved, each in another way.
Moving == {<<Set(y, Form("if", <<One, Set(x, Two), Num(3)>>)), y>>,
           <<Form("begin", <<Let(y, Form("if", <<One, Set(x, Two), Num(3)>>)), y>>)>>,
           <<Plus(Form("if", <<One, Set(x, Two), Num(3)>>), One)>>,
           <<Form("begin", <<Form("if", <<One, Set(x, Two), Num(3)>>), Plus(One, x)>>)>>}

\* The structure of a built-in, put together while the collector may run.
BuiltinStructures == {<<Set(f, Form("function", <<Sym("car")>>)), One>>}

\* Attempts to put a structure together out of the parts of another, or to read or
\* bind what marks one.
Identity == Function(<<x>>, x)
Forgeries == {
    <<Set(f, Form("cons", <<Form("car", <<Identity>>), Nil>>)), Form("funcall", <<f, One>>)>>,
    <<Set(f, Form("cons", <<Form("car", <<Identity>>), Form("cons", <<One, Two>>)>>)),
      Form("funcall", <<f>>)>>,
    <<Set(f, Identity), Set(g, Form("cons", <<Quote(Sym("quote")), f>>)), Form("eval", <<g>>),
      Set(g, Form("cons", <<Quote(Sym("begin")), f>>)), Form("eval", <<g>>),
      Set(g, Form("cons", <<Quote(Sym("cond")), f>>)), Form("eval", <<g>>),
      Form("funcall", <<g>>), Form("funcall", <<f, Two>>)>> }

\* A funcall of funcall: frames beyond the limit.
FuncallChains == {
    <<Set(g, Form("function", <<Sym("funcall")>>)),
      Set(f, Function(<<x>>, x)),
      Form("funcall", [i \in 1 .. 22 |-> g] \o <<f, One>>)>> }

\* A definition whose parameter is not a symbol.
MalformedDefinitions == {<<Define(f, <<One>>, <<x>>), One>>}

\* The value of an "if" whose branch assigns.
AssigningBranches == {<<Form("if", <<One, Set(x, Two), Num(3)>>)>>}

\* A false "and" inside another form.
NestedAnds == {<<Form("if", <<Form("and", <<Nil, One>>), One, Two>>)>>}

Failing == Runaways \cup Moving \cup Forgeries \cup AssigningBranches \cup BuiltinStructures
           \cup FuncallChains

TestedOrFailing == Tests \cup Failing

SessionParts == FormsOf(TestedOrFailing)

\* TLC keeps the value of a definition, but not of one a constant stands for.
PureForms == PureParts
SessionForms == SessionParts
DefinitionForms == FormsOf(MalformedDefinitions)
BranchForms == FormsOf(AssigningBranches)
AndForms == FormsOf(NestedAnds)
=============================================================================
