--------------------------- MODULE ValueInvariant ---------------------------
(***************************************************************************)
(* The inductive invariant of the evaluator about the values it works      *)
(* with: what is evaluated, bound and waited for are S-expressions of the  *)
(* program's own vocabulary, and what begins with 'function is one of the  *)
(* structures function, lambda and define make, or the end of a list that  *)
(* goes on in front of it.                                                 *)
(***************************************************************************)
EXTENDS EvalInvariant

\* The symbols a program is written with, and those the built-ins make.
Vocabulary == Forms \cup {True, Sym("lambda"), Sym("begin"), FunctionMark}

\* A list of symbols is what FunctionDefError takes for the parameters of a definition.
IsParameters(x) == IsCons(x) /\ \A i \in DOMAIN x[2] : IsSymbol(x[2][i])

\* From its position i on, s is ('function id parameters body).  What is in the place of
\* id is no parameter list, so that s is not the arguments of a define either.
StructureAt(s, i) ==
    /\ Len(s) = i + 3
    /\ ~IsParameters(s[i + 1])
    /\ FunctionDefError(List(<<s[i + 2], s[i + 3]>>)) = NoError

\* What x may be, if its parts are in S.
Formed(x, S) ==
    /\ MadeOf(x, S)
    /\ IsSymbol(x) => x \in Vocabulary
    /\ IsCons(x) => \A i \in DOMAIN x[2] :
                       x[2][i] = FunctionMark => IsList(x) /\ StructureAt(x[2], i)
    /\ x[1] = "dotted" => x[3] # FunctionMark

Hereditary(S) == \A x \in S : Formed(x, S)

\* An S-expression is formed well, and so are its parts, the parts of these, and so on.
IsSExpr(x) == \E S : x \in S /\ Hereditary(S)

\* 'function itself is the value of nothing.
IsValue(x) == IsSExpr(x) /\ x # FunctionMark

-----------------------------------------------------------------------------
EnvOK(env) ==
    /\ IsStack(env.symbols) /\ IsStack(env.values) /\ EnvParallel(env)
    /\ \A i \in DOMAIN env.values : IsValue(env.values[i])

FuncsOK(env) == EnvOK(env) /\ \A i \in DOMAIN env.values : IsFunctionStruct(env.values[i])

FrameOK(frame) ==
    {"valid", "env"} \subseteq DOMAIN frame /\ frame.valid \in BOOLEAN /\ EnvOK(frame.env)

\* What eval_func may be called with, and what it goes on with when there are n arguments.
Callable(id, def) ==
    IsSExpr(id) /\ (IsBuiltin(id) \/ (IsSExpr(def) /\ FunctionDefError(def) = NoError))

Arity(id, def, n) ==
    IF IsBuiltin(id) THEN Name(id) \in Variadic \/ ArgCount(Name(id)) = n
    ELSE Len(Car(def)[2]) = n

AllValues(s) == IsStack(s) /\ \A i \in DOMAIN s : IsValue(s[i])

\* The arguments that are left, and the values of those before; one is being evaluated.
ArgsOK(kont) ==
    /\ {"id", "def", "rest", "done"} \subseteq DOMAIN kont
    /\ Callable(kont.id, kont.def) /\ EvaluatesArguments(kont.id)
    /\ IsList(kont.rest) /\ IsSExpr(kont.rest)
    /\ IsList(kont.done) /\ kont.done = List(kont.done[2]) /\ AllValues(kont.done[2])
    /\ Arity(kont.id, kont.def, Len(kont.done[2]) + 1 + Len(kont.rest[2]))

\* The first clause is tried.
IsClause(x) == IsPair(x) /\ IsPair(Cdr(x))

\* The activations that wait for a value.
Waiting == {"eval", "args", "and", "or", "if", "cond", "tail", "branch", "let", "set"}

KontOK(kont) ==
    /\ "result" \in DOMAIN kont <=> kont.k \in Waiting
    /\ kont.k \in Waiting => IsValue(kont.result) \/ kont.result = Stale
    /\ kont.k = "args" => ArgsOK(kont)
    /\ kont.k \in {"and", "or"} => "other" \in DOMAIN kont /\ IsSExpr(kont.other)
    /\ kont.k = "if" => /\ {"then", "else"} \subseteq DOMAIN kont
                        /\ IsSExpr(kont.then) /\ IsSExpr(kont.else)
    /\ kont.k = "cond" => /\ "clauses" \in DOMAIN kont
                          /\ IsList(kont.clauses) /\ IsPair(kont.clauses)
                          /\ IsSExpr(kont.clauses) /\ IsClause(Car(kont.clauses))
    /\ kont.k = "begin" => /\ "rest" \in DOMAIN kont
                           /\ IsList(kont.rest) /\ IsSExpr(kont.rest)
    /\ kont.k \in {"let", "set"} => Sym(kont.k) \in Vocabulary

ModeOK(m) ==
    /\ m.k = "eval" => IsSExpr(m.x)
    /\ m.k = "call" => Callable(m.id, m.def) /\ IsSExpr(m.args)
    /\ m.k = "apply" =>
         /\ Callable(m.id, m.def) /\ IsList(m.args) /\ IsSExpr(m.args)
         /\ EvaluatesArguments(m.id) => AllValues(m.args[2])
         /\ Arity(m.id, m.def, Len(m.args[2]))

StoreOK ==
    (\A i \in DOMAIN frames : FrameOK(frames[i])) /\ EnvOK(vars) /\ FuncsOK(funcs)

KontsOK(ks) == \A i \in DOMAIN ks : KontOK(ks[i])

VInv ==
    /\ program \in Programs /\ IsStack(outputs) /\ Len(outputs) <= Len(program)
    /\ mode.k \in Working => Len(outputs) < Len(program)
    /\ mode.k # "idle" => konts # <<>>
    /\ StoreOK
    /\ KontsOK(konts)
    /\ ModeOK(mode)

\* No root is dropped that was not made.
Ample == \E n \in Nat : n >= 2 /\ Rooted(n)

-----------------------------------------------------------------------------
\* The activation a value goes to has one.
Given(ks) ==
    \E i \in DOMAIN ks : /\ "result" \in DOMAIN ks[i] /\ ks[i].result # Stale
                         /\ \A j \in 1 .. i - 1 : "result" \notin DOMAIN ks[j]

\* At the bottom is an activation of eval, whose result has not moved.
Grounded(ks) ==
    /\ IsKonts(ks)
    /\ \E n \in Nat : /\ n # 0 /\ Len(ks) = n /\ ks[n].k = "eval"
                      /\ "result" \in DOMAIN ks[n] /\ ks[n].result # Stale

\* What eval waits for is where it was, and so is what is reported as a success.
Fresh ==
    /\ NoStaleUse
    /\ mode.k = "return" => mode \in {Return(TRUE), Return(FALSE)}
    /\ mode.k \in Working => Grounded(konts)
    /\ mode = Return(TRUE) => Given(konts)

\* The two ways to such a value: let, set and define report success and leave an old
\* one, and the structure of a built-in is made of parts that are not rooted.
LeavesStale ==
    (ApplyDefine \/ LetValue \/ SetValue) /\ mode' = Return(TRUE) /\ ~Given(konts')

FunctionOfBuiltin ==
    Running("function") /\ IsSymbol(args[1]) /\ ~EnvFinds(funcs, Name(args[1]))
    /\ IsBuiltin(args[1]) /\ ApplyFunction

\* The forms without which none of this happens.
Assigning == {Sym("set"), Sym("let"), Sym("define"), Sym("function")}
=============================================================================
