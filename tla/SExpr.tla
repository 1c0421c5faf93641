------------------------------- MODULE SExpr -------------------------------
(***************************************************************************)
(* S-expressions as values, and the checks and built-in functions that     *)
(* only compute: sexpr.h, the validators of eval-impl.c, and the built-ins *)
(* of builtin.c that evaluate nothing.                                     *)
(*                                                                         *)
(* Cells are never changed once the evaluator has published them, so that  *)
(* a chain of cells is its sequence of cars and what its last cdr is.      *)
(* Numbers are integers; division, "mod" and rounding are left out.        *)
(***************************************************************************)
EXTENDS Integers, Sequences

Sym(name) == <<"symbol", name>>
Str(text) == <<"string", text>>
Num(n) == <<"number", n>>
List(s) == <<"list", s>>
Dotted(s, last) == <<"dotted", s, last>>

Nil == List(<<>>)

IsSymbol(x) == x[1] = "symbol"
IsString(x) == x[1] = "string"
IsNumber(x) == x[1] = "number"
IsCons(x) == x[1] \in {"list", "dotted"}
IsList(x) == x[1] = "list"

Name(x) == x[2]

Cons(a, d) ==
    CASE d[1] = "list" -> List(<<a>> \o d[2])
      [] d[1] = "dotted" -> Dotted(<<a>> \o d[2], d[3])
      [] OTHER -> Dotted(<<a>>, d)

Car(x) == x[2][1]

Cdr(x) ==
    CASE IsList(x) -> List(Tail(x[2]))
      [] ~IsList(x) /\ Len(x[2]) = 1 -> x[3]
      [] OTHER -> Dotted(Tail(x[2]), x[3])

Cadr(x) == Car(Cdr(x))
Cddr(x) == Cdr(Cdr(x))

IsPair(x) == IsCons(x) /\ x # Nil

\* A symbol, string or number, or a chain of cells with cars, and a last cdr, in S.
MadeOf(x, S) ==
    \/ IsSymbol(x) \/ IsString(x) \/ IsNumber(x)
    \/ IsList(x) /\ x = List(x[2]) /\ x[2] \in Seq(S)
    \/ /\ x[1] = "dotted" /\ x[2] \in Seq(S) /\ x[2] # <<>>
       /\ x[3] \in S /\ ~IsCons(x[3])

-----------------------------------------------------------------------------
(***************************************************************************)
(* The validators return the error they record, or NoError.                *)
(***************************************************************************)
NoError == "none"

\* The body of a definition is ((symbol ...) body).
FunctionDefError(def) ==
    IF ~IsList(def) \/ Len(def[2]) # 2 THEN "erronous_arg_count"
    ELSE LET symbols == Car(def) IN
         IF ~IsCons(symbols) THEN "invalid_type"
         ELSE IF \E i \in DOMAIN symbols[2] : ~IsSymbol(symbols[2][i])
         THEN "invalid_arg_def_type"
         ELSE IF ~IsList(symbols) THEN "dotted_arg_list"
         ELSE NoError

\* (lambda (symbol ...) body), written where the name of a function is expected.
IsLambda(x) ==
    IsPair(x) /\ Car(x) = Sym("lambda") /\ FunctionDefError(Cdr(x)) = NoError

FunctionMark == Sym("'function")

\* ('function id (symbol ...) body), the value of function, lambda and define.
FunctionStruct(id, def) == Cons(FunctionMark, Cons(id, def))

IsFunctionStruct(x) == IsPair(x) /\ Car(x) = FunctionMark

-----------------------------------------------------------------------------
(***************************************************************************)
(* builtin_def_list: how many arguments a built-in takes, and whether they *)
(* are evaluated first.                                                    *)
(***************************************************************************)
Predicates == {"nil?", "symbol?", "string?", "number?", "list?", "sexp_to_bool",
               "not", "!"}
Arithmetic == {"add", "+", "sub", "-", "mul", "*"}
Comparisons == {"lt", "<", "gt", ">", "lte", "<=", "gte", ">="}
Equalities == {"eq", "==", "neq", "!="}

OneArgument == Predicates \cup {"car", "cdr", "eval", "print", "function", "quote"}
TwoArguments == Arithmetic \cup Comparisons \cup Equalities
                \cup {"cons", "and", "or", "lambda", "let", "set"}
Variadic == {"begin", "cond", "define", "funcall"}

Builtins == OneArgument \cup TwoArguments \cup {"if"} \cup Variadic

KeepsArguments == {"and", "or", "if", "function", "lambda", "let", "quote", "set"}
                  \cup Variadic

ArgCount(b) == CASE b \in OneArgument -> 1
                 [] b \in TwoArguments -> 2
                 [] b = "if" -> 3
                 [] b \in Variadic -> 0

IsBuiltin(x) == IsSymbol(x) /\ Name(x) \in Builtins

-----------------------------------------------------------------------------
(***************************************************************************)
(* The built-ins that neither evaluate nor touch the environment.  A       *)
(* result is [ok, value, error].                                           *)
(***************************************************************************)
Ok(v) == [ok |-> TRUE, value |-> v, error |-> NoError]
Err(e) == [ok |-> FALSE, value |-> Nil, error |-> e]

True == Sym("t")
Truth(b) == IF b THEN True ELSE Nil

Holds(predicate, x) ==
    CASE predicate \in {"nil?", "not", "!"} -> x = Nil
      [] predicate = "symbol?" -> IsSymbol(x)
      [] predicate = "string?" -> IsString(x)
      [] predicate = "number?" -> IsNumber(x)
      [] predicate = "list?" -> IsCons(x)
      [] predicate = "sexp_to_bool" -> x # Nil

Calculated(b, m, n) ==
    CASE b \in {"add", "+"} -> Num(m + n)
      [] b \in {"sub", "-"} -> Num(m - n)
      [] b \in {"mul", "*"} -> Num(m * n)
      [] b \in {"lt", "<"} -> Truth(m < n)
      [] b \in {"gt", ">"} -> Truth(m > n)
      [] b \in {"lte", "<="} -> Truth(m <= n)
      [] b \in {"gte", ">="} -> Truth(m >= n)

\* builtin_eq: numbers are equal when they differ by less than a millionth of
\* their product, which no two numbers do when one of them is 0 or negative and
\* the other is not.
NumbersEqual(m, n) == 1000000 * (IF m > n THEN m - n ELSE n - m) < m * n

Compared(x, y) ==
    CASE IsSymbol(x) /\ IsSymbol(y) -> Ok(Truth(x = y))
      [] IsString(x) /\ IsString(y) -> Ok(Truth(x = y))
      [] IsNumber(x) /\ IsNumber(y) -> Ok(Truth(NumbersEqual(x[2], y[2])))
      [] IsCons(x) \/ IsCons(y) -> Err("illegal_func_call")
      [] OTHER -> Err("invalid_type")

\* Mutant: car and cdr take a function structure apart like any other list.
PartOfAny(b, x) ==
    IF ~IsCons(x) THEN Err("invalid_type")
    ELSE IF x = Nil THEN Ok(Nil)
    ELSE Ok(IF b = "car" THEN Car(x) ELSE Cdr(x))

\* car and cdr treat the empty list as its own parts, and refuse to take a
\* function structure apart.
PartOf(b, x) ==
    IF ~IsCons(x) \/ IsFunctionStruct(x) THEN Err("invalid_type")
    ELSE IF x = Nil THEN Ok(Nil)
    ELSE Ok(IF b = "car" THEN Car(x) ELSE Cdr(x))

Simple == Predicates \cup Arithmetic \cup Comparisons \cup Equalities
          \cup {"car", "cdr", "cons", "print", "quote"}

\* two_numbers asks whether the context has an error, which may be an old one.
Applied(b, args, error) ==
    CASE b \in Predicates -> Ok(Truth(Holds(b, args[1])))
      [] b \in Arithmetic \cup Comparisons ->
           IF ~IsNumber(args[1]) \/ ~IsNumber(args[2]) THEN Err("invalid_type")
           ELSE IF error # NoError THEN Err(error)
           ELSE Ok(Calculated(b, args[1][2], args[2][2]))
      [] b \in {"eq", "=="} -> Compared(args[1], args[2])
      [] b \in {"neq", "!="} ->
           LET equal == Compared(args[1], args[2]) IN
           IF equal.ok THEN Ok(Truth(equal.value = Nil)) ELSE equal
      [] b \in {"car", "cdr"} -> PartOf(b, args[1])
      [] b = "cons" -> Ok(Cons(args[1], args[2]))
      [] b \in {"print", "quote"} -> Ok(args[1])

\* Whether the built-in allocates on its way to a value.
Allocates(b, value) ==
    \/ b \in {"neq", "!="}
    \/ b \notin {"car", "cdr", "print", "quote"} /\ value # Nil
=============================================================================
