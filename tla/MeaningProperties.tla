------------------------- MODULE MeaningProperties -------------------------
(***************************************************************************)
(* What a form without assignments means: its value in an environment, at  *)
(* a depth of calls.  There is no stack, store or context; bindings of the *)
(* callers are visible to the called.                                      *)
(***************************************************************************)
EXTENDS EvalProperties, TLC

RECURSIVE Meaning(_, _, _), Meanings(_, _, _), ClauseMeaning(_, _, _), LastMeaning(_, _, _)

\* Of several forms: the list of their values, or the first error.
Meanings(xs, env, depth) ==
    IF xs = <<>> THEN Ok(Nil)
    ELSE LET first == Meaning(Head(xs), env, depth) IN
         IF ~first.ok THEN first
         ELSE LET rest == Meanings(Tail(xs), env, depth) IN
              IF rest.ok THEN Ok(Cons(first.value, rest.value)) ELSE rest

LastMeaning(xs, env, depth) ==
    LET all == Meanings(xs, env, depth) IN
    IF xs = <<>> THEN Err("erronous_arg_count")
    ELSE IF all.ok THEN Ok(all.value[2][Len(xs)]) ELSE all

ClauseMeaning(clauses, env, depth) ==
    IF clauses = <<>> THEN Err("illegal_func_call")
    ELSE IF ~IsPair(Head(clauses)) \/ ~IsPair(Cdr(Head(clauses)))
    THEN Err("cond_arg_not_pair")
    ELSE LET test == Meaning(Car(Head(clauses)), env, depth) IN
         IF ~test.ok THEN test
         ELSE IF test.value = Nil THEN ClauseMeaning(Tail(clauses), env, depth)
         ELSE Meaning(Cadr(Head(clauses)), env, depth)

\* Of a built-in that decides itself what to evaluate.
SpecialMeaning(b, xs, env, depth) ==
    CASE b = "quote" -> Ok(xs[1])
      [] b = "begin" -> LastMeaning(xs, env, depth)
      [] b = "cond" -> ClauseMeaning(xs, env, depth)
      [] b = "if" ->
           LET test == Meaning(xs[1], env, depth) IN
           IF ~test.ok THEN test
           ELSE Meaning(IF test.value # Nil THEN xs[2] ELSE xs[3], env, depth)
      [] b = "and" ->
           LET first == Meaning(xs[1], env, depth) IN
           IF ~first.ok \/ first.value = Nil THEN first ELSE Meaning(xs[2], env, depth)
      [] b = "or" ->
           LET first == Meaning(xs[1], env, depth) IN
           IF ~first.ok THEN first
           ELSE IF first.value # Nil THEN Ok(True) ELSE Meaning(xs[2], env, depth)

Meaning(x, env, depth) ==
    CASE IsSymbol(x) -> IF Name(x) \in DOMAIN env THEN Ok(env[Name(x)])
                        ELSE Err("symbol_lookup_failed")
      [] ~IsSymbol(x) /\ ~IsPair(x) -> Ok(x)
      [] IsPair(x) ->
           LET id == Car(x)
               xs == x[2]
               operands == Tail(xs)
               values == Meanings(operands, env, depth + 1) IN
           IF depth >= MaxDepth THEN Err("max_stack_depth_reached")
           ELSE IF ~IsFunction(id) THEN Err("illegal_func_call")
           ELSE IF CallError(id, Definition(id), Cdr(x)) # NoError
           THEN Err(CallError(id, Definition(id), Cdr(x)))
           ELSE IF IsBuiltin(id) /\ Name(id) \in KeepsArguments
           THEN SpecialMeaning(Name(id), operands, env, depth + 1)
           ELSE IF ~values.ok THEN values
           ELSE IF id = Sym("eval") THEN Meaning(values.value[2][1], env, depth + 1)
           ELSE IF IsBuiltin(id) THEN Applied(Name(id), values.value[2], NoError)
           ELSE LET names == Car(Definition(id))[2] IN
                Meaning(Cadr(Definition(id)),
                        [name \in {Name(names[i]) : i \in DOMAIN names} |->
                            values.value[2][CHOOSE i \in DOMAIN names :
                                                Name(names[i]) = name]] @@ env,
                        depth + 1)

\* Every form without assignments has the value its meaning says, or an error where
\* that says so: arguments left to right, branches that are not taken not
\* evaluated, the innermost binding found, wherever a collection happens.
ValueIsMeaning ==
    \A i \in DOMAIN outputs :
        LET meaning == Meaning(program[i], [name \in {} |-> Nil], 0) IN
        IF meaning.ok THEN outputs[i] = meaning.value ELSE outputs[i][1] = "error"
=============================================================================
