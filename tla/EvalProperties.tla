-------------------------- MODULE EvalProperties --------------------------
(***************************************************************************)
(* What is checked of Eval.tla, but for what forms mean                    *)
(* (MeaningProperties).                                                    *)
(***************************************************************************)
EXTENDS Eval, FiniteSets

CONSTANT Expected       \* the outputs the tests ask for, of the programs they run

\* No binding was left behind by a collection.
Bound(env) ==
    EnvParallel(env) /\ \A i \in DOMAIN env.values : env.values[i] # Stale

TypeOK ==
    /\ program \in Programs
    /\ Len(outputs) <= Len(program)
    /\ mode.k \in {"idle", "eval", "call", "apply", "return", "fault"}
    /\ mode.k = "idle" <=> konts = <<>>
    /\ \A i \in DOMAIN frames :
         frames[i].valid \in BOOLEAN /\ Bound(frames[i].env)
    /\ Bound(vars) /\ Bound(funcs)
    /\ nroots \in Nat

\* builtin_funcall takes any list apart that begins with 'function, and checks nothing
\* (builtin.c:822): no program can put such a list together itself, or hold a part of
\* one that function, lambda or define has made.
StructuresAreGenuine ==
    Running("funcall") /\ FuncallError = NoError =>
        LET f == Lookup(Name(args[1])) IN
        IsList(f) /\ Len(f[2]) = 4 /\ FunctionDefError(Cddr(f)) = NoError

\* The activations on the C stack by their depth, and those of one kind.
Kinds(ks) == [i \in DOMAIN ks |-> ks[i].k]
KindAt(kinds, d) == kinds[Len(kinds) - d + 1]
Activations(kinds, k) == {d \in 1 .. Len(kinds) : KindAt(kinds, d) = k}

\* How many entries of the root array an activation that waits has made.
RootsOf(k) ==
    CASE k \in {"eval", "args", "if", "let"} -> 3
      [] k = "eval_func" -> 4
      [] k = "branch" -> 0
      [] OTHER -> 2

\* The entries of the root array that are due to the activations.
Entries(kinds) ==
    UNION {{d} \X (1 .. RootsOf(KindAt(kinds, d))) : d \in 1 .. Len(kinds)}

RootsHeld == Cardinality(Entries(Kinds(konts)))

\* At every moment, on every path out of every function, early or late, the root
\* array has exactly the entries of the activations on the stack and the two of
\* the VM; so drive finds the count it started with (main.c:15 and main.c:22).
RootsMatchStack == mode # Fault => nroots = 2 + RootsHeld

\* "ASSERT(root_count == vm->gc.root_count)" after every form (main.c:22): when eval
\* is about to return, its own three variables and the two of the VM are rooted.
RootsBalanced == (mode.k = "return" /\ konts[1].k = "eval") => nroots = 5

\* No assertion fails and no object is used through a pointer that a collection
\* left behind, whichever allocations collect: what is live across an allocation
\* is rooted.
NoStaleUse == mode # Fault

\* A form that fails has recorded why: eval (eval.c:24) tells failure from success
\* by the error alone and drops what eval_internal returned.
FailureHasError == mode = Return(FALSE) => error # NoError

\* Every frame that was pushed for a form that succeeds is popped again, on each of
\* the ways out of eval_func (eval-impl.c:332).
FramesUnwound == mode = Idle /\ error = NoError => frames = <<>>

\* "The maximum stack depth allowed was reached" (eval-context.c:43) before the
\* stack is deeper than that, but for the frames funcall pushes: it calls eval_func
\* without the check of eval_internal (builtin.c:821).
DepthBounded ==
    error = NoError =>
        Len(frames) <= MaxDepth
                       + Cardinality(Activations(Kinds(konts), "funcall"))

\* The forms of the integration tests have the values these ask for, and use no
\* object that has moved, wherever a collection happens.
OutputsAsTested ==
    program \in DOMAIN Expected =>
        /\ NoStaleUse
        /\ \A i \in DOMAIN outputs : outputs[i] = Expected[program][i]

\* Every program comes to an end: runaway recursion ends in an error.
Ends == <>(AtEnd \/ mode = Fault)
=============================================================================
