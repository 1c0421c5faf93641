--------------------------- MODULE EvalInvariant ---------------------------
(***************************************************************************)
(* The inductive invariant of the evaluator that its depth and its roots   *)
(* follow from.  It looks at the kinds of the activations on the C stack,  *)
(* at how many frames there are, and at no value.                          *)
(***************************************************************************)
EXTENDS EvalProperties, CommonFacts

\* Of the n outermost activations, how many are of kind k.
Count(kinds, k, n) == Cardinality({d \in 1 .. n : KindAt(kinds, d) = k})
Funcs(kinds) == Count(kinds, "eval_func", Len(kinds))
Funcalls(kinds) == Count(kinds, "funcall", Len(kinds))

\* However many activations are left, those that remain are within the limit.
Limited(kinds) ==
    \A n \in 0 .. Len(kinds) :
        Count(kinds, "eval_func", n) <= MaxDepth + Count(kinds, "funcall", n)

\* eval is the outermost activation, and no other is one of it.
EvalOutermost(kinds) == \A d \in 1 .. Len(kinds) : KindAt(kinds, d) = "eval" <=> d = 1

Working == {"eval", "call", "apply", "return"}

\* Of the interpreter in a mode, with a stack and a number of frames.  A frame is there
\* for each call of eval_func, as long as no error keeps others; a call may still
\* push one.
Sound(m, kinds, depth, e) ==
    /\ m \in Working \cup {"idle", "fault"}
    /\ m = "idle" => kinds = <<>>
    /\ m \in Working => kinds # <<>> /\ EvalOutermost(kinds)
    /\ e = NoError /\ m # "fault" =>
         /\ depth = Funcs(kinds)
         /\ Limited(kinds)
         /\ m = "call" => depth < MaxDepth + Funcalls(kinds)
    /\ e = NoError => depth <= MaxDepth + Funcalls(kinds)

IsKonts(ks) == IsStack(ks) /\ \A i \in DOMAIN ks : "k" \in DOMAIN ks[i]

IInv ==
    /\ IsKonts(konts) /\ IsStack(frames)
    /\ Sound(mode.k, Kinds(konts), Len(frames), error)

\* The entries of the root array and the activations agree.
Held(kinds) == Cardinality(Entries(kinds))
Rooted(n) == nroots = n + Held(Kinds(konts))
Balanced == Rooted(2)

\* The one step that disturbs this: define refuses, and leaves args rooted.
RefusesDefinition == ApplyDefine /\ nroots' # nroots

\* "and" reports a failure because its first operand is nil, and records no error.
AndYieldsNil == AndFirst /\ mode.ok /\ mode' = Return(FALSE)

\* What returns says success or failure, and has recorded an error if it fails.
Answered ==
    /\ mode.k = "return" => mode \in {Return(TRUE), Return(FALSE)}
    /\ FailureHasError

GoesOn(m) == m.k # "return" \/ m = Return(TRUE)
=============================================================================
