------------------------------- MODULE Eval -------------------------------
(***************************************************************************)
(* The evaluator: drive of main.c, eval, eval_internal, eval_func and the  *)
(* built-ins, with the evaluation context and the environments they keep.  *)
(*                                                                         *)
(* The C stack is the sequence konts, innermost activation first.  An      *)
(* activation that waits for a value owns the variable the value is        *)
(* written to, its field result; the activations without one pass on the   *)
(* pointer they were given, so that a value goes to the nearest result.    *)
(*                                                                         *)
(* Objects move at every allocation that collects, which is a choice.      *)
(* What a rooted variable contains follows them and stands for itself;     *)
(* what an unrooted variable contains becomes Stale.                       *)
(***************************************************************************)
EXTENDS SExpr, Environment

CONSTANTS
    Programs,   \* the sequences of forms the driver may be given
    Forms,      \* those forms and the S-expressions they are made of
    MaxDepth    \* 4096, the depth at which eval_internal refuses a call

ASSUME MaxDepthAssumption == MaxDepth \in Nat

\* The forms are what the parser has read: no symbol in them begins with a quote, for
\* that is a token of its own (lexer.c:524).
ASSUME ProgramsAssumption == Programs \subseteq Seq(Forms)
ASSUME FormsAssumption == (\A x \in Forms : MadeOf(x, Forms)) /\ FunctionMark \notin Forms

VARIABLES
    program,    \* the forms in the input
    outputs,    \* what drive printed: a value or <<"error", error>> per form
    mode,       \* what the innermost activation is about to do
    konts,      \* the activations that wait, innermost first
    frames,     \* context->frame, a sequence of [id, valid, env]
    error,      \* context->error, NoError while has_error is false
    vars,       \* vm->vars
    funcs,      \* vm->funcs
    nroots      \* gc->root_count

state == <<program, outputs, mode, konts, frames, error, vars, funcs, nroots>>

\* A pointer to where an object was before the last collection.
Stale == <<"stale">>

Idle == [k |-> "idle"]
Evaluate(x) == [k |-> "eval", x |-> x]
Call(id, def, args) == [k |-> "call", id |-> id, def |-> def, args |-> args]
Apply(id, def, args) == [k |-> "apply", id |-> id, def |-> def, args |-> args]
Return(ok) == [k |-> "return", ok |-> ok]
Fault == [k |-> "fault"]

Init ==
    /\ program \in Programs
    /\ outputs = <<>>
    /\ mode = Idle
    /\ konts = <<>>
    /\ frames = <<>>
    /\ error = NoError
    /\ vars = EnvInit
    /\ funcs = EnvInit
    /\ nroots = 2           \* vm->vars.list and vm->funcs.list

-----------------------------------------------------------------------------
(***************************************************************************)
(* Activations, values and collections.                                    *)
(***************************************************************************)
Push(kont) == <<kont>> \o konts
Below == Tail(konts)

\* A value is written through the result pointer.
Deliver(ks, v) ==
    LET i == CHOOSE i \in DOMAIN ks :
                /\ "result" \in DOMAIN ks[i]
                /\ \A j \in 1 .. i - 1 : "result" \notin DOMAIN ks[j]
    IN  [ks EXCEPT ![i].result = v]

\* Mutant: args_list of eval_func is not rooted.
UnrootedArguments(kont) ==
    IF kont.k = "eval" THEN {} ELSE DOMAIN kont \cap {"result", "done"}

\* The variables of a waiting activation that no VM_ROOT covers: tmp of
\* eval_func and the eval_result of the built-ins.
Unrooted(kont) == IF kont.k = "eval" THEN {} ELSE DOMAIN kont \cap {"result"}

Moved(kont) ==
    [f \in DOMAIN kont |->
        IF f \in Unrooted(kont) /\ kont[f] # Nil THEN Stale ELSE kont[f]]

Collected(ks, collect) ==
    IF collect THEN [i \in DOMAIN ks |-> Moved(ks[i])] ELSE ks

\* A failed ASSERT, or undefined behaviour: a dangling pointer was used.
Crash ==
    /\ mode' = Fault
    /\ UNCHANGED <<program, outputs, konts, frames, error, vars, funcs, nroots>>

\* eval_context_lookup: every frame is searched, valid or not, then the globals.
Found(name) ==
    (\E i \in DOMAIN frames : EnvFinds(frames[i].env, name)) \/ EnvFinds(vars, name)

\* Mutant: the globals hide the frames, and the outermost frame the others.
LookupOutermost(name) ==
    IF EnvFinds(vars, name) THEN EnvLookup(vars, name)
    ELSE LET i == CHOOSE i \in DOMAIN frames :
                     /\ EnvFinds(frames[i].env, name)
                     /\ \A j \in i + 1 .. Len(frames) : ~EnvFinds(frames[j].env, name)
         IN  EnvLookup(frames[i].env, name)

Lookup(name) ==
    IF \E i \in DOMAIN frames : EnvFinds(frames[i].env, name)
    THEN LET i == CHOOSE i \in DOMAIN frames :
                     /\ EnvFinds(frames[i].env, name)
                     /\ \A j \in 1 .. i - 1 : ~EnvFinds(frames[j].env, name)
         IN  EnvLookup(frames[i].env, name)
    ELSE EnvLookup(vars, name)

\* An environment after one name after the other was bound.
Extended(env, names, values) ==
    LET bound[n \in 0 .. Len(names)] ==
            IF n = 0 THEN env ELSE EnvSet(bound[n - 1], Name(names[n]), values[n])
    IN  bound[Len(names)]

\* Mutant: bindings go to the innermost frame, disabled or not.
BindInnermost(names, values) ==
    /\ frames' = [frames EXCEPT ![1].env = Extended(@, names, values)]
    /\ UNCHANGED vars

\* eval_context_add_symbol: the nearest frame that was not disabled, or the globals.
Bind(names, values) ==
    IF \E i \in DOMAIN frames : frames[i].valid
    THEN LET i == CHOOSE i \in DOMAIN frames :
                     frames[i].valid /\ \A j \in 1 .. i - 1 : ~frames[j].valid
         IN  /\ frames' = [frames EXCEPT ![i].env = Extended(@, names, values)]
             /\ UNCHANGED vars
    ELSE vars' = Extended(vars, names, values) /\ UNCHANGED frames

\* The activation of the built-in or call that runs now fails with e.
Fails(e) == error' = e /\ mode' = Return(FALSE)

-----------------------------------------------------------------------------
(***************************************************************************)
(* drive and eval: one form after the other.                               *)
(***************************************************************************)
Read ==
    /\ mode = Idle
    /\ Len(outputs) < Len(program)
    /\ mode' = Evaluate(program[Len(outputs) + 1])
    /\ konts' = <<[k |-> "eval", result |-> Nil]>>
    /\ frames' = <<>>
    /\ error' = NoError
    /\ nroots' = nroots + 3
    /\ UNCHANGED <<program, outputs, vars, funcs>>

\* eval returns to drive, which asserts that as many variables are rooted as before
\* the form, and prints the value or the error.
Finish ==
    /\ mode.k = "return" /\ konts[1].k = "eval"
    /\ IF nroots # 5 \/ (error = NoError /\ konts[1].result = Stale)
       THEN Crash
       ELSE /\ outputs' = Append(outputs, IF error = NoError THEN konts[1].result
                                          ELSE <<"error", error>>)
            /\ mode' = Idle
            /\ konts' = <<>>
            /\ nroots' = nroots - 3
            /\ UNCHANGED <<program, frames, error, vars, funcs>>

-----------------------------------------------------------------------------
(***************************************************************************)
(* eval_internal.                                                          *)
(***************************************************************************)
EvalConstant ==
    /\ mode.k = "eval"
    /\ mode.x = Nil \/ IsNumber(mode.x) \/ IsString(mode.x)
    /\ konts' = Deliver(konts, mode.x)
    /\ mode' = Return(TRUE)
    /\ UNCHANGED <<program, outputs, frames, error, vars, funcs, nroots>>

\* Mutant: an unbound symbol fails without an error.
EvalSymbolSilent ==
    /\ mode.k = "eval" /\ IsSymbol(mode.x)
    /\ IF Found(Name(mode.x))
       THEN konts' = Deliver(konts, Lookup(Name(mode.x))) /\ mode' = Return(TRUE)
       ELSE mode' = Return(FALSE) /\ UNCHANGED konts
    /\ UNCHANGED <<program, outputs, frames, error, vars, funcs, nroots>>

EvalSymbol ==
    /\ mode.k = "eval" /\ IsSymbol(mode.x)
    /\ IF Found(Name(mode.x))
       THEN /\ konts' = Deliver(konts, Lookup(Name(mode.x)))
            /\ mode' = Return(TRUE)
            /\ UNCHANGED error
       ELSE Fails("symbol_lookup_failed") /\ UNCHANGED konts
    /\ UNCHANGED <<program, outputs, frames, vars, funcs, nroots>>

\* The function a form calls: [id, def], or the error eval_internal records.
IsFunction(id) == IsBuiltin(id) \/ IsLambda(id)
                  \/ (IsSymbol(id) /\ EnvFinds(funcs, Name(id)))

Definition(id) ==
    CASE IsBuiltin(id) -> Nil
      [] IsSymbol(id) /\ ~IsBuiltin(id) -> Cddr(EnvLookup(funcs, Name(id)))
      [] IsCons(id) -> Cdr(id)

\* Mutant: the stack may become one frame deeper.
EvalCallDeeper ==
    /\ mode.k = "eval" /\ IsPair(mode.x)
    /\ LET id == Car(mode.x) IN
       IF Len(frames) > MaxDepth
       THEN Fails("max_stack_depth_reached") /\ UNCHANGED <<konts, nroots>>
       ELSE IF ~IsFunction(id)
       THEN Fails("illegal_func_call") /\ UNCHANGED <<konts, nroots>>
       ELSE /\ mode' = Call(id, Definition(id), Cdr(mode.x))
            /\ konts' = Push([k |-> "eval_internal"])
            /\ nroots' = nroots + 2
            /\ UNCHANGED error
    /\ UNCHANGED <<program, outputs, frames, vars, funcs>>

EvalCall ==
    /\ mode.k = "eval" /\ IsPair(mode.x)
    /\ LET id == Car(mode.x) IN
       IF Len(frames) >= MaxDepth
       THEN Fails("max_stack_depth_reached") /\ UNCHANGED <<konts, nroots>>
       ELSE IF ~IsFunction(id)
       THEN Fails("illegal_func_call") /\ UNCHANGED <<konts, nroots>>
       ELSE /\ mode' = Call(id, Definition(id), Cdr(mode.x))
            /\ konts' = Push([k |-> "eval_internal"])
            /\ nroots' = nroots + 2
            /\ UNCHANGED error
    /\ UNCHANGED <<program, outputs, frames, vars, funcs>>

\* The return to eval_internal or to funcall, which hand it on.
PassOn ==
    /\ mode.k = "return" /\ konts[1].k \in {"eval_internal", "funcall"}
    /\ konts' = Below
    /\ nroots' = nroots - 2
    /\ UNCHANGED <<program, outputs, mode, frames, error, vars, funcs>>

-----------------------------------------------------------------------------
(***************************************************************************)
(* eval_func.                                                              *)
(***************************************************************************)
\* The parameters are symbols, up to a tail that is neither a cell nor nil: eval_func
\* takes its car, and the assertion of sexpr_check_cast fails.
CallAborts(id, def, args) ==
    /\ IsList(args) /\ ~IsBuiltin(id) /\ ~IsList(Car(def))
    /\ IsCons(Car(def)) => \A i \in DOMAIN Car(def)[2] : IsSymbol(Car(def)[2][i])

ParametersError(def) ==
    IF IsCons(Car(def)) /\ \E i \in DOMAIN Car(def)[2] : ~IsSymbol(Car(def)[2][i])
    THEN "invalid_arg_def_type" ELSE NoError

CallError(id, def, args) ==
    IF ~IsList(args) THEN "dotted_arg_list"
    ELSE IF IsBuiltin(id)
    THEN IF Name(id) \notin Variadic /\ ArgCount(Name(id)) # Len(args[2])
         THEN "erronous_arg_count" ELSE NoError
    ELSE IF ParametersError(def) # NoError THEN ParametersError(def)
    ELSE IF Len(Car(def)[2]) # Len(args[2]) THEN "erronous_arg_count"
    ELSE NoError

EvaluatesArguments(id) == ~(IsBuiltin(id) /\ Name(id) \in KeepsArguments)

\* The frame is pushed, which allocates, before anything is checked; after an
\* error it stays where it is.
EnterFunc ==
    /\ mode.k = "call"
    /\ frames' = <<[id |-> mode.id, valid |-> TRUE, env |-> EnvInit]>> \o frames
    /\ \E collect \in BOOLEAN :
       LET ks   == Collected(konts, collect)
           func == <<[k |-> "eval_func"]>> \o ks
           args == mode.args
           e    == CallError(mode.id, mode.def, args) IN
       IF \/ collect /\ konts[Len(konts)].result = Stale
          \/ CallAborts(mode.id, mode.def, args)
       THEN mode' = Fault /\ UNCHANGED <<konts, error, nroots>>
       ELSE IF e # NoError
       THEN Fails(e) /\ konts' = ks /\ UNCHANGED nroots
       ELSE IF EvaluatesArguments(mode.id) /\ args # Nil
       THEN /\ mode' = Evaluate(Car(args))
            /\ konts' = <<[k |-> "args", id |-> mode.id, def |-> mode.def,
                           rest |-> Cdr(args), done |-> Nil, result |-> Nil]>> \o func
            /\ nroots' = nroots + 7
            /\ UNCHANGED error
       ELSE /\ mode' = Apply(mode.id, mode.def, args)
            /\ konts' = func
            /\ nroots' = nroots + 4
            /\ UNCHANGED error
    /\ UNCHANGED <<program, outputs, vars, funcs>>

\* An argument was evaluated: it is appended to the list, which allocates.
ArgumentValue ==
    /\ mode = Return(TRUE) /\ konts[1].k = "args"
    /\ LET kont == konts[1] IN
       IF Stale \in {kont.result, kont.done}
       THEN Crash
       ELSE /\ \E collect \in BOOLEAN :
               LET done == List(Append(kont.done[2], kont.result))
                   next == [kont EXCEPT !.done = done, !.rest = Cdr(@), !.result = Nil] IN
               IF kont.rest = Nil
               THEN /\ mode' = Apply(kont.id, kont.def, done)
                    /\ konts' = Collected(Below, collect)
                    /\ nroots' = nroots - 3
               ELSE /\ mode' = Evaluate(Car(kont.rest))
                    /\ konts' = <<next>> \o Collected(Below, collect)
                    /\ UNCHANGED nroots
            /\ UNCHANGED <<program, outputs, frames, error, vars, funcs>>

ArgumentFails ==
    /\ mode = Return(FALSE) /\ konts[1].k = "args"
    /\ konts' = Below
    /\ nroots' = nroots - 3
    /\ UNCHANGED <<program, outputs, mode, frames, error, vars, funcs>>

\* The arguments a function or built-in runs with.
args == mode.args[2]

\* A call of a defined function or lambda: the arguments are bound, which is done in
\* its frame unless one left over from an error lies above it, and its body is
\* evaluated.  Without arguments nothing is allocated.
ApplyDefined ==
    /\ mode.k = "apply" /\ ~IsBuiltin(mode.id)
    /\ IF args = <<>>
       THEN UNCHANGED <<frames, vars, konts>>
       ELSE /\ Bind(Car(mode.def)[2], args)
            /\ \E collect \in BOOLEAN : konts' = Collected(konts, collect)
    /\ mode' = Evaluate(Cadr(mode.def))
    /\ UNCHANGED <<program, outputs, error, funcs, nroots>>

\* Mutant: the frame is left on the stack.
LeaveFuncOnly ==
    /\ mode.k = "return" /\ konts[1].k = "eval_func"
    /\ konts' = Below
    /\ nroots' = nroots - 4
    /\ UNCHANGED <<program, outputs, mode, frames, error, vars, funcs>>

\* The end of eval_func; eval_context_pop_frame keeps the frames after an error.
LeaveFunc ==
    /\ mode.k = "return" /\ konts[1].k = "eval_func"
    /\ frames' = IF frames = <<>> \/ error # NoError THEN frames ELSE Tail(frames)
    /\ konts' = Below
    /\ nroots' = nroots - 4
    /\ UNCHANGED <<program, outputs, mode, error, vars, funcs>>

-----------------------------------------------------------------------------
(***************************************************************************)
(* The built-ins.  args is the list of their arguments.                    *)
(***************************************************************************)
Running(b) == mode.k = "apply" /\ mode.id = Sym(b)

ApplySimple ==
    /\ mode.k = "apply" /\ IsBuiltin(mode.id) /\ Name(mode.id) \in Simple
    /\ LET b == Name(mode.id)
           r == Applied(b, args, error) IN
       IF r.ok
       THEN \E collect \in IF Allocates(b, r.value) THEN BOOLEAN ELSE {FALSE} :
               /\ konts' = Deliver(Collected(konts, collect), r.value)
               /\ mode' = Return(TRUE)
               /\ UNCHANGED error
       ELSE Fails(r.error) /\ UNCHANGED konts
    /\ UNCHANGED <<program, outputs, frames, vars, funcs, nroots>>

ApplyEval ==
    /\ Running("eval")
    /\ mode' = Evaluate(args[1])
    /\ UNCHANGED <<program, outputs, konts, frames, error, vars, funcs, nroots>>

ApplyAnd ==
    /\ Running("and")
    /\ mode' = Evaluate(args[1])
    /\ konts' = Push([k |-> "and", other |-> args[2], result |-> Nil])
    /\ nroots' = nroots + 2
    /\ UNCHANGED <<program, outputs, frames, error, vars, funcs>>

\* When its first operand is nil, "and" delivers nil and reports a failure.
AndFirst ==
    /\ mode.k = "return" /\ konts[1].k = "and"
    /\ LET kont == konts[1] IN
       IF mode.ok /\ kont.result # Nil
       THEN /\ mode' = Evaluate(kont.other)
            /\ konts' = <<[k |-> "tail", result |-> kont.result]>> \o Below
            /\ UNCHANGED nroots
       ELSE /\ mode' = Return(FALSE)
            /\ konts' = IF mode.ok THEN Deliver(Below, Nil) ELSE Below
            /\ nroots' = nroots - 2
    /\ UNCHANGED <<program, outputs, frames, error, vars, funcs>>

ApplyOr ==
    /\ Running("or")
    /\ mode' = Evaluate(args[1])
    /\ konts' = Push([k |-> "or", other |-> args[2], result |-> Nil])
    /\ nroots' = nroots + 2
    /\ UNCHANGED <<program, outputs, frames, error, vars, funcs>>

\* A first operand that fails counts as true, though its error stays.
OrFirst ==
    /\ mode.k = "return" /\ konts[1].k = "or"
    /\ IF mode.ok /\ konts[1].result = Nil
       THEN /\ mode' = Evaluate(konts[1].other)
            /\ konts' = Below
       ELSE /\ mode' = Return(TRUE)
            /\ \E collect \in BOOLEAN :
                  konts' = Deliver(Collected(Below, collect), True)
    /\ nroots' = nroots - 2
    /\ UNCHANGED <<program, outputs, frames, error, vars, funcs>>

ApplyIf ==
    /\ Running("if")
    /\ mode' = Evaluate(args[1])
    /\ konts' = Push([k |-> "if", then |-> args[2], else |-> args[3], result |-> Nil])
    /\ nroots' = nroots + 3
    /\ UNCHANGED <<program, outputs, frames, error, vars, funcs>>

\* eval_result is used again for the value of the branch.
IfTest ==
    /\ mode.k = "return" /\ konts[1].k = "if"
    /\ LET kont == konts[1] IN
       IF mode.ok
       THEN /\ mode' = Evaluate(IF kont.result # Nil THEN kont.then ELSE kont.else)
            /\ konts' = <<[k |-> "branch", result |-> kont.result]>> \o Below
       ELSE UNCHANGED mode /\ konts' = Below
    /\ nroots' = nroots - 3
    /\ UNCHANGED <<program, outputs, frames, error, vars, funcs>>

\* The clauses of cond that are left: the first is tried, on top of ks.
TryClause(clauses, ks, held) ==
    IF clauses = Nil
    THEN Fails("illegal_func_call") /\ konts' = ks /\ nroots' = held - 2
    ELSE IF ~IsPair(Car(clauses)) \/ ~IsPair(Cdr(Car(clauses)))
    THEN Fails("cond_arg_not_pair") /\ konts' = ks /\ nroots' = held - 2
    ELSE /\ mode' = Evaluate(Car(Car(clauses)))
         /\ konts' = <<[k |-> "cond", clauses |-> clauses, result |-> Nil]>> \o ks
         /\ nroots' = held
         /\ UNCHANGED error

ApplyCond ==
    /\ Running("cond")
    /\ TryClause(mode.args, konts, nroots + 2)
    /\ UNCHANGED <<program, outputs, frames, vars, funcs>>

\* Mutant: cond does not go on to the next clause.
CondTestAgain ==
    /\ mode.k = "return" /\ konts[1].k = "cond"
    /\ LET kont == konts[1] IN
       IF ~mode.ok
       THEN konts' = Below /\ nroots' = nroots - 2 /\ UNCHANGED <<mode, error>>
       ELSE IF kont.result = Nil
       THEN TryClause(kont.clauses, Below, nroots)
       ELSE /\ mode' = Evaluate(Cadr(Car(kont.clauses)))
            /\ konts' = <<[k |-> "tail", result |-> kont.result]>> \o Below
            /\ UNCHANGED <<error, nroots>>
    /\ UNCHANGED <<program, outputs, frames, vars, funcs>>

CondTest ==
    /\ mode.k = "return" /\ konts[1].k = "cond"
    /\ LET kont == konts[1] IN
       IF ~mode.ok
       THEN konts' = Below /\ nroots' = nroots - 2 /\ UNCHANGED <<mode, error>>
       ELSE IF kont.result = Nil
       THEN TryClause(Cdr(kont.clauses), Below, nroots)
       ELSE /\ mode' = Evaluate(Cadr(Car(kont.clauses)))
            /\ konts' = <<[k |-> "tail", result |-> kont.result]>> \o Below
            /\ UNCHANGED <<error, nroots>>
    /\ UNCHANGED <<program, outputs, frames, vars, funcs>>

\* The value of the second operand of "and", of a branch of "if" or of the chosen
\* clause of "cond": eval_result is copied to *result, whoever wrote it.  "tail"
\* still holds the two roots of "and" and "cond", "if" has dropped its own.
TailValue ==
    /\ mode.k = "return" /\ konts[1].k \in {"tail", "branch"}
    /\ konts' = IF mode.ok THEN Deliver(Below, konts[1].result) ELSE Below
    /\ nroots' = IF konts[1].k = "tail" THEN nroots - 2 ELSE nroots
    /\ UNCHANGED <<program, outputs, mode, frames, error, vars, funcs>>

\* eval_context_disable_local_env
Disabled == [frames EXCEPT ![1].valid = FALSE]

\* begin: the values go where its own value goes.
ApplyBegin ==
    /\ Running("begin")
    /\ frames' = Disabled
    /\ IF args = <<>>
       THEN Fails("erronous_arg_count") /\ UNCHANGED <<konts, nroots>>
       ELSE /\ mode' = Evaluate(args[1])
            /\ konts' = Push([k |-> "begin", rest |-> List(Tail(args))])
            /\ nroots' = nroots + 2
            /\ UNCHANGED error
    /\ UNCHANGED <<program, outputs, vars, funcs>>

BeginValue ==
    /\ mode.k = "return" /\ konts[1].k = "begin"
    /\ LET rest == konts[1].rest IN
       IF mode.ok /\ rest # Nil
       THEN /\ mode' = Evaluate(Car(rest))
            /\ konts' = <<[konts[1] EXCEPT !.rest = Cdr(rest)]>> \o Below
            /\ UNCHANGED nroots
       ELSE konts' = Below /\ nroots' = nroots - 2 /\ UNCHANGED mode
    /\ UNCHANGED <<program, outputs, frames, error, vars, funcs>>

-----------------------------------------------------------------------------
(***************************************************************************)
(* Assignments and functions.  let, set and define return success without  *)
(* a value: what *result contained stays there.                            *)
(***************************************************************************)
ApplyLet ==
    /\ Running("let")
    /\ frames' = Disabled
    /\ IF ~IsSymbol(args[1])
       THEN Fails("invalid_type") /\ UNCHANGED <<konts, nroots>>
       ELSE /\ mode' = Evaluate(args[2])
            /\ konts' = Push([k |-> "let", name |-> args[1], result |-> Nil])
            /\ nroots' = nroots + 3
            /\ UNCHANGED error
    /\ UNCHANGED <<program, outputs, vars, funcs>>

\* Mutant: the way out of "let" forgets one VM_UNROOT.
LetValueLeaking ==
    /\ mode = Return(TRUE) /\ konts[1].k = "let"
    /\ IF konts[1].result = Stale
       THEN Crash
       ELSE /\ Bind(<<konts[1].name>>, <<konts[1].result>>)
            /\ \E collect \in BOOLEAN : konts' = Collected(Below, collect)
            /\ nroots' = nroots - 2
            /\ UNCHANGED <<program, outputs, mode, error, funcs>>

LetValue ==
    /\ mode = Return(TRUE) /\ konts[1].k = "let"
    /\ IF konts[1].result = Stale
       THEN Crash
       ELSE /\ Bind(<<konts[1].name>>, <<konts[1].result>>)
            /\ \E collect \in BOOLEAN : konts' = Collected(Below, collect)
            /\ nroots' = nroots - 3
            /\ UNCHANGED <<program, outputs, mode, error, funcs>>

ApplySet ==
    /\ Running("set")
    /\ IF ~IsSymbol(args[1])
       THEN Fails("invalid_type") /\ UNCHANGED <<konts, nroots>>
       ELSE /\ mode' = Evaluate(args[2])
            /\ konts' = Push([k |-> "set", name |-> args[1], result |-> Nil])
            /\ nroots' = nroots + 2
            /\ UNCHANGED error
    /\ UNCHANGED <<program, outputs, frames, vars, funcs>>

\* Mutant: env_set does not root the value while it allocates the binding.
SetValueUnrooted ==
    /\ mode = Return(TRUE) /\ konts[1].k = "set"
    /\ \E collect \in BOOLEAN :
          /\ vars' = EnvSet(vars, Name(konts[1].name),
                            IF collect THEN Stale ELSE konts[1].result)
          /\ konts' = Collected(Below, collect)
    /\ nroots' = nroots - 2
    /\ UNCHANGED <<program, outputs, mode, frames, error, funcs>>

SetValue ==
    /\ mode = Return(TRUE) /\ konts[1].k = "set"
    /\ IF konts[1].result = Stale
       THEN Crash
       ELSE /\ vars' = EnvSet(vars, Name(konts[1].name), konts[1].result)
            /\ \E collect \in BOOLEAN : konts' = Collected(Below, collect)
            /\ nroots' = nroots - 2
            /\ UNCHANGED <<program, outputs, mode, frames, error, funcs>>

AssignmentFails ==
    /\ mode = Return(FALSE) /\ konts[1].k \in {"let", "set"}
    /\ konts' = Below
    /\ nroots' = nroots - (IF konts[1].k = "let" THEN 3 ELSE 2)
    /\ UNCHANGED <<program, outputs, mode, frames, error, vars, funcs>>

\* (define name (symbol ...) form ...) stores ('function name (symbol ...) (begin
\* form ...)).  The definition is built before it is checked.  A definition that
\* is refused leaves args rooted; and the context is not rooted here, so that
\* after a collection its error is written to the object's former place, which
\* nobody reads or which holds another object by now.
ApplyDefine ==
    /\ Running("define")
    /\ IF Len(args) < 3
       THEN Fails("erronous_arg_count") /\ UNCHANGED <<konts, funcs, nroots>>
       ELSE IF ~IsSymbol(args[1])
       THEN Fails("invalid_type") /\ UNCHANGED <<konts, funcs, nroots>>
       ELSE LET def == List(<<args[2], Cons(Sym("begin"), Cddr(mode.args))>>)
                e   == FunctionDefError(def) IN
            \E collections \in 0 .. 2 :
               /\ konts' = Collected(konts, collections > 0)
               /\ IF e = NoError
                  THEN /\ funcs' = EnvSet(funcs, Name(args[1]), FunctionStruct(args[1], def))
                       /\ mode' = Return(TRUE)
                       /\ UNCHANGED <<error, nroots>>
                  ELSE /\ nroots' = nroots + 1
                       /\ error' = IF collections = 0 THEN e ELSE error
                       /\ mode' = IF collections = 2 THEN Fault ELSE Return(FALSE)
                       /\ UNCHANGED funcs
    /\ UNCHANGED <<program, outputs, frames, vars>>

ApplyLambda ==
    /\ Running("lambda")
    /\ IF FunctionDefError(mode.args) # NoError
       THEN Fails(FunctionDefError(mode.args)) /\ UNCHANGED konts
       ELSE /\ \E collect \in BOOLEAN :
                  konts' = Deliver(Collected(konts, collect),
                                   FunctionStruct(Cons(Sym("lambda"), mode.args),
                                                  mode.args))
            /\ mode' = Return(TRUE)
            /\ UNCHANGED error
    /\ UNCHANGED <<program, outputs, frames, vars, funcs, nroots>>

\* For a built-in, "function" builds a structure without rooting its parts: it
\* survives when nothing is collected meanwhile.
ApplyFunction ==
    /\ Running("function")
    /\ IF ~IsSymbol(args[1])
       THEN Fails("invalid_type") /\ UNCHANGED konts
       ELSE IF EnvFinds(funcs, Name(args[1]))
       THEN /\ konts' = Deliver(konts, EnvLookup(funcs, Name(args[1])))
            /\ mode' = Return(TRUE)
            /\ UNCHANGED error
       ELSE IF IsBuiltin(args[1])
       THEN \E collect \in BOOLEAN :
               /\ konts' = Deliver(Collected(konts, collect),
                                   FunctionStruct(args[1], List(<<Nil, Nil>>)))
               /\ mode' \in IF collect THEN {Return(TRUE), Fault} ELSE {Return(TRUE)}
               /\ UNCHANGED error
       ELSE Fails("symbol_lookup_failed") /\ UNCHANGED konts
    /\ UNCHANGED <<program, outputs, frames, vars, funcs, nroots>>

\* (funcall variable argument ...) calls eval_func itself: the depth is not checked.
FuncallError ==
    IF args = <<>> THEN "erronous_arg_count"
    ELSE IF ~IsSymbol(args[1]) THEN "invalid_type"
    ELSE IF ~Found(Name(args[1])) THEN "symbol_lookup_failed"
    ELSE IF ~IsFunctionStruct(Lookup(Name(args[1]))) THEN "illegal_func_call"
    ELSE NoError

ApplyFuncall ==
    /\ Running("funcall")
    /\ IF FuncallError # NoError
       THEN Fails(FuncallError) /\ UNCHANGED <<konts, nroots>>
       ELSE LET f == Lookup(Name(args[1])) IN
            /\ mode' = Call(Cadr(f), Cddr(f), List(Tail(args)))
            /\ konts' = Push([k |-> "funcall"])
            /\ nroots' = nroots + 2
            /\ UNCHANGED error
    /\ UNCHANGED <<program, outputs, frames, vars, funcs>>

-----------------------------------------------------------------------------
\* drive returns at the end of the input; after a crash anything may happen, and
\* the model stops.
AtEnd == mode = Idle /\ Len(outputs) = Len(program)

Stopped == (AtEnd \/ mode = Fault) /\ UNCHANGED state

Step ==
    \/ Read \/ Finish
    \/ EvalConstant \/ EvalSymbol \/ EvalCall \/ PassOn
    \/ EnterFunc \/ ArgumentValue \/ ArgumentFails \/ ApplyDefined \/ LeaveFunc
    \/ ApplySimple \/ ApplyEval
    \/ ApplyAnd \/ AndFirst \/ ApplyOr \/ OrFirst \/ ApplyIf \/ IfTest
    \/ ApplyCond \/ CondTest \/ TailValue \/ ApplyBegin \/ BeginValue
    \/ ApplyLet \/ LetValue \/ ApplySet \/ SetValue \/ AssignmentFails
    \/ ApplyDefine \/ ApplyLambda \/ ApplyFunction \/ ApplyFuncall

Next == Step \/ Stopped

\* The interpreter is one thread that never waits for anything but its input.
Spec == Init /\ [][Next]_state /\ WF_state(Step)
=============================================================================
