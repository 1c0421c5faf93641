---------------------------- MODULE Environment ----------------------------
(***************************************************************************)
(* The environments of src/src/vm.c.  The C list is (symbols . (values)):  *)
(* two chains of cells that are extended and walked together.  A binding   *)
(* is never removed; a later one of the same symbol lies before it.        *)
(***************************************************************************)
EXTENDS Naturals, Sequences

EnvInit == [symbols |-> <<>>, values |-> <<>>]

\* env_set.  Both cells are allocated before either is linked.
EnvSet(env, symbol, value) ==
    [symbols |-> <<symbol>> \o env.symbols, values |-> <<value>> \o env.values]

\* env_lookup returns true.
EnvFinds(env, symbol) == \E i \in DOMAIN env.symbols : env.symbols[i] = symbol

\* The position at which its loop stops.
EnvPosition(env, symbol) ==
    CHOOSE i \in DOMAIN env.symbols :
        /\ env.symbols[i] = symbol
        /\ \A j \in 1 .. i - 1 : env.symbols[j] # symbol

\* What it writes to *value.
EnvLookup(env, symbol) == env.values[EnvPosition(env, symbol)]

-----------------------------------------------------------------------------
\* The chains have the same length, so that env_lookup does not run off the second.
EnvParallel(env) == Len(env.symbols) = Len(env.values)

\* What an environment stands for: a function from the symbols bound.
Bindings(env) ==
    [symbol \in {env.symbols[i] : i \in DOMAIN env.symbols} |-> EnvLookup(env, symbol)]
=============================================================================
