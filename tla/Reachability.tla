---------------------------- MODULE Reachability ----------------------------
(***************************************************************************)
(* What pointers lead to.  Nothing in src computes this set: it says which *)
(* objects a client could still use.                                       *)
(***************************************************************************)

\* What the members of S lead to, in any number of steps along next, a function
\* from a node to the set of its successors: the least set that contains S and is
\* closed under next.
Closure(next, S) ==
    LET led == UNION {next[m] : m \in DOMAIN next}
    IN  S \cup {n \in led : \A T \in SUBSET led :
                    (\A m \in S \cup T : next[m] \subseteq T) => n \in T}
=============================================================================
