-------------------------- MODULE FormProperties --------------------------
(***************************************************************************)
(* Forms and the tokens they are read from: what parser_next_sexpr yields  *)
(* is compared with a recursive definition of how S-expressions are        *)
(* written.                                                                *)
(***************************************************************************)
EXTENDS ReaderProperties

\* The tokens of a form; right parentheses before it are skipped.
FormTokens(r) ==
    LET first == CHOOSE i \in DOMAIN r.tokens :
                    /\ r.tokens[i].type # "RIGHT_PAREN"
                    /\ \A j \in 1 .. i - 1 : r.tokens[j].type = "RIGHT_PAREN"
    IN  SubSeq(r.tokens, first, Len(r.tokens))

RECURSIVE Reads(_, _), ReadsAll(_, _)

\* The tokens ts are how the S-expression v is written.
Reads(ts, v) ==
    LET n == Len(ts) IN
    \/ n = 1 /\ ts[1].type \in {"SYMBOL", "NUMBER", "STRING"} /\ v = Atom(ts[1])
    \/ /\ n > 1 /\ ts[1].type = "SINGLE_QUOTE"
       /\ v.k = "list" /\ Len(v.of) = 2 /\ v.of[1] = QuoteSymbol
       /\ Reads(Tail(ts), v.of[2])
    \/ /\ n > 1 /\ ts[1].type = "LEFT_PAREN" /\ ts[n].type = "RIGHT_PAREN"
       /\ v.k = "list" /\ ReadsAll(SubSeq(ts, 2, n - 1), v.of)

ReadsAll(ts, vs) ==
    IF vs = <<>> THEN ts = <<>>
    ELSE \E n \in 1 .. Len(ts) : /\ Reads(SubSeq(ts, 1, n), vs[1])
                                 /\ ReadsAll(SubSeq(ts, n + 1, Len(ts)), Tail(vs))

Newest == results[Len(results)]
FormRead == at = "drive" /\ results # <<>>

\* What parser_next_sexpr yields is the S-expression its tokens write, no more and no
\* fewer of them.
FormsAreRead == FormRead /\ Newest.ok => Reads(FormTokens(Newest), Newest.value)

\* How many lists are open after the first i tokens.
Nesting(ts, i) ==
    LET of(type) == {j \in 1 .. i : ts[j].type = type}
        count[n \in 0 .. i] ==
            IF n = 0 THEN 0
            ELSE count[n - 1] + (IF n \in of("LEFT_PAREN") THEN 1 ELSE 0)
                              - (IF n \in of("RIGHT_PAREN") THEN 1 ELSE 0)
    IN  count[i]

Complete(ts) ==
    /\ Nesting(ts, Len(ts)) = 0
    /\ \A i \in DOMAIN ts : ts[i].type = "SINGLE_QUOTE" =>
           i < Len(ts) /\ ts[i + 1].type # "RIGHT_PAREN"

\* A form is refused exactly when one of its tokens has an error, a list of it is not
\* closed, or a quote has no operand: a peeked token keeps its error, and no form is
\* refused for what another one contains.
RefusedIffFlawed ==
    FormRead =>
        LET ts == FormTokens(Newest) IN
        Newest.ok = (Complete(ts) /\ \A i \in DOMAIN ts : ~ts[i].had_error)
=============================================================================
