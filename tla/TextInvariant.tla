--------------------------- MODULE TextInvariant ---------------------------
(***************************************************************************)
(* The part of the reader's inductive invariant that relates the tokens to *)
(* the bytes between them and in them.  It rests on IInv, and speaks of    *)
(* the values of characters, for which a character of two bytes must be    *)
(* none that the lexer looks for.                                          *)
(***************************************************************************)
EXTENDS ReaderInvariant

-----------------------------------------------------------------------------
(***************************************************************************)
(* Where the lexer is.                                                     *)
(***************************************************************************)
In(pc) == lex.pc = pc \/ (lex.pc = "skip" /\ lex.resume = pc)

\* The token has begun at lex.start.
Begun == lex.pc \in Consumed \/ (lex.pc = "skip" /\ lex.resume # "comment")

Between == lex.pc \in {"start", "blank"} \/ In("comment")

-----------------------------------------------------------------------------
(***************************************************************************)
(* The tokens taken.  The last one, in this form or in the one before, is  *)
(* the one that LastEnd speaks of.                                         *)
(***************************************************************************)
HistoryInv ==
    /\ IsStack(taken) /\ \A i \in DOMAIN taken : taken[i] \in Tokens
    /\ IsStack(results)
    /\ at = "drive" => taken = IF results = <<>> THEN <<>> ELSE results[Len(results)].tokens
    /\ stack # <<>> \/ at \in {"list", "wrap"} => taken # <<>>
    /\ at = "return" /\ ret.ok => taken # <<>>

-----------------------------------------------------------------------------
(***************************************************************************)
(* The gap after the last token.                                           *)
(***************************************************************************)
\* There is a comment before j that has not ended.
Remark(i, j) ==
    \E q \in i .. j - 1 : Byte(q) = Semicolon /\ \A r \in q .. j - 1 : Byte(r) # NewLine

GapInv ==
    /\ LastEnd \in Nat /\ LastEnd <= index
    /\ lex.pc = "idle" /\ ~has_peeked => LastEnd = index
    /\ has_peeked => LastEnd <= peeked.index /\ peeked.index + peeked.length = index
    /\ Between => Blank(LastEnd, index)
    /\ In("comment") => Remark(LastEnd, index)
    /\ Begun => LastEnd <= lex.start /\ Blank(LastEnd, lex.start)
    /\ lex.pc = "skip" => LastEnd <= lex.bad
    /\ lex.pc \in Inside \/ In("escape") => LastEnd <= lex.escape
    /\ lex.pc = "done" =>
         /\ LastEnd <= token.index /\ Blank(LastEnd, token.index)
         /\ token.index + token.length = index

-----------------------------------------------------------------------------
(***************************************************************************)
(* Errors that belong to no form.                                          *)
(***************************************************************************)
\* Only the end of the input can follow.
Trailing ==
    \/ at \in {"next", "end"}
    \/ at = "sexpr" /\ stack = <<>> /\ peeked.type = "END"
    \/ at = "return" /\ stack = <<>> /\ ~ret.ok

\* Before the first token of a form a comment with invalid bytes either goes on to the
\* end of the input, or fails the assertion at the end of its line.
RemarkInv ==
    /\ lex.pc \in {"start", "blank"} => context = <<>> \/ AtTheEnd
    /\ lex.pc = "comment" => context = <<>> \/ lex.utf8_error = TRUE
    /\ lex.pc = "skip" /\ lex.resume = "comment" => lex.utf8_error = TRUE
    /\ lex.pc = "done" /\ token.type = "RIGHT_PAREN" => context = <<>>
    /\ lex.pc = "idle" /\ (~has_peeked \/ peeked.type = "RIGHT_PAREN") => context = <<>>

TrailInv ==
    /\ Trailing => \A i \in DOMAIN context : LastEnd <= context[i].index
    /\ at = "next" => RemarkInv

-----------------------------------------------------------------------------
(***************************************************************************)
(* The bytes of a symbol or number, from i up to j.                        *)
(***************************************************************************)
NoDelimiter(i, j) == \A p \in i .. j - 1 : ~IsDelimiter(Byte(p))
SomeDigit(i, j) == \E p \in i .. j - 1 : IsDigit(Byte(p))
NoPeriod(i, j) == \A p \in i .. j - 1 : Byte(p) # Period
OnePeriod(i, j) ==
    \A p, q \in i .. j - 1 : Byte(p) = Period /\ Byte(q) = Period => p = q
OnlyNumeric(i, j) ==
    \A p \in i .. j - 1 : IsNumericContinue(Byte(p)) \/ (p = i /\ Byte(p) \in {43, 45})

WrittenAsNumber(i, j) == SomeDigit(i, j) /\ OnePeriod(i, j) /\ OnlyNumeric(i, j)

\* The variables of the loop over a symbol or number, l, say what was read; dots is
\* exact only up to one.
Flags(l, i, j) ==
    /\ l.digit \in BOOLEAN /\ l.numeric \in BOOLEAN /\ l.dots \in Nat
    /\ l.digit <=> SomeDigit(i, j)
    /\ l.dots = 0 <=> NoPeriod(i, j)
    /\ l.dots <= 1 <=> OnePeriod(i, j)
    /\ l.pc = "atom" => (l.numeric <=> OnlyNumeric(i, j))
    /\ l.pc = "skip" => ~l.numeric /\ (l.bad < j => ~OnlyNumeric(i, j))

\* What comes after the token at hand.
Delimited == AtTheEnd \/ (index < Len(input) /\ IsDelimiter(Byte(index)))

AtomInv ==
    /\ In("atom") => NoDelimiter(lex.start, index) /\ Flags(lex, lex.start, index)
    /\ In("symbol") =>
         /\ NoDelimiter(lex.start, index)
         /\ lex.start < index => Byte(lex.start) >= 128
    /\ lex.pc = "done" /\ token.type \in {"SYMBOL", "NUMBER"} =>
         /\ NoDelimiter(token.index, index)
         /\ Delimited
         /\ token.type = "NUMBER" <=> WrittenAsNumber(token.index, index)

TextInv == HistoryInv /\ GapInv /\ TrailInv /\ AtomInv
=============================================================================
