------------------------------ MODULE Parser ------------------------------
(***************************************************************************)
(* The parser of src/src/parser.c over the lexer, and the loop of drive    *)
(* (src/src/main.c) that asks it for one S-expression after the other.     *)
(*                                                                         *)
(* The C stack below parser_next_sexpr is stack, innermost activation      *)
(* first; at is where the innermost function is, ret what the last one     *)
(* returned.  Strings, symbols and numbers keep the bytes they consist of. *)
(***************************************************************************)
EXTENDS Lexer

VARIABLES
    has_peeked,     \* parser->has_peeked
    peeked,         \* parser->peeked and parser->peeked_errored
    at,             \* where the innermost function is
    stack,          \* the parser_parse_list and parser_parse_quote activations
    ret,            \* what parser_parse_sexpr returned, and *sexpr
    roots,          \* the local variables in the root array
    results,        \* what parser_next_sexpr gave to drive, in order
    taken           \* history: the tokens taken since the last result

parser == <<has_peeked, peeked, at, stack, ret, roots, results, taken>>
reader == <<lexer, parser>>

-----------------------------------------------------------------------------
(***************************************************************************)
(* S-expressions, as far as the reader makes them.                         *)
(***************************************************************************)
Symbol(bytes) == [k |-> "symbol", of |-> bytes]
String(bytes) == [k |-> "string", of |-> bytes]
Number(bytes) == [k |-> "number", of |-> bytes]
List(items) == [k |-> "list", of |-> items]

QuoteSymbol == Symbol(<<113, 117, 111, 116, 101>>)

\* What stands for a token with an error, or for a missing operand of a quote, in
\* a form that is never evaluated.
Refused(type) == [k |-> type, of |-> <<>>]

\* token_s8.
TokenBytes(t) == SubSeq(input, t.index + 1, t.index + t.length)

-----------------------------------------------------------------------------
(***************************************************************************)
(* parser_parse_string.  The bytes s are those of the token, quotes and    *)
(* all; s8_index asserts that it is not asked for one beyond them.  The    *)
(* first pass adds up the sizes, the second one writes.                    *)
(***************************************************************************)
\* Bytes of the new object that were never written.
Unwritten == -1

HexNumber(digits) ==
    LET val[n \in 0 .. Len(digits)] ==
            IF n = 0 THEN 0 ELSE (val[n - 1] * 16 + HexValue(digits[n])) % WordMod
    IN  val[Len(digits)]

\* What an escape that starts at i stands for, and where the text goes on.  There
\* is no right curly bracket, no second digit, or no case for what follows the
\* backslash, only where the lexer has let a broken escape pass.
Closing(s, i) == {n \in i .. Len(s) : s[n] = RightCurly}

InBounds(s, i) ==
    CASE i + 1 > Len(s) -> FALSE
      [] s[i + 1] = 117 -> Closing(s, i + 3) # {}
      [] s[i + 1] = 120 -> i + 3 <= Len(s)
      [] OTHER -> s[i + 1] \in Simple

Escape(s, i) ==
    LET one(val) == [val |-> val, next |-> i + 2] IN
    CASE s[i + 1] \in {DoubleQuote, SingleQuote, Backslash} -> one(s[i + 1])
      [] s[i + 1] = 48 -> one(0)
      [] s[i + 1] = 110 -> one(10)
      [] s[i + 1] = 114 -> one(13)
      [] s[i + 1] = 116 -> one(9)
      [] s[i + 1] = 117 ->
           LET end == CHOOSE n \in Closing(s, i + 3) : \A m \in Closing(s, i + 3) : n <= m
           IN  [val |-> HexNumber(SubSeq(s, i + 3, end - 1)), next |-> end + 1]
      [] s[i + 1] = 120 -> [val |-> HexNumber(SubSeq(s, i + 2, i + 3)), next |-> i + 4]

\* Mutant: three bytes are counted up to 0xFFFF, but written up to 0xFFF.
CountedTo64K(val) ==
    1 + (IF val > 127 THEN 1 ELSE 0) + (IF val > 2047 THEN 1 ELSE 0)
      + (IF val > 65535 THEN 1 ELSE 0)

\* The size the first pass adds for an escape.
CountedWidth(val) ==
    1 + (IF val > 127 THEN 1 ELSE 0) + (IF val > 2047 THEN 1 ELSE 0)
      + (IF val > 4095 THEN 1 ELSE 0)

\* The second pass writes all the bytes of a codepoint to its first place, and the
\* one that stays there is the last, which has shifted the codepoint by 6.
Written(val) ==
    LET codepoint_width ==
            1 + (IF val > 127 THEN 1 ELSE 0) + (IF val > 2047 THEN 1 ELSE 0)
              + (IF val > 4095 THEN 1 ELSE 0) IN
    [n \in 1 .. codepoint_width |->
        IF n > 1 THEN Unwritten
        ELSE IF codepoint_width = 1 THEN val ELSE (val \div 64) % 64]

\* Both passes from byte i on: the size, the bytes put, and whether every s8_index
\* was within the token and the last one before its closing quote.
Decoded(s) ==
    LET rest[i \in 2 .. Len(s) + 4] ==
        IF i >= Len(s) THEN [size |-> 0, bytes |-> <<>>, inside |-> i = Len(s)]
        ELSE IF s[i] # Backslash
        THEN [size   |-> rest[i + 1].size + 1,
              bytes  |-> <<s[i]>> \o rest[i + 1].bytes,
              inside |-> rest[i + 1].inside]
        ELSE IF ~InBounds(s, i) THEN [size |-> 0, bytes |-> <<>>, inside |-> FALSE]
        ELSE LET e == Escape(s, i) IN
             [size   |-> rest[e.next].size + CountedWidth(e.val),
              bytes  |-> Written(e.val) \o rest[e.next].bytes,
              inside |-> rest[e.next].inside]
    IN  rest[2]

\* parser_parse_symbol, parser_parse_string and parser_parse_number after the token.
Atom(t) ==
    CASE t.had_error -> Refused(t.type)
      [] t.type = "SYMBOL" -> Symbol(TokenBytes(t))
      [] t.type = "NUMBER" -> Number(TokenBytes(t))
      [] t.type = "STRING" -> String(Decoded(TokenBytes(t)).bytes)

-----------------------------------------------------------------------------
(***************************************************************************)
(* One token of look-ahead, and the root array.                            *)
(***************************************************************************)
Peeks == {"next", "sexpr", "atom", "open_list", "list", "quote"}

\* parser_peek_token calls the lexer when nothing was peeked.
PeekToken ==
    /\ at \in Peeks /\ ~has_peeked /\ lex.pc = "idle"
    /\ lex' = [Idle EXCEPT !.pc = "start"]
    /\ UNCHANGED <<buffer, index, token, context, parser>>

StorePeeked ==
    /\ lex.pc = "done"
    /\ lex' = Idle
    /\ has_peeked' = TRUE
    /\ peeked' = token
    /\ UNCHANGED <<buffer, index, token, context, at, stack, ret, roots, results, taken>>

\* parser_next_token with a token that was peeked.
TakeToken(type) ==
    /\ has_peeked /\ peeked.type = type
    /\ has_peeked' = FALSE
    /\ taken' = Append(taken, peeked)
    /\ UNCHANGED peeked

KeepToken == UNCHANGED <<has_peeked, peeked, taken>>

\* The variables of an activation at a depth of the stack; 0 is parser_next_sexpr.
Locals(depth, names) == {<<depth, name>> : name \in names}

Return(result) == at' = "return" /\ ret' = result
Ok(value) == [ok |-> TRUE, value |-> value]
Failed == [ok |-> FALSE]

-----------------------------------------------------------------------------
(***************************************************************************)
(* drive and parser_next_sexpr.                                            *)
(***************************************************************************)
\* A fresh context for the next form.
NextSexpr ==
    /\ at = "drive"
    /\ at' = "next"
    /\ context' = <<>>
    /\ roots' = roots \cup Locals(0, {"context"})
    /\ taken' = <<>>
    /\ UNCHANGED <<buffer, index, lex, token, has_peeked, peeked, stack, ret, results>>

SkipRightParen ==
    /\ at = "next"
    /\ TakeToken("RIGHT_PAREN")
    /\ UNCHANGED <<lexer, at, stack, ret, roots, results>>

ParseForm ==
    /\ at = "next"
    /\ has_peeked /\ peeked.type # "RIGHT_PAREN"
    /\ at' = "sexpr"
    /\ UNCHANGED <<lexer, has_peeked, peeked, stack, ret, roots, results, taken>>

\* Mutant: whether a form is refused depends on its last token.
ResultOfLast ==
    IF ~peeked.had_error
    THEN [ok |-> TRUE, value |-> ret.value, tokens |-> taken]
    ELSE [ok |-> FALSE, errors |-> context, tokens |-> taken]

\* The form, or the errors recorded while it was read.
Result ==
    IF context = <<>>
    THEN [ok |-> TRUE, value |-> ret.value, tokens |-> taken]
    ELSE [ok |-> FALSE, errors |-> context, tokens |-> taken]

FinishForm ==
    /\ at = "return" /\ stack = <<>> /\ ret.ok
    /\ at' = "drive"
    /\ results' = Append(results, Result)
    /\ roots' = roots \ Locals(0, {"context"})
    /\ UNCHANGED <<lexer, has_peeked, peeked, stack, ret, taken>>

\* Only the end of the input is no form.
FinishInput ==
    /\ at = "return" /\ stack = <<>> /\ ~ret.ok
    /\ at' = "end"
    /\ roots' = roots \ Locals(0, {"context"})
    /\ UNCHANGED <<lexer, has_peeked, peeked, stack, ret, results, taken>>

-----------------------------------------------------------------------------
(***************************************************************************)
(* parser_parse_sexpr and the functions it calls.                          *)
(***************************************************************************)
\* Mutant: an atom's token is taken before the function that wants it is called.
ParseSExprTaking ==
    /\ at = "sexpr" /\ has_peeked
    /\ \/ /\ peeked.type \in {"SYMBOL", "STRING", "NUMBER"} /\ TakeToken(peeked.type)
          /\ at' = "atom"
          /\ UNCHANGED ret
       \/ /\ peeked.type \in {"LEFT_PAREN", "SINGLE_QUOTE"} /\ KeepToken
          /\ at' = IF peeked.type = "LEFT_PAREN" THEN "open_list" ELSE "quote"
          /\ UNCHANGED ret
       \/ /\ peeked.type \in {"RIGHT_PAREN", "END"} /\ KeepToken
          /\ Return(Failed)
    /\ UNCHANGED <<lexer, stack, roots, results>>

\* The switch of parser_parse_sexpr.
ParseSExpr ==
    /\ at = "sexpr" /\ has_peeked
    /\ \/ /\ peeked.type \notin {"RIGHT_PAREN", "END"}
          /\ at' = CASE peeked.type = "LEFT_PAREN" -> "open_list"
                     [] peeked.type = "SINGLE_QUOTE" -> "quote"
                     [] OTHER -> "atom"
          /\ UNCHANGED ret
       \/ /\ peeked.type \in {"RIGHT_PAREN", "END"}
          /\ Return(Failed)
    /\ KeepToken
    /\ UNCHANGED <<lexer, stack, roots, results>>

ParseAtom ==
    /\ at = "atom"
    /\ \E type \in {"SYMBOL", "STRING", "NUMBER"} : TakeToken(type)
    /\ Return(Ok(Atom(peeked)))
    /\ UNCHANGED <<lexer, stack, roots, results>>

\* parser_parse_list up to its loop.
OpenList ==
    /\ at = "open_list"
    /\ TakeToken("LEFT_PAREN")
    /\ at' = "list"
    /\ stack' = <<[k |-> "list", start |-> peeked.index, items |-> <<>>]>> \o stack
    /\ roots' = roots \cup Locals(Len(stack'), {"base", "current"})
    /\ UNCHANGED <<lexer, ret, results>>

\* Mutant: the early way out of an unterminated list forgets to unroot.
UnterminatedListLeaks ==
    /\ at = "list"
    /\ has_peeked /\ peeked.type = "END"
    /\ AddErrors(<<Error("UNTERMINATED_LIST", stack[1].start, index)>>)
    /\ Return(Ok(List(stack[1].items)))
    /\ stack' = Tail(stack)
    /\ KeepToken
    /\ UNCHANGED <<buffer, index, lex, token, roots, results>>

\* The input ends inside the list; the token stays peeked.
UnterminatedList ==
    /\ at = "list"
    /\ has_peeked /\ peeked.type = "END"
    /\ AddErrors(<<Error("UNTERMINATED_LIST", stack[1].start, index)>>)
    /\ Return(Ok(List(stack[1].items)))
    /\ stack' = Tail(stack)
    /\ roots' = roots \ Locals(Len(stack), {"base", "current"})
    /\ KeepToken
    /\ UNCHANGED <<buffer, index, lex, token, results>>

NextElement ==
    /\ at = "list"
    /\ has_peeked /\ peeked.type \notin {"RIGHT_PAREN", "END"}
    /\ at' = "sexpr"
    /\ KeepToken
    /\ UNCHANGED <<lexer, stack, ret, roots, results>>

\* Mutant: a new cell replaces the ones before it.
AppendElementOnly ==
    /\ at = "return" /\ stack # <<>> /\ stack[1].k = "list" /\ ret.ok
    /\ at' = "list"
    /\ stack' = [stack EXCEPT ![1].items = <<ret.value>>]
    /\ KeepToken
    /\ UNCHANGED <<lexer, ret, roots, results>>

\* A cell for the element: base is the first one, current the last one.
AppendElement ==
    /\ at = "return" /\ stack # <<>> /\ stack[1].k = "list" /\ ret.ok
    /\ at' = "list"
    /\ stack' = [stack EXCEPT ![1].items = Append(@, ret.value)]
    /\ KeepToken
    /\ UNCHANGED <<lexer, ret, roots, results>>

CloseList ==
    /\ at = "list"
    /\ TakeToken("RIGHT_PAREN")
    /\ Return(Ok(List(stack[1].items)))
    /\ stack' = Tail(stack)
    /\ roots' = roots \ Locals(Len(stack), {"base", "current"})
    /\ UNCHANGED <<lexer, results>>

\* parser_parse_quote up to its operand.
OpenQuote ==
    /\ at = "quote"
    /\ TakeToken("SINGLE_QUOTE")
    /\ at' = "sexpr"
    /\ stack' = <<[k |-> "quote", start |-> peeked.index, items |-> <<>>]>> \o stack
    /\ UNCHANGED <<lexer, ret, roots, results>>

\* Mutant: parser_parse_quote passes the failure of its operand on.
QuoteOperandFails ==
    /\ at = "return" /\ stack # <<>> /\ stack[1].k = "quote"
    /\ IF ret.ok
       THEN /\ at' = "wrap" /\ NoError
            /\ stack' = [stack EXCEPT ![1].items = <<ret.value>>]
            /\ roots' = roots \cup Locals(Len(stack), {"cons_quoted"})
       ELSE /\ AddErrors(<<Error("MISSING_SEXPR", stack[1].start, index)>>)
            /\ stack' = Tail(stack)
            /\ UNCHANGED <<at, roots>>
    /\ KeepToken
    /\ UNCHANGED <<buffer, index, lex, token, ret, results>>

\* cons_quoted is allocated, and rooted while the symbol is.
QuoteOperand ==
    /\ at = "return" /\ stack # <<>> /\ stack[1].k = "quote"
    /\ at' = "wrap"
    /\ IF ret.ok
       THEN stack' = [stack EXCEPT ![1].items = <<ret.value>>] /\ NoError
       ELSE /\ stack' = [stack EXCEPT ![1].items = <<Refused("MISSING_SEXPR")>>]
            /\ AddErrors(<<Error("MISSING_SEXPR", stack[1].start, index)>>)
    /\ roots' = roots \cup Locals(Len(stack), {"cons_quoted"})
    /\ KeepToken
    /\ UNCHANGED <<buffer, index, lex, token, ret, results>>

CloseQuote ==
    /\ at = "wrap"
    /\ Return(Ok(List(<<QuoteSymbol>> \o stack[1].items)))
    /\ stack' = Tail(stack)
    /\ roots' = roots \ Locals(Len(stack), {"cons_quoted"})
    /\ KeepToken
    /\ UNCHANGED <<lexer, results>>

-----------------------------------------------------------------------------
Init ==
    /\ LexerInit
    /\ has_peeked = FALSE
    /\ peeked = token
    /\ at = "drive"
    /\ stack = <<>>
    /\ ret = Failed
    /\ roots = {}
    /\ results = <<>>
    /\ taken = <<>>

ParserStep ==
    \/ PeekToken \/ StorePeeked
    \/ NextSexpr \/ SkipRightParen \/ ParseForm \/ FinishForm \/ FinishInput
    \/ ParseSExpr \/ ParseAtom
    \/ OpenList \/ UnterminatedList \/ NextElement \/ AppendElement \/ CloseList
    \/ OpenQuote \/ QuoteOperand \/ CloseQuote

Step == (LexerStep /\ UNCHANGED parser) \/ ParserStep

\* drive returns at the end of the input; a failed assertion, or no memory, ends
\* the program.
Stopped == (at = "end" \/ lex.pc = "exit") /\ UNCHANGED reader

Next == Step \/ Stopped

\* The reader is one thread, and the file always answers.
Spec == Init /\ [][Next]_reader /\ WF_reader(Step)
=============================================================================
