------------------------- MODULE ReaderProperties -------------------------
(***************************************************************************)
(* What is checked of Lexer.tla and Parser.tla, but for what forms mean    *)
(* (FormProperties).  The definitions here speak of the bytes and of the   *)
(* tokens, never of the loops that read them.                              *)
(***************************************************************************)
EXTENDS Parser

TokenTypes == {"SYMBOL", "STRING", "NUMBER", "LEFT_PAREN", "RIGHT_PAREN",
               "SINGLE_QUOTE", "END"}

TypeOK ==
    /\ text \in Texts
    /\ \A i \in DOMAIN input : input[i] \in 0 .. 255
    /\ open => (Len(input) < capacity \/ capacity = 0)
    /\ index \in 0 .. Len(input)
    /\ lex.pc \in {"idle", "done", "exit", "start", "blank", "comment", "symbol", "atom",
                   "string", "suffix", "escape", "unicode", "digits", "hex", "skip"}
    /\ token.type \in TokenTypes /\ token.index + token.length <= Len(input)
    /\ at \in Peeks \cup {"drive", "return", "wrap", "end"}
    /\ has_peeked \in BOOLEAN /\ peeked.type \in TokenTypes
    /\ \A i \in DOMAIN stack : stack[i].k \in {"list", "quote"}

-----------------------------------------------------------------------------
(***************************************************************************)
(* Tokens and the text.                                                    *)
(***************************************************************************)
\* Where the token before the current one ended.
LastEnd ==
    LET tokens == IF taken # <<>> \/ results = <<>> THEN taken
                  ELSE results[Len(results)].tokens
    IN  IF tokens = <<>> THEN 0
        ELSE tokens[Len(tokens)].index + tokens[Len(tokens)].length

\* The bytes from i to j are whitespace, or lie after a semicolon in their line.
Blank(i, j) ==
    \A p \in i .. j - 1 :
        \/ IsWhitespace(Byte(p))
        \/ \E q \in i .. p : /\ Byte(q) = Semicolon
                             /\ \A r \in q .. p : Byte(r) # NewLine

\* The tokens follow each other in the text, and between two of them is nothing
\* but whitespace and comments: restarting, skipping invalid bytes and reading in
\* pieces lose nothing and read nothing twice.
GapsAreBlank ==
    lex.pc = "done" => token.index >= LastEnd /\ Blank(LastEnd, token.index)

EndsAtDelimiter(t) ==
    LET end == t.index + t.length IN
    \/ end = Len(input) /\ ~open
    \/ end < Len(input) /\ IsDelimiter(Byte(end))

Numeral(s) ==
    /\ \E i \in DOMAIN s : IsDigit(s[i])
    /\ \A i \in DOMAIN s : IsNumericContinue(s[i]) \/ (i = 1 /\ s[i] \in {43, 45})
    /\ \A i, j \in DOMAIN s : s[i] = Period /\ s[j] = Period => i = j

\* A symbol or number extends to the next delimiter, and is a number exactly when it
\* is written like one: an optional sign, digits, at most one period (strtod gets
\* no text it could not read to the end).
AtomsAreWhole ==
    lex.pc = "done" /\ token.type \in {"SYMBOL", "NUMBER"} =>
        LET s == TokenBytes(token) IN
        /\ s # <<>> /\ EndsAtDelimiter(token)
        /\ \A i \in DOMAIN s : ~IsDelimiter(s[i])
        /\ (token.type = "NUMBER") = Numeral(s)

\* The bytes of s from i up to, but not including, j are a character in UTF-8.
Utf8(s, i, j) ==
    /\ \A k \in i + 1 .. j - 1 : s[k] \in 128 .. 191
    /\ \/ j = i + 1 /\ s[i] \in 0 .. 127
       \/ j = i + 2 /\ s[i] \in 194 .. 223
       \/ /\ j = i + 3 /\ s[i] \in 224 .. 239
          /\ s[i] = 224 => s[i + 1] >= 160
          /\ s[i] = 237 => s[i + 1] < 160
       \/ /\ j = i + 4 /\ s[i] \in 240 .. 244
          /\ s[i] = 240 => s[i + 1] >= 144
          /\ s[i] = 244 => s[i + 1] < 144

LastCodepoint == 1114111    \* 10FFFF
LastAccepted == 69631       \* 10FFF

\* They are \u{...}, with nothing but hexadecimal digits between the brackets.
Bracketed(s, i, j) ==
    /\ i + 4 <= j
    /\ s[i] = Backslash /\ s[i + 1] = 117 /\ s[i + 2] = LeftCurly /\ s[j - 1] = RightCurly
    /\ \A k \in i + 3 .. j - 2 : IsHexDigit(s[k])

Digits(i, j) == j - (i + 4)
Number16(s, i, j) == HexNumber(SubSeq(s, i + 3, j - 2))

\* They are one of the escapes that the comments of lexer_handle_escape list; u is that
\* "for an arbitrary unicode codepoint", of one to six digits.
Documented(s, i, j) ==
    \/ j = i + 2 /\ s[i] = Backslash /\ s[i + 1] \in Simple
    \/ /\ j = i + 4 /\ s[i] = Backslash /\ s[i + 1] = 120
       /\ IsHexDigit(s[i + 2]) /\ IsHexDigit(s[i + 3])
    \/ /\ Bracketed(s, i, j) /\ Digits(i, j) \in 1 .. 6
       /\ Number16(s, i, j) <= LastCodepoint /\ ~IsSurrogate(Number16(s, i, j))

\* A span of s is a pair of such positions.
Spans(s) == {p \in (1 .. Len(s)) \X (2 .. Len(s) + 1) : p[1] < p[2]}
Characters(s) == {p \in Spans(s) : Utf8(s, p[1], p[2])}
Pieces(s) ==
    {p \in Spans(s) : \/ Utf8(s, p[1], p[2]) /\ s[p[1]] \notin {DoubleQuote, Backslash}
                      \/ Documented(s, p[1], p[2])}

\* What the lexer lets pass all the same: characters of two bytes that one would do for
\* (no minimum at lexer.c:151), and \u{...} without a digit, or with so many that their
\* number has wrapped around (lexer.c:327).
Tolerated(s) ==
    {p \in Spans(s) :
        \/ p[2] = p[1] + 2 /\ s[p[1]] \in {192, 193} /\ s[p[1] + 1] \in 128 .. 191
        \/ Bracketed(s, p[1], p[2]) /\ (Digits(p[1], p[2]) = 0 \/ Digits(p[1], p[2]) >= DigitsMod)}

\* What it refuses all the same: characters of three and four bytes, whose patterns no
\* byte matches (lexer.c:127), and codepoints beyond 10FFF (lexer.c:328).
Unsupported(s) ==
    {p \in Spans(s) :
        \/ Utf8(s, p[1], p[2]) /\ s[p[1]] >= 224
        \/ /\ Bracketed(s, p[1], p[2]) /\ Digits(p[1], p[2]) \in 1 .. 6
           /\ Number16(s, p[1], p[2]) > LastAccepted}

\* Every byte of s is in one of the spans.
Covered(s, spans) == \A k \in DOMAIN s : \E p \in spans : k \in p[1] .. p[2] - 1

\* s is a quotation mark, spans one after the other, and a quotation mark.
Quoted(s, spans) ==
    /\ Len(s) > 1 /\ s[1] = DoubleQuote /\ s[Len(s)] = DoubleQuote
    /\ \E cuts \in SUBSET (2 .. Len(s)) :
          /\ 2 \in cuts /\ Len(s) \in cuts
          /\ \A i \in cuts : i = Len(s) \/ \E j \in cuts : <<i, j>> \in spans

\* A token is written as it should be: a symbol or number with whole characters, a string
\* literal with characters and escapes up to its closing quotation mark, before a
\* delimiter.  The spans in more are allowed besides, those in unknown are not.
WellFormed(t, more, unknown) ==
    LET s == TokenBytes(t) IN
    CASE t.type \in {"SYMBOL", "NUMBER"} -> Covered(s, (Characters(s) \cup more) \ unknown)
      [] t.type = "STRING" ->
           Quoted(s, (Pieces(s) \cup more) \ unknown) /\ EndsAtDelimiter(t)
      [] OTHER -> TRUE

\* *had_error is set for the tokens with a flaw and for no other, but for the gaps that
\* Tolerated and Unsupported name: a token without it is well formed or has a tolerated
\* piece in it, and one with it is not well formed or has an unsupported one.  Neither
\* an error in a comment before the token nor one of an earlier token is taken for its
\* own (lexer.c:208, lexer.c:376).
FlawsAreFlagged ==
    lex.pc = "done" =>
        LET s == TokenBytes(token) IN
        /\ ~token.had_error => WellFormed(token, Tolerated(s), {})
        /\ token.had_error => ~WellFormed(token, {}, Unsupported(s))

\* parser_parse_string trusts the lexer: for every string token without an error its
\* two passes stay within the token (s8_index asserts it), and the second advances over
\* as many places of the new object as the first has counted, so that it writes none
\* beyond it.  Not that it writes all of them: EscapesArrive says that.
StringsFit ==
    lex.pc = "done" /\ token.type = "STRING" /\ ~token.had_error =>
        LET d == Decoded(TokenBytes(token)) IN d.inside /\ d.size = Len(d.bytes)

\* "u (escape for an arbitrary unicode codepoint)" (parser.c:104, lexer.c:292): a string
\* literal that is well formed is accepted, and all the bytes of its object are written.
EscapesArrive ==
    lex.pc = "done" /\ token.type = "STRING" /\ WellFormed(token, {}, {}) =>
        /\ ~token.had_error
        /\ \A n \in DOMAIN Decoded(TokenBytes(token)).bytes :
              Decoded(TokenBytes(token)).bytes[n] # Unwritten

\* The bytes an error covers have been read and are still in the buffer, whence
\* parse_context_print writes them.
ErrorsInsideText ==
    \A i \in DOMAIN context :
        context[i].length > 0 /\ context[i].index + context[i].length <= Len(input)

\* Without a NUL in it, the text has been read to its end when drive returns, however
\* its lines compare with the capacity of the buffer.
WholeTextRead ==
    at = "end" /\ (\A i \in DOMAIN text : text[i] # 0) =>
        input = text /\ index = Len(text) /\ peeked.type = "END"

-----------------------------------------------------------------------------
\* The errors that parser_next_sexpr drops when the input has ended (parser.c:451) are
\* about bytes after the last token: those of a comment.
OnlyTrailingErrorsDropped ==
    at = "end" => \A i \in DOMAIN context : context[i].index >= LastEnd

\* The functions that read the flag of a token from parser_next_token are called with
\* that token peeked: the flag of a token just lexed is not written (parser.c:33).
FlagsAreWritten == at \in {"atom", "open_list", "quote"} => has_peeked

LocalsOf(i) ==
    LET depth == Len(stack) - i + 1 IN
    IF stack[i].k = "list" THEN Locals(depth, {"base", "current"})
    ELSE IF i = 1 /\ at = "wrap" THEN Locals(depth, {"cons_quoted"}) ELSE {}

\* On every way through the parser, also out of an unterminated list, exactly the
\* variables that hold objects across an allocation are rooted, and none when drive
\* compares the count (main.c:16).
RootsAreLive ==
    roots = (UNION {LocalsOf(i) : i \in DOMAIN stack})
            \cup (IF at \in {"drive", "end"} THEN {} ELSE Locals(0, {"context"}))

-----------------------------------------------------------------------------
\* Every text is read to its end, unless the program exits: each turn of each loop
\* takes a byte, or leaves the loop.
Ends == <>(at = "end" \/ lex.pc = "exit")

\* The assertions of the lexer hold (lexer.c:211): only a lack of memory ends the
\* program before the input does.
AssertionsHold == ~ENABLED AssertionFails
=============================================================================
