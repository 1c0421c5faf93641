----------------------------- MODULE MCReader -----------------------------
(***************************************************************************)
(* Texts for the reader: all short ones over alphabets that make each part *)
(* of it interesting, and those of the unit tests.                         *)
(***************************************************************************)
EXTENDS FormProperties, SequencesExt

UpTo(S, n) == BoundedSeq(S, n)
Around(before, middles, after) == {before \o m \o after : m \in middles}

a == 97
NUL == 0
Space == 32
Invalid == 255
Lead == 195         \* of a character of two bytes, 195 169
Follow == 169

\* Everything that can stand next to everything.
Mixed == UpTo({DoubleQuote, SingleQuote, LeftParen, RightParen, Semicolon, Backslash,
               NewLine, a, 49, Invalid}, 3)
         \cup UpTo({DoubleQuote, SingleQuote, LeftParen, RightParen, Semicolon, NewLine,
                    Invalid}, 4)

\* Lists and quotes.
Nested == UpTo({LeftParen, RightParen, SingleQuote, a}, 5)

\* Numbers and what is nearly one.
Numeric == UpTo({43, Period, 49, a, Space}, 4)

\* Characters of two bytes, whole and broken, in every place.
Broken == UpTo({Lead, Follow, DoubleQuote, Semicolon, NewLine}, 4)

\* Characters of three and four bytes, and of two that one would do for, in strings and
\* outside.
Wide ==
    LET characters == {<<226, 130, 172>>, <<240, 159, 152, 128>>, <<192, 175>>, <<193, 191>>}
    IN  characters \cup Around(<<a>>, characters, <<a>>)
        \cup Around(<<DoubleQuote>>, characters, <<DoubleQuote>>)

\* A NUL hides the rest of a line.
WithNul == Around(<<a>>, UpTo({NUL, NewLine, a}, 3), <<>>)

\* Strings with escapes, closed or not.
Escapes ==
    LET digits == {48, 68, 102, RightCurly, DoubleQuote} IN
    Around(<<DoubleQuote, Backslash>>,
           UpTo({48, 110, 120, 102, 113, DoubleQuote, Backslash, Invalid}, 3), <<>>)
    \cup Around(<<DoubleQuote, Backslash, 120>>, UpTo({102, 70, 113, DoubleQuote}, 3),
                <<DoubleQuote>>)
    \cup Around(<<DoubleQuote, Backslash, 117, LeftCurly>>, UpTo(digits, 3),
                <<RightCurly, DoubleQuote>>)
    \cup Around(<<DoubleQuote, Backslash, 117, LeftCurly>>, UpTo({48, 102, Lead}, 2), <<>>)
    \cup Around(<<DoubleQuote, Backslash, 117>>, {<<>>, <<a>>, <<Invalid>>}, <<DoubleQuote>>)

\* \u{...} at its limits: 7F, 80, 7FF, 800, FFF, 1000, D7FF, D800, DFFF, E000, 10FFF,
\* 11000, 10FFFF, 110000, six, seven and eight digits.
Limits ==
    Around(<<DoubleQuote, Backslash, 117, LeftCurly>>,
           {<<55, 70>>, <<56, 48>>, <<55, 70, 70>>, <<56, 48, 48>>, <<70, 70, 70>>,
            <<49, 48, 48, 48>>, <<68, 55, 70, 70>>, <<68, 56, 48, 48>>, <<68, 70, 70, 70>>,
            <<69, 48, 48, 48>>, <<49, 48, 70, 70, 70>>, <<49, 49, 48, 48, 48>>,
            <<49, 48, 70, 70, 70, 70>>, <<49, 49, 48, 48, 48, 48>>,
            <<48, 48, 48, 48, 52, 49>>, <<48, 48, 48, 48, 48, 52, 49>>,
            <<48, 48, 48, 48, 48, 48, 52, 49>>, <<52, 49, 48, 48, 48, 48, 52, 49>>},
           <<RightCurly, a, DoubleQuote>>)

\* lexer_lex_numbers, lexer_lex_strange_symbols, lexer_lex_complex_escapes,
\* lexer_lex_string_suffix, lexer_lex_utf8_error, parser_skip_right_parens.
UnitTests == {
    <<49, 46, 48, 32, 46, 49, 32, 49, 46, 32, 49, 46, 50, 32, 43, 49, 46, 50, 32, 45, 49,
      46, 50>>,
    <<49, 46, 48, 46, 32, 97, 34, 32, 97, 39, 49, 46, 32, 46, 49, 46, 50, 32, 49, 43, 49,
      46, 50, 32, 113, 45, 49, 46, 50>>,
    <<34, 92, 117, 34, 32, 34, 92, 117, 123, 34, 32, 34, 92, 117, 123, 65, 86, 34, 32, 34,
      92, 120, 65, 34>>,
    <<34, 34, 97>>,
    <<136, 41, 10>>,
    <<41, 41, 41, 41, 41, 32, 40, 110, 101, 119, 115, 41>>}

AllTexts ==
    Mixed \cup Nested \cup Numeric \cup Broken \cup Wide \cup WithNul \cup Escapes \cup Limits
    \cup UnitTests

\* A comment with invalid bytes that a newline ends.
CommentTexts == Around(<<Semicolon>>, UpTo({Invalid, NewLine, a}, 3), <<>>)

\* \u{7F}, the last codepoint of one byte, and \u{80}, the first of two.
EscapeTexts ==
    Around(<<DoubleQuote, Backslash, 117, LeftCurly>>, {<<55, 70>>, <<56, 48>>},
           <<RightCurly, DoubleQuote>>)
=============================================================================
