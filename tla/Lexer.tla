------------------------------- MODULE Lexer -------------------------------
(***************************************************************************)
(* The lexer of src/src/lexer.c, with the errors it adds to the parse      *)
(* context of src/src/parse-context.c.                                     *)
(*                                                                         *)
(* A byte is a number, the text a sequence of them; positions are those of *)
(* the C code and start at 0.  The part of the text that has been read is  *)
(* input; the rest waits in the file, from which fgets takes a line, or    *)
(* what the buffer has room for, when the lexer looks beyond input.        *)
(*                                                                         *)
(* Each loop of lexer_next_token and of lexer_handle_escape is a value of  *)
(* lex.pc, and one turn of it a step.                                      *)
(***************************************************************************)
EXTENDS Arena, Sequences

CONSTANTS
    Texts,          \* what may be read
    BaseCapacity,   \* 128, the first capacity of the buffer
    DigitsMod,      \* 2^8, for the uint8_t digits_read
    WordMod         \* 2^32, for the uint32_t val: six hexadecimal digits fit

ASSUME LexerAssumption ==
    /\ \A t \in Texts : t \in Seq(0 .. 255)
    /\ BaseCapacity \in 3 .. PtrdiffMax
    /\ DigitsMod \in Nat /\ DigitsMod > 6
    /\ WordMod \in Nat /\ WordMod >= 16777216

VARIABLES
    text,       \* everything there is to read
    input,      \* lexer->input[0 .. input_len - 1]
    unread,     \* what the file has left
    open,       \* lexer->file is not NULL
    capacity,   \* lexer->input_capacity
    index,      \* lexer->index
    lex,        \* the local variables of lexer_next_token, and where it is
    token,      \* what it returned last, with *had_error
    context     \* the errors recorded, oldest first

buffer == <<text, input, unread, open, capacity>>
lexer == <<buffer, index, lex, token, context>>

-----------------------------------------------------------------------------
(***************************************************************************)
(* Characters.                                                             *)
(***************************************************************************)
NewLine == 10
DoubleQuote == 34
SingleQuote == 39
LeftParen == 40
RightParen == 41
Period == 46
Semicolon == 59
Backslash == 92
LeftCurly == 123
RightCurly == 125

IsWhitespace(c) == c \in {9, NewLine, 13, 32}
IsDigit(c) == c \in 48 .. 57
IsNumericContinue(c) == IsDigit(c) \/ c = Period
IsNumericStart(c) == IsNumericContinue(c) \/ c \in {43, 45}
IsHexDigit(c) == IsDigit(c) \/ c \in 65 .. 70 \/ c \in 97 .. 102
IsDelimiter(c) == IsWhitespace(c) \/ c \in {LeftParen, RightParen}

HexValue(c) ==
    IF IsDigit(c) THEN c - 48 ELSE IF c \in 65 .. 70 THEN c - 55 ELSE c - 87

IsSurrogate(val) == val \in 55296 .. 57343

-----------------------------------------------------------------------------
(***************************************************************************)
(* lexer_codepoint_at_offset.  The third and the fourth lead pattern are   *)
(* those of the code, which no byte matches.                               *)
(***************************************************************************)
Byte(i) == input[i + 1]

CodepointWidth(byte) ==
    CASE byte \div 128 = 0 -> 1
      [] byte \div 32 = 6 -> 2
      [] byte \div 16 = 22 -> 3
      [] byte \div 8 = 54 -> 4
      [] OTHER -> 0

\* The n bytes after the one at i are there and continue it.
Continues(i, n) ==
    \A k \in 1 .. n : i + k < Len(input) /\ Byte(i + k) \div 64 = 2

\* The lead byte loses its highest bit only, whatever the width.
Codepoint(i, width) ==
    LET val[k \in 0 .. width - 1] ==
            IF k = 0 THEN Byte(i) % 128 ELSE (val[k - 1] * 64) + (Byte(i + k) % 64)
    IN  val[width - 1]

EndOfInput == [k |-> "end"]
BadUtf8 == [k |-> "bad"]
Char(c, width) == [k |-> "char", c |-> c, width |-> width]

CodepointAt(i) ==
    IF i >= Len(input) THEN EndOfInput
    ELSE LET width == CodepointWidth(Byte(i)) IN
         IF width = 0 \/ ~Continues(i, width - 1) THEN BadUtf8
         ELSE LET val == Codepoint(i, width) IN
              IF val > 1114111 \/ IsSurrogate(val) THEN BadUtf8 ELSE Char(val, width)

-----------------------------------------------------------------------------
(***************************************************************************)
(* lexer_get_additional_input.                                             *)
(***************************************************************************)
\* lexer_peek_nth_byte is asked for a byte beyond what has been read.
NeedsInput(i) ==
    \/ i >= Len(input)
    \/ /\ i < Len(input)
       /\ \E n \in 1 .. CodepointWidth(Byte(i)) - 1 :
             i + n = Len(input) /\ Continues(i, n - 1)

\* fgets: up to a newline or size - 1 bytes.
Gets(size) ==
    LET ends == {n \in 0 .. Len(unread) :
                    \/ n = size - 1
                    \/ n = Len(unread)
                    \/ n > 0 /\ unread[n] = NewLine}
    IN  SubSeq(unread, 1, CHOOSE n \in ends : \A m \in ends : n <= m)

\* Mutant: the NUL that fgets appends is taken for a byte of the line.
UpToNulAppended(line) == Append(line, 0)

\* strlen: a NUL in a line hides the rest of it.
UpToNul(line) ==
    LET ends == {n \in 0 .. Len(line) : n = Len(line) \/ line[n + 1] = 0}
    IN  SubSeq(line, 1, CHOOSE n \in ends : \A m \in ends : n <= m)

\* Mutant: the buffer grows only when it is full, and fgets gets no room.
FilledLate == Len(input) >= capacity

\* fgets needs room for a byte and the NUL.
Filled == Len(input) + 1 >= capacity

Reading == lex.pc \notin {"idle", "done", "exit"}
Starved == Reading /\ open /\ NeedsInput(index)

GetInput ==
    /\ Starved
    /\ Filled => CanGrow(capacity, 1, BaseCapacity)
    /\ capacity' = IF Filled THEN GrownCapacity(capacity, 1, BaseCapacity) ELSE capacity
    /\ LET line == Gets(capacity' - Len(input)) IN
       /\ input' = input \o UpToNul(line)
       /\ unread' = SubSeq(unread, Len(line) + 1, Len(unread))
       /\ open' = (UpToNul(line) # <<>>)
    /\ UNCHANGED <<text, index, lex, token, context>>

\* grow finds no memory, or may not grow any more: the program exits.
GrowFails ==
    /\ Starved /\ Filled
    /\ lex' = [lex EXCEPT !.pc = "exit"]
    /\ UNCHANGED <<buffer, index, token, context>>

-----------------------------------------------------------------------------
(***************************************************************************)
(* Steps that the loops share.                                             *)
(***************************************************************************)
Idle ==
    [pc |-> "idle", start |-> 0, errors |-> 0, utf8_error |-> FALSE, c |-> 0,
     escape |-> 0, val |-> 0, digits |-> 0,
     dots |-> 0, numeric |-> FALSE, digit |-> FALSE, bad |-> 0, resume |-> "idle"]

At(pc) == lex.pc = pc /\ ~(open /\ NeedsInput(index))
Peek == CodepointAt(index)
IsChar == Peek.k = "char"

Error(type, from, to) == [type |-> type, index |-> from, length |-> to - from]

\* A character that was peeked is taken.
Take(l) == index' = index + Peek.width /\ lex' = l
Stay(l) == index' = index /\ lex' = l
AddErrors(errors) == context' = context \o errors
NoError == UNCHANGED context

\* Mutant: a token counts the errors of the whole form as its own.
ReturnTokenBlamed(type, from, errors) ==
    /\ lex' = [Idle EXCEPT !.pc = "done"]
    /\ token' = [type |-> type, index |-> from, length |-> index' - from,
                 had_error |-> context' # <<>>]

\* exit: the errors since the token began are its own.
ReturnToken(type, from, errors) ==
    /\ lex' = [Idle EXCEPT !.pc = "done"]
    /\ token' = [type |-> type, index |-> from, length |-> index' - from,
                 had_error |-> Len(context') # errors]

\* Mutant: invalid bytes are noticed, but not skipped.
SkipThenNothing(resume, l) ==
    /\ Peek = BadUtf8
    /\ Stay([l EXCEPT !.pc = resume])
    /\ NoError /\ UNCHANGED token

\* lexer_handle_utf8_error is called; the loop resume follows.
SkipThen(resume, l) ==
    /\ Peek = BadUtf8
    /\ Stay([l EXCEPT !.pc = "skip", !.bad = index, !.resume = resume])
    /\ NoError /\ UNCHANGED token

\* lexer_skip_invalid_utf8 byte by byte, then the error, then peek_error of
\* lexer_handle_escape if it was an escape that was broken off.
SkipInvalid ==
    /\ At("skip")
    /\ IF Peek = BadUtf8
       THEN index' = index + 1 /\ UNCHANGED <<lex, context>>
       ELSE LET invalid == Error("INVALID_UTF8", lex.bad, index) IN
            IF lex.resume = "escape"
            THEN /\ Stay([lex EXCEPT !.pc = "string"])
                 /\ AddErrors(<<invalid, Error("INVALID_ESCAPE", lex.escape, index)>>)
            ELSE /\ Stay([lex EXCEPT !.pc = lex.resume])
                 /\ AddErrors(<<invalid>>)
    /\ UNCHANGED <<buffer, token>>

-----------------------------------------------------------------------------
(***************************************************************************)
(* lexer_next_token up to its switch.                                      *)
(***************************************************************************)
\* restart: the next character decides.
Begin ==
    /\ At("start")
    /\ LET l == [lex EXCEPT !.start = index, !.errors = Len(context)] IN
       \/ /\ Peek = EndOfInput
          /\ UNCHANGED <<index, context>>
          /\ ReturnToken("END", index, Len(context))
       \/ SkipThen("symbol", [l EXCEPT !.utf8_error = FALSE])
       \/ /\ IsChar /\ Peek.c \notin {SingleQuote, LeftParen, RightParen}
          /\ Take(CASE IsWhitespace(Peek.c) -> [l EXCEPT !.pc = "blank"]
                    [] Peek.c = Semicolon -> [l EXCEPT !.pc = "comment"]
                    [] Peek.c = DoubleQuote -> [l EXCEPT !.pc = "string", !.c = Peek.c]
                    [] OTHER -> [l EXCEPT !.pc = "atom",
                                          !.dots = IF Peek.c = Period THEN 1 ELSE 0,
                                          !.numeric = IsNumericStart(Peek.c),
                                          !.digit = IsDigit(Peek.c)])
          /\ NoError /\ UNCHANGED token
       \/ /\ IsChar /\ Peek.c \in {SingleQuote, LeftParen, RightParen}
          /\ index' = index + 1
          /\ NoError
          /\ ReturnToken(CASE Peek.c = SingleQuote -> "SINGLE_QUOTE"
                           [] Peek.c = LeftParen -> "LEFT_PAREN"
                           [] Peek.c = RightParen -> "RIGHT_PAREN", index, Len(context))
    /\ UNCHANGED buffer

\* utf8_error is written by a peek that fails, and by no other.
Peeked == IF IsChar THEN lex ELSE [lex EXCEPT !.utf8_error = (Peek = BadUtf8)]

SkipBlank ==
    /\ At("blank")
    /\ IF IsChar /\ IsWhitespace(Peek.c) THEN Take(lex)
                                         ELSE Stay([Peeked EXCEPT !.pc = "start"])
    /\ NoError /\ UNCHANGED <<buffer, token>>

\* Mutant: a carriage return ends a comment.
LoopEndsAtReturn ==
    IsChar /\ IF lex.pc = "comment" THEN Peek.c = 13 ELSE IsDelimiter(Peek.c)

\* The loops over a comment, a symbol that began with invalid bytes, and any other
\* symbol or number, end before one of these.
LoopEnds ==
    IsChar /\ IF lex.pc = "comment" THEN Peek.c = NewLine ELSE IsDelimiter(Peek.c)

\* lexer_skip_invalid_utf8 asserts that there is something to skip.  utf8_error may
\* be left over from an earlier turn of the comment's loop.
AssertionFails ==
    /\ lex.pc \in {"comment", "symbol", "atom"} /\ At(lex.pc)
    /\ LoopEnds /\ lex.utf8_error
    /\ lex' = [lex EXCEPT !.pc = "exit"]
    /\ UNCHANGED <<buffer, index, token, context>>

SkipComment ==
    /\ At("comment")
    /\ ~(LoopEnds /\ lex.utf8_error)
    /\ \/ IsChar /\ ~LoopEnds /\ Take(lex) /\ NoError /\ UNCHANGED token
       \/ /\ LoopEnds \/ Peek = EndOfInput
          /\ Stay([Peeked EXCEPT !.pc = "start"]) /\ NoError /\ UNCHANGED token
       \/ SkipThen("comment", Peeked)
    /\ UNCHANGED buffer

\* restart_sym.
LexSymbol ==
    /\ At("symbol")
    /\ ~(LoopEnds /\ lex.utf8_error)
    /\ \/ IsChar /\ ~LoopEnds /\ Take(lex) /\ NoError /\ UNCHANGED token
       \/ /\ LoopEnds \/ Peek = EndOfInput
          /\ UNCHANGED <<index, context>>
          /\ ReturnToken("SYMBOL", lex.start, lex.errors)
       \/ SkipThen("symbol", lex)
    /\ UNCHANGED buffer

-----------------------------------------------------------------------------
(***************************************************************************)
(* Symbols and numbers.                                                    *)
(***************************************************************************)
\* Mutant: a sign may also stand inside a number.
SignedAnywhere(l, c) ==
    [l EXCEPT !.dots = @ + (IF c = Period THEN 1 ELSE 0),
              !.numeric = @ /\ IsNumericStart(c),
              !.digit = @ \/ IsDigit(c)]

Counted(l, c) ==
    [l EXCEPT !.dots = @ + (IF c = Period THEN 1 ELSE 0),
              !.numeric = @ /\ IsNumericContinue(c),
              !.digit = @ \/ IsDigit(c)]

\* restart_sym_num.
LexAtom ==
    /\ At("atom")
    /\ ~(LoopEnds /\ lex.utf8_error)
    /\ \/ /\ IsChar /\ ~LoopEnds
          /\ Take(Counted(lex, Peek.c)) /\ NoError /\ UNCHANGED token
       \/ /\ LoopEnds \/ Peek = EndOfInput
          /\ UNCHANGED <<index, context>>
          /\ ReturnToken(IF lex.numeric /\ lex.dots <= 1 /\ lex.digit
                         THEN "NUMBER" ELSE "SYMBOL", lex.start, lex.errors)
       \/ SkipThen("atom", [lex EXCEPT !.numeric = FALSE])
    /\ UNCHANGED buffer

-----------------------------------------------------------------------------
(***************************************************************************)
(* Strings.  After invalid bytes the loop tests the last character it has  *)
(* read, which is the opening quote if nothing followed that yet.          *)
(***************************************************************************)
LexString ==
    /\ At("string")
    /\ \/ /\ IsChar
          /\ Take(CASE Peek.c = Backslash ->
                         [lex EXCEPT !.pc = "escape", !.c = Peek.c, !.escape = index]
                    [] Peek.c = DoubleQuote -> [lex EXCEPT !.pc = "suffix", !.c = Peek.c]
                    [] OTHER -> [lex EXCEPT !.c = Peek.c])
          /\ NoError /\ UNCHANGED token
       \/ SkipThen(IF lex.c = DoubleQuote THEN "suffix" ELSE "string", lex)
       \/ /\ Peek = EndOfInput
          /\ UNCHANGED index
          /\ AddErrors(<<Error("UNTERMINATED_STRING", lex.start, index)>>)
          /\ ReturnToken("STRING", lex.start, lex.errors)
    /\ UNCHANGED buffer

\* Whitespace, a parenthesis or the end has to follow.
LexSuffix ==
    /\ At("suffix")
    /\ UNCHANGED index
    /\ AddErrors(IF Peek = EndOfInput \/ (IsChar /\ IsDelimiter(Peek.c)) THEN <<>>
                 ELSE <<Error("INVALID_SUFFIX", lex.start, index)>>)
    /\ ReturnToken("STRING", lex.start, lex.errors)
    /\ UNCHANGED buffer

\* lexer_handle_escape returns to the string, with errors or without.
Escaped(errors) ==
    /\ lex' = [lex EXCEPT !.pc = "string"]
    /\ AddErrors(errors)
    /\ UNCHANGED token

InvalidEscape(to) == <<Error("INVALID_ESCAPE", lex.escape, to)>>

PeekError ==
    \/ SkipThen("escape", lex)
    \/ Peek = EndOfInput /\ index' = index /\ Escaped(InvalidEscape(index))

\* Mutant: the error covers a byte too many.
WrongCharLonger == index' = index /\ Escaped(InvalidEscape(index + 2))

WrongChar == index' = index /\ Escaped(InvalidEscape(index + 1))

Simple == {DoubleQuote, SingleQuote, 48, Backslash, 110, 114, 116}

LexEscape ==
    /\ At("escape")
    /\ \/ /\ IsChar /\ Peek.c \in {117, 120}
          /\ Take([lex EXCEPT !.pc = IF Peek.c = 117 THEN "unicode" ELSE "hex",
                              !.val = 0, !.digits = 0])
          /\ NoError /\ UNCHANGED token
       \/ /\ IsChar /\ Peek.c \notin {117, 120}
          /\ index' = index + Peek.width
          /\ Escaped(IF Peek.c \in Simple THEN <<>> ELSE InvalidEscape(index'))
       \/ PeekError
    /\ UNCHANGED buffer

LexUnicode ==
    /\ At("unicode")
    /\ \/ /\ IsChar /\ Peek.c = LeftCurly
          /\ Take([lex EXCEPT !.pc = "digits"]) /\ NoError /\ UNCHANGED token
       \/ IsChar /\ Peek.c # LeftCurly /\ WrongChar
       \/ PeekError
    /\ UNCHANGED buffer

\* 0x10FFF, a digit short of the largest codepoint.
Fits(digits, val) == digits <= 6 /\ val <= 69631 /\ ~IsSurrogate(val)

LexDigits ==
    /\ At("digits")
    /\ \/ /\ IsChar /\ IsHexDigit(Peek.c)
          /\ Take([lex EXCEPT !.digits = (@ + 1) % DigitsMod,
                              !.val = (@ * 16 + HexValue(Peek.c)) % WordMod])
          /\ NoError /\ UNCHANGED token
       \/ /\ IsChar /\ Peek.c = RightCurly
          /\ index' = index + 1
          /\ Escaped(IF Fits(lex.digits, lex.val) THEN <<>> ELSE InvalidEscape(index'))
       \/ IsChar /\ ~IsHexDigit(Peek.c) /\ Peek.c # RightCurly /\ WrongChar
       \/ PeekError
    /\ UNCHANGED buffer

LexHex ==
    /\ At("hex")
    /\ \/ /\ IsChar /\ IsHexDigit(Peek.c)
          /\ Take([lex EXCEPT !.digits = @ + 1,
                              !.pc = IF lex.digits = 1 THEN "string" ELSE "hex"])
          /\ NoError /\ UNCHANGED token
       \/ IsChar /\ ~IsHexDigit(Peek.c) /\ WrongChar
       \/ PeekError
    /\ UNCHANGED buffer

-----------------------------------------------------------------------------
\* lexer_init with a file, as main calls it, and lexer_init_s8, as the tests do.
LexerInit ==
    /\ text \in Texts
    /\ \/ open = TRUE /\ unread = text /\ input = <<>>
       \/ open = FALSE /\ unread = <<>> /\ input = text
    /\ capacity = 0
    /\ index = 0
    /\ lex = Idle
    /\ token = [type |-> "END", index |-> 0, length |-> 0, had_error |-> FALSE]
    /\ context = <<>>

LexerStep ==
    \/ GetInput \/ GrowFails \/ SkipInvalid \/ AssertionFails
    \/ Begin \/ SkipBlank \/ SkipComment \/ LexSymbol \/ LexAtom
    \/ LexString \/ LexSuffix \/ LexEscape \/ LexUnicode \/ LexDigits \/ LexHex
=============================================================================
