----------------------------- MODULE TextProofs -----------------------------
(***************************************************************************)
(* The tokens and the text, for texts of any length: between two tokens is *)
(* nothing but whitespace and comments, a symbol or number is whole, the   *)
(* only errors dropped come after the last token, a token has an error     *)
(* exactly when its bytes deserve it, and the two passes over a string     *)
(* agree.                                                                  *)
(***************************************************************************)
EXTENDS FlawInvariant, ReaderProofs

-----------------------------------------------------------------------------
(***************************************************************************)
(* Characters and their bytes.                                             *)
(***************************************************************************)
LEMMA ByteFacts ==
    ASSUME IInv, NEW p \in Nat, p < Len(input)
    PROVE  Byte(p) \in 0 .. 255
  <1>1. input \in Seq(Bytes)
    BY DEF IInv, BufferInv
  <1>2. p + 1 \in 1 .. Len(input) /\ Len(input) \in Nat
    BY <1>1
  <1>3. input[p + 1] \in Bytes
    BY <1>1, <1>2
  <1> QED
    BY <1>3 DEF Byte, Bytes

LEMMA PositionFacts ==
    ASSUME IInv
    PROVE  /\ index \in Nat /\ Len(input) \in Nat /\ index <= Len(input)
           /\ Peek = EndOfInput \/ Peek = BadUtf8 \/ IsChar
           /\ Peek = EndOfInput => index = Len(input) /\ Peek # BadUtf8 /\ ~IsChar
           /\ Peek = BadUtf8 => index < Len(input) /\ Peek # EndOfInput /\ ~IsChar
           /\ IsChar => /\ index < Len(input) /\ Peek # EndOfInput /\ Peek # BadUtf8
                        /\ Peek.width \in Nat \ {0}
                        /\ index + Peek.width <= Len(input)
  <1>1. input \in Seq(Bytes) /\ index \in 0 .. Len(input)
    BY DEF IInv, BufferInv, LexInv
  <1>2. index \in Nat /\ Len(input) \in Nat /\ index <= Len(input)
    BY <1>1
  <1> QED
    BY <1>1, <1>2, PeekFacts, Zenon

\* No byte begins a character of more than two.
LEMMA WidthFacts ==
    ASSUME NEW b \in 0 .. 255
    PROVE  /\ CodepointWidth(b) \in 0 .. 2
           /\ CodepointWidth(b) = 1 => b < 128
           /\ b < 128 => CodepointWidth(b) = 1
           /\ CodepointWidth(b) = 2 <=> b \in 192 .. 223
  <1>1. b \div 128 = 0 <=> b < 128
    OBVIOUS
  <1>2. b \div 32 = 6 <=> b \in 192 .. 223
    OBVIOUS
  <1>3. b \div 16 # 22 /\ b \div 8 # 54
    OBVIOUS
  <1>4. b \div 128 = 0 => b \div 32 # 6
    OBVIOUS
  <1>5. CodepointWidth(b) = IF b \div 128 = 0 THEN 1 ELSE IF b \div 32 = 6 THEN 2 ELSE 0
    BY <1>3, <1>4, Zenon DEF CodepointWidth
  <1> QED
    BY <1>1, <1>2, <1>5

\* The recursive definition of the value, for a character of at most two bytes.
LEMMA CodepointFacts ==
    ASSUME NEW i, NEW w \in 1 .. 2
    PROVE  /\ w = 1 => Codepoint(i, w) = Byte(i) % 128
           /\ w = 2 => Codepoint(i, w) = ((Byte(i) % 128) * 64) + (Byte(i + 1) % 64)
  <1> DEFINE f == CHOOSE h : h = [k \in 0 .. w - 1 |->
                        IF k = 0 THEN Byte(i) % 128
                        ELSE (h[k - 1] * 64) + (Byte(i + k) % 64)]
             g == [k \in 0 .. w - 1 |-> IF k = 0 THEN Byte(i) % 128
                                        ELSE ((Byte(i) % 128) * 64) + (Byte(i + k) % 64)]
  <1>1. /\ \A k \in 0 .. w - 1 : k = 0 \/ k - 1 = 0
        /\ 0 \in 0 .. w - 1 /\ (w = 2 => 1 \in 0 .. w - 1) /\ 1 - 1 = 0 /\ 1 # 0
        /\ w = 1 => w - 1 = 0
        /\ w = 2 => w - 1 = 1
    OBVIOUS
  <1>2. g[0] = Byte(i) % 128
    BY <1>1, Zenon
  <1>3. \A k \in 0 .. w - 1 : k # 0 => g[k - 1] = Byte(i) % 128
    <2> HIDE DEF g
    <2> QED
      BY <1>1, <1>2, Zenon
  <1>4. g = [k \in 0 .. w - 1 |-> IF k = 0 THEN Byte(i) % 128
                                  ELSE (g[k - 1] * 64) + (Byte(i + k) % 64)]
    <2> DEFINE G(k) == g[k - 1]
    <2>1. \A k \in 0 .. w - 1 : k # 0 => G(k) = Byte(i) % 128
      BY <1>3, Zenon
    <2> HIDE DEF G
    <2>2. g = [k \in 0 .. w - 1 |-> IF k = 0 THEN Byte(i) % 128
                                    ELSE (G(k) * 64) + (Byte(i + k) % 64)]
      BY <2>1, Zenon
    <2> QED
      BY <2>2, Zenon DEF G
  <1> HIDE DEF g
  <1>5. f = [k \in 0 .. w - 1 |-> IF k = 0 THEN Byte(i) % 128
                                  ELSE (f[k - 1] * 64) + (Byte(i + k) % 64)]
    BY <1>4, Zenon
  <1>6. Codepoint(i, w) = f[w - 1]
    BY Zenon DEF Codepoint
  <1> HIDE DEF f
  <1>7. f[0] = Byte(i) % 128
    BY <1>1, <1>5, Zenon
  <1>8. w = 2 => f[1] = (f[0] * 64) + (Byte(i + 1) % 64)
    <2>1. \A k \in 0 .. w - 1 :
             k # 0 => f[k] = (f[k - 1] * 64) + (Byte(i + k) % 64)
      BY <1>5, Zenon
    <2>2. w = 2 => f[1] = (f[1 - 1] * 64) + (Byte(i + 1) % 64)
      BY <1>1, <2>1, Zenon
    <2> QED
      BY <1>1, <2>2, Zenon
  <1> QED
    BY <1>1, <1>6, <1>7, <1>8, Zenon

LEMMA CodepointOfOne ==
    ASSUME NEW i, Byte(i) \in 0 .. 127
    PROVE  Codepoint(i, 1) = Byte(i)
  <1>1. \A b \in 0 .. 127 : b % 128 = b
    OBVIOUS
  <1>2. 1 \in 1 .. 2
    OBVIOUS
  <1> QED
    BY <1>1, <1>2, CodepointFacts, Zenon

LEMMA CodepointOfTwo ==
    ASSUME NEW i, Byte(i) \in 192 .. 223, Byte(i + 1) \in 0 .. 255
    PROVE  Codepoint(i, 2) \in Nat /\ Codepoint(i, 2) >= 4096
  <1>1. ASSUME NEW u \in Nat, NEW v \in Nat, u >= 64
        PROVE  (u * 64) + v \in Nat /\ (u * 64) + v >= 4096
    BY <1>1
  <1>2. 2 \in 1 .. 2 /\ 1 # 2
    OBVIOUS
  <1>3. \A b \in 192 .. 223 : b % 128 \in Nat /\ b % 128 >= 64
    OBVIOUS
  <1>4. \A c \in 0 .. 255 : c % 64 \in Nat
    OBVIOUS
  <1>5. PICK u \in Nat : u = Byte(i) % 128 /\ u >= 64
    BY <1>3, Zenon
  <1>6. PICK v \in Nat : v = Byte(i + 1) % 64
    BY <1>4, Zenon
  <1>7. Codepoint(i, 2) = (u * 64) + v
    BY <1>2, <1>5, <1>6, CodepointFacts, Zenon
  <1> QED
    BY <1>1, <1>5, <1>7

\* A character is the byte it is written as, or it has two bytes.
LEMMA CharBytes ==
    ASSUME IInv, IsChar, NEW j, j = index + Peek.width
    PROVE  /\ j \in Nat /\ index < j /\ j <= Len(input)
           /\ Peek.c \in Nat
           /\ \/ j = index + 1 /\ Byte(index) = Peek.c /\ Peek.c < 128
              \/ /\ j = index + 2 /\ Peek.c >= 128
                 /\ Lead(Byte(index)) /\ Trail(Byte(index + 1))
  <1>1. /\ index < Len(input) /\ Peek # EndOfInput /\ Peek # BadUtf8
        /\ Peek.width \in Nat \ {0} /\ index + Peek.width <= Len(input)
        /\ index \in Nat /\ Len(input) \in Nat /\ ~(index >= Len(input))
    BY PositionFacts
  <1>2. PICK b \in 0 .. 255 : b = Byte(index)
    BY <1>1, ByteFacts, Zenon
  <1>3. PICK w \in 0 .. 2 : /\ w = CodepointWidth(b)
                            /\ w = 1 => b < 128
                            /\ w = 2 => b \in 192 .. 223
    BY WidthFacts
  <1>4. Peek = Char(Codepoint(index, w), w) /\ w # 0 /\ Continues(index, w - 1)
    BY <1>1, <1>2, <1>3, SMT DEF Peek, CodepointAt
  <1>5. Peek.c = Codepoint(index, w) /\ Peek.width = w
    BY <1>4 DEF Char
  <1>6. CASE w = 1
    <2>1. b \in 0 .. 127
      BY <1>3, <1>6
    <2>2. Codepoint(index, 1) = Byte(index)
      BY <1>2, <2>1, CodepointOfOne
    <2>3. Peek.c = b /\ j = index + 1
      BY <1>2, <1>5, <1>6, <2>2
    <2>4. Peek.c \in Nat /\ Peek.c < 128 /\ Byte(index) = Peek.c
      BY <1>2, <2>1, <2>3
    <2>5. index < j /\ j <= Len(input) /\ j \in Nat
      BY <1>1, <2>3
    <2> QED
      BY <2>3, <2>4, <2>5, Zenon
  <1>7. CASE w = 2
    <2>1. Byte(index) \in 192 .. 223
      BY <1>2, <1>3, <1>7
    <2>2. index + 1 < Len(input) /\ Byte(index + 1) \div 64 = 2
      <3>1. 1 \in 1 .. w - 1
        BY <1>7
      <3> QED
        BY <1>4, <3>1 DEF Continues
    <2>3. Byte(index + 1) \in 0 .. 255
      <3>1. index + 1 \in Nat
        BY <1>1
      <3> QED
        BY <2>2, <3>1, ByteFacts, Zenon
    <2>4. Codepoint(index, 2) \in Nat /\ Codepoint(index, 2) >= 4096
      BY <2>1, <2>3, CodepointOfTwo
    <2>5. Trail(Byte(index + 1))
      <3>1. \A c \in 0 .. 255 : c \div 64 = 2 => Trail(c)
        BY DEF Trail
      <3> QED
        BY <2>2, <2>3, <3>1
    <2>6. j = index + 2 /\ Peek.c = Codepoint(index, 2)
      BY <1>5, <1>7
    <2>7. Peek.c \in Nat /\ Peek.c >= 128
      BY <2>4, <2>6
    <2>8. index < j /\ j <= Len(input) /\ j \in Nat
      BY <1>1, <2>2, <2>6
    <2>9. Lead(Byte(index))
      BY <2>1 DEF Lead
    <2> QED
      BY <2>5, <2>6, <2>7, <2>8, <2>9
  <1> QED
    BY <1>3, <1>4, <1>6, <1>7

\* None of the bytes of a longer one is one that the lexer looks for, and neither is
\* the character.
LEMMA CharFacts ==
    ASSUME IInv, IsChar, NEW j, j = index + Peek.width
    PROVE  /\ j \in Nat /\ index < j /\ j <= Len(input)
           /\ Peek.c \in Nat
           /\ \/ j = index + 1 /\ Byte(index) = Peek.c /\ Peek.c < 128
              \/ Peek.c >= 128 /\ \A p \in index .. j - 1 : Byte(p) >= 128
  <1>1. index \in Nat
    BY PositionFacts
  <1>2. ASSUME NEW b, Lead(b) \/ Trail(b)
        PROVE  b >= 128
    BY <1>2 DEF Lead, Trail
  <1>3. ASSUME j = index + 2, Lead(Byte(index)), Trail(Byte(index + 1))
        PROVE  \A p \in index .. j - 1 : Byte(p) >= 128
    <2>1. \A p \in index .. j - 1 : p = index \/ p = index + 1
      BY <1>1, <1>3
    <2> QED
      BY <1>2, <1>3, <2>1, Zenon
  <1>4. /\ j \in Nat /\ index < j /\ j <= Len(input)
        /\ Peek.c \in Nat
        /\ \/ j = index + 1 /\ Byte(index) = Peek.c /\ Peek.c < 128
           \/ /\ j = index + 2 /\ Peek.c >= 128
              /\ Lead(Byte(index)) /\ Trail(Byte(index + 1))
    BY CharBytes
  <1> QED
    BY <1>3, <1>4

LEMMA BadFacts ==
    ASSUME IInv, Peek = BadUtf8
    PROVE  index < Len(input) /\ Byte(index) \in 128 .. 255
  <1>1. /\ index < Len(input) /\ index \in Nat /\ Len(input) \in Nat
        /\ ~(index >= Len(input)) /\ ~IsChar
    BY PositionFacts
  <1>2. PICK b \in 0 .. 255 : b = Byte(index)
    BY <1>1, ByteFacts, Zenon
  <1>3. ASSUME b < 128
        PROVE  FALSE
    <2>1. CodepointWidth(b) = 1 /\ b \in 0 .. 127
      <3>1. b \in 0 .. 127
        BY <1>3
      <3> QED
        BY <1>3, <3>1, WidthFacts, Zenon
    <2>2. Codepoint(index, 1) = b
      BY <1>2, <2>1, CodepointOfOne
    <2>3. Continues(index, 1 - 1) /\ 1 # 0
      BY DEF Continues
    <2>4. ~(b > 1114111 \/ IsSurrogate(b))
      BY <2>1 DEF IsSurrogate
    <2>5. Peek = Char(b, 1)
      BY <1>1, <1>2, <2>1, <2>2, <2>3, <2>4, SMT DEF Peek, CodepointAt
    <2> QED
      BY <1>1, <2>5 DEF IsChar, Char
  <1>4. b \in 128 .. 255
    BY <1>3
  <1> QED
    BY <1>1, <1>2, <1>4

\* What a byte beyond 127 is not.
LEMMA HighFacts ==
    ASSUME NEW c \in Nat, c >= 128
    PROVE  /\ ~IsWhitespace(c) /\ ~IsDelimiter(c) /\ ~IsDigit(c) /\ ~IsNumericContinue(c)
           /\ ~IsNumericStart(c)
           /\ c # NewLine /\ c # Semicolon /\ c # Period /\ c \notin {43, 45}
           /\ c \notin {SingleQuote, LeftParen, RightParen}
  BY DEF IsWhitespace, IsDelimiter, IsDigit, IsNumericContinue, IsNumericStart, NewLine,
         Semicolon, Period, SingleQuote, LeftParen, RightParen

-----------------------------------------------------------------------------
(***************************************************************************)
(* Stretches of the text that grow.                                        *)
(***************************************************************************)
\* The bytes from j to k are those of the character c.
Spells(j, k, c) ==
    \/ k = j + 1 /\ Byte(j) = c
    \/ c >= 128 /\ \A p \in j .. k - 1 : Byte(p) \in Nat /\ Byte(p) >= 128

LEMMA SpellsFacts ==
    ASSUME IInv, IsChar, NEW k, k = index + Peek.width
    PROVE  /\ k \in Nat /\ index < k /\ k <= Len(input) /\ Peek.c \in Nat
           /\ Spells(index, k, Peek.c)
  <1>1. /\ k \in Nat /\ index < k /\ k <= Len(input)
        /\ Peek.c \in Nat
        /\ \/ k = index + 1 /\ Byte(index) = Peek.c /\ Peek.c < 128
           \/ Peek.c >= 128 /\ \A p \in index .. k - 1 : Byte(p) >= 128
    BY CharFacts
  <1>2. index \in Nat /\ Len(input) \in Nat
    BY PositionFacts
  <1>3. \A p \in index .. k - 1 : Byte(p) \in Nat
    <2> TAKE p \in index .. k - 1
    <2>1. p \in Nat /\ p < Len(input)
      BY <1>1, <1>2
    <2>2. \A b \in 0 .. 255 : b \in Nat
      OBVIOUS
    <2> QED
      BY <2>1, <2>2, ByteFacts, Zenon
  <1> QED
    BY <1>1, <1>3, Zenon DEF Spells

\* The classes of characters that matter in a symbol or number.
LEMMA NoneGrows ==
    ASSUME NEW i \in Nat, NEW j \in Nat, NEW k \in Nat, i <= j, j < k,
           NEW c \in Nat, Spells(j, k, c)
    PROVE  /\ NoDelimiter(i, k) <=> NoDelimiter(i, j) /\ ~IsDelimiter(c)
           /\ NoPeriod(i, k) <=> NoPeriod(i, j) /\ c # Period
           /\ SomeDigit(i, k) <=> SomeDigit(i, j) \/ IsDigit(c)
           /\ OnePeriod(i, k) <=> OnePeriod(i, j) /\ (c = Period => NoPeriod(i, j))
           /\ i < j => (OnlyNumeric(i, k) <=> OnlyNumeric(i, j) /\ IsNumericContinue(c))
  <1>1. CASE k = j + 1 /\ Byte(j) = c
    <2>1. \A p \in i .. k - 1 : p \in i .. j - 1 \/ p = j
      BY <1>1
    <2>2. \A p \in i .. j - 1 : p \in i .. k - 1 /\ p # j
      OBVIOUS
    <2>3. j \in i .. k - 1 /\ j \notin i .. j - 1
      BY <1>1
    <2>4. i < j => j # i
      OBVIOUS
    <2>5. NoDelimiter(i, k) <=> NoDelimiter(i, j) /\ ~IsDelimiter(c)
      BY <1>1, <2>1, <2>2, <2>3, Zenon DEF NoDelimiter
    <2>6. NoPeriod(i, k) <=> NoPeriod(i, j) /\ c # Period
      BY <1>1, <2>1, <2>2, <2>3, Zenon DEF NoPeriod
    <2>7. SomeDigit(i, k) <=> SomeDigit(i, j) \/ IsDigit(c)
      BY <1>1, <2>1, <2>2, <2>3, Zenon DEF SomeDigit
    <2>8. OnePeriod(i, k) <=> OnePeriod(i, j) /\ (c = Period => NoPeriod(i, j))
      <3>1. OnePeriod(i, k) => OnePeriod(i, j)
        BY <2>2, Zenon DEF OnePeriod
      <3>2. OnePeriod(i, k) /\ c = Period => NoPeriod(i, j)
        BY <1>1, <2>2, <2>3, Zenon DEF OnePeriod, NoPeriod
      <3>3. OnePeriod(i, j) /\ c # Period => OnePeriod(i, k)
        BY <1>1, <2>1, Zenon DEF OnePeriod
      <3>4. NoPeriod(i, j) /\ c = Period => OnePeriod(i, k)
        BY <1>1, <2>1, Zenon DEF OnePeriod, NoPeriod
      <3> QED
        BY <3>1, <3>2, <3>3, <3>4, Zenon
    <2>9. i < j => (OnlyNumeric(i, k) <=> OnlyNumeric(i, j) /\ IsNumericContinue(c))
      BY <1>1, <2>1, <2>2, <2>3, <2>4, Zenon DEF OnlyNumeric
    <2> QED
      BY <2>5, <2>6, <2>7, <2>8, <2>9, Zenon
  <1>2. CASE c >= 128 /\ \A p \in j .. k - 1 : Byte(p) \in Nat /\ Byte(p) >= 128
    <2>1. \A p \in i .. k - 1 : p \in i .. j - 1 \/ p \in j .. k - 1
      OBVIOUS
    <2>2. \A p \in i .. j - 1 : p \in i .. k - 1
      OBVIOUS
    <2>3. /\ ~IsDelimiter(c) /\ ~IsDigit(c) /\ ~IsNumericContinue(c) /\ c # Period
      BY <1>2, HighFacts
    <2>4. \A p \in j .. k - 1 :
            /\ ~IsDelimiter(Byte(p)) /\ ~IsDigit(Byte(p)) /\ ~IsNumericContinue(Byte(p))
            /\ Byte(p) # Period /\ Byte(p) \notin {43, 45}
      BY <1>2, HighFacts, Zenon
    <2>5. j \in j .. k - 1 /\ j \in i .. k - 1
      OBVIOUS
    <2>6. NoDelimiter(i, k) <=> NoDelimiter(i, j)
      BY <2>1, <2>2, <2>4, Zenon DEF NoDelimiter
    <2>7. NoPeriod(i, k) <=> NoPeriod(i, j)
      BY <2>1, <2>2, <2>4, Zenon DEF NoPeriod
    <2>8. SomeDigit(i, k) <=> SomeDigit(i, j)
      BY <2>1, <2>2, <2>4, Zenon DEF SomeDigit
    <2>9. OnePeriod(i, k) <=> OnePeriod(i, j)
      BY <2>1, <2>2, <2>4, Zenon DEF OnePeriod
    <2>10. ~OnlyNumeric(i, k)
      BY <2>4, <2>5, Zenon DEF OnlyNumeric
    <2> QED
      BY <2>3, <2>6, <2>7, <2>8, <2>9, <2>10, Zenon
  <1> QED
    BY <1>1, <1>2, Zenon DEF Spells

\* The first character.
LEMMA FirstGrows ==
    ASSUME NEW i \in Nat, NEW k \in Nat, i < k, NEW c \in Nat, Spells(i, k, c)
    PROVE  /\ NoDelimiter(i, k) <=> ~IsDelimiter(c)
           /\ NoPeriod(i, k) <=> c # Period
           /\ SomeDigit(i, k) <=> IsDigit(c)
           /\ OnePeriod(i, k)
           /\ OnlyNumeric(i, k) <=> IsNumericStart(c)
  <1>1. \A p : p \notin i .. i - 1
    OBVIOUS
  <1>2. i <= i
    OBVIOUS
  <1>3. NoDelimiter(i, i) /\ NoPeriod(i, i) /\ ~SomeDigit(i, i) /\ OnePeriod(i, i)
    BY <1>1, Zenon DEF NoDelimiter, NoPeriod, SomeDigit, OnePeriod
  <1>4. OnlyNumeric(i, k) <=> IsNumericStart(c)
    <2>1. CASE k = i + 1 /\ Byte(i) = c
      <3>1. i \in i .. k - 1 /\ \A p \in i .. k - 1 : p = i
        BY <2>1
      <3> QED
        BY <2>1, <3>1, Zenon DEF OnlyNumeric, IsNumericStart
    <2>2. CASE c >= 128 /\ \A p \in i .. k - 1 : Byte(p) \in Nat /\ Byte(p) >= 128
      <3>1. i \in i .. k - 1
        OBVIOUS
      <3> QED
        BY <2>2, <3>1, HighFacts, Zenon DEF OnlyNumeric
    <2> QED
      BY <2>1, <2>2, Zenon DEF Spells
  <1> QED
    BY <1>2, <1>3, <1>4, NoneGrows, Zenon

\* Whitespace goes on.
LEMMA BlankGrows ==
    ASSUME NEW e \in Nat, NEW j \in Nat, NEW k \in Nat, e <= j, j < k,
           NEW c \in Nat, Spells(j, k, c), IsWhitespace(c), Blank(e, j)
    PROVE  Blank(e, k)
  <1>1. ~(c >= 128)
    BY HighFacts
  <1>2. k = j + 1 /\ Byte(j) = c
    BY <1>1, Zenon DEF Spells
  <1>3. \A p \in e .. k - 1 : p \in e .. j - 1 \/ p = j
    BY <1>2
  <1> QED
    BY <1>2, <1>3, Zenon DEF Blank

\* A comment begins.
LEMMA RemarkBegins ==
    ASSUME NEW e \in Nat, NEW j \in Nat, NEW k \in Nat, e <= j, j < k,
           Spells(j, k, Semicolon), Blank(e, j)
    PROVE  Blank(e, k) /\ Remark(e, k)
  <1>1. ~(Semicolon >= 128)
    BY DEF Semicolon
  <1>2. k = j + 1 /\ Byte(j) = Semicolon
    BY <1>1, Zenon DEF Spells
  <1>3. Byte(j) # NewLine
    BY <1>2 DEF NewLine, Semicolon
  <1>4. /\ \A p \in e .. k - 1 : p \in e .. j - 1 \/ p = j
        /\ j \in e .. k - 1 /\ j \in e .. j
        /\ \A r \in j .. k - 1 : r = j
        /\ \A r \in j .. j : r = j
    BY <1>2
  <1> QED
    BY <1>2, <1>3, <1>4, Zenon DEF Blank, Remark

\* It goes on to the end of its line.
LEMMA RemarkGrows ==
    ASSUME NEW e \in Nat, NEW j \in Nat, NEW k \in Nat, e <= j, j < k,
           \A p \in j .. k - 1 : Byte(p) # NewLine,
           Blank(e, j), Remark(e, j)
    PROVE  Blank(e, k) /\ Remark(e, k)
  <1>1. PICK q \in e .. j - 1 : Byte(q) = Semicolon /\ \A r \in q .. j - 1 : Byte(r) # NewLine
    BY Zenon DEF Remark
  <1>2. q \in e .. k - 1 /\ q \in Nat
    BY <1>1
  <1>3. \A r \in q .. k - 1 : Byte(r) # NewLine
    <2>1. \A r \in q .. k - 1 : r \in q .. j - 1 \/ r \in j .. k - 1
      BY <1>2
    <2> QED
      BY <1>1, <2>1, Zenon
  <1>4. \A p \in e .. k - 1 : \/ p \in e .. j - 1
                              \/ q \in e .. p /\ \A r \in q .. p : r \in q .. k - 1
    BY <1>2
  <1> QED
    BY <1>1, <1>2, <1>3, <1>4, Zenon DEF Blank, Remark

\* No byte of a character is a newline unless it is one.
LEMMA SpellsNoNewLine ==
    ASSUME NEW j \in Nat, NEW k \in Nat, NEW c \in Nat, Spells(j, k, c), c # NewLine
    PROVE  \A p \in j .. k - 1 : Byte(p) # NewLine
  <1>1. CASE k = j + 1 /\ Byte(j) = c
    <2>1. \A p \in j .. k - 1 : p = j
      BY <1>1
    <2> QED
      BY <1>1, <2>1, Zenon
  <1>2. CASE \A p \in j .. k - 1 : Byte(p) \in Nat /\ Byte(p) >= 128
    BY <1>2, HighFacts, Zenon
  <1> QED
    BY <1>1, <1>2, Zenon DEF Spells

-----------------------------------------------------------------------------
(***************************************************************************)
(* A step of the lexer: what it has to show.                               *)
(***************************************************************************)
LEMMA LexerStays ==
    ASSUME IInv, TextInv, Reading, UNCHANGED parser
    PROVE  /\ HistoryInv'
           /\ LastEnd' = LastEnd /\ LastEnd \in Nat /\ LastEnd <= index
           /\ ~has_peeked /\ ~has_peeked' /\ at' = at
           /\ Trailing' => at = "next"
           /\ Trailing => at = "next"
           /\ at = "next" => Trailing
  <1>1. /\ has_peeked' = has_peeked /\ peeked' = peeked /\ at' = at /\ stack' = stack
        /\ ret' = ret /\ results' = results /\ taken' = taken
    BY DEF parser
  <1>2. ~has_peeked /\ at \in Peeks /\ lex.pc # "idle"
    BY DEF IInv, PeekedInv, Reading
  <1>3. HistoryInv'
    BY <1>1, Zenon DEF TextInv, HistoryInv
  <1>4. LastEnd' = LastEnd
    BY <1>1, Zenon DEF LastEnd
  <1>5. LastEnd \in Nat /\ LastEnd <= index
    BY DEF TextInv, GapInv
  <1>6. at \notin {"return", "end"}
    BY <1>2 DEF Peeks
  <1>7. ~(at = "sexpr" /\ stack = <<>>)
    BY <1>2 DEF IInv, AtInv
  <1>8. Trailing <=> at = "next"
    BY <1>6, <1>7, Zenon DEF Trailing
  <1>9. Trailing' <=> at = "next"
    BY <1>1, <1>6, <1>7, Zenon DEF Trailing
  <1> QED
    BY <1>1, <1>2, <1>3, <1>4, <1>5, <1>8, <1>9, Zenon

\* The bytes before n stay.
SameUpTo(n) == \A p \in Nat : p < n => input'[p + 1] = input[p + 1]

LEMMA SameInput ==
    ASSUME UNCHANGED buffer, NEW n
    PROVE  SameUpTo(n)
  BY DEF buffer, SameUpTo

LEMMA SameStretches ==
    ASSUME NEW i \in Nat, NEW j \in Nat, SameUpTo(j)
    PROVE  /\ Blank(i, j)' <=> Blank(i, j)
           /\ Remark(i, j)' <=> Remark(i, j)
           /\ NoDelimiter(i, j)' <=> NoDelimiter(i, j)
           /\ NoPeriod(i, j)' <=> NoPeriod(i, j)
           /\ SomeDigit(i, j)' <=> SomeDigit(i, j)
           /\ OnePeriod(i, j)' <=> OnePeriod(i, j)
           /\ OnlyNumeric(i, j)' <=> OnlyNumeric(i, j)
  <1>1. \A p \in i .. j - 1 : input'[p + 1] = input[p + 1]
    BY DEF SameUpTo
  <1>2. \A q \in i .. j - 1 : \A r \in q .. j - 1 : input'[r + 1] = input[r + 1]
    BY DEF SameUpTo
  <1>3. \A p \in i .. j - 1 : \A q \in i .. p : input'[q + 1] = input[q + 1]
    BY DEF SameUpTo
  <1>4. \A p \in i .. j - 1 : \A q \in i .. p : \A r \in q .. p : input'[r + 1] = input[r + 1]
    BY DEF SameUpTo
  <1>5. Blank(i, j)' <=> Blank(i, j)
    BY <1>1, <1>3, <1>4, Zenon DEF Blank, Byte
  <1>6. Remark(i, j)' <=> Remark(i, j)
    BY <1>1, <1>2, Zenon DEF Remark, Byte
  <1>7. NoDelimiter(i, j)' <=> NoDelimiter(i, j)
    BY <1>1, Zenon DEF NoDelimiter, Byte
  <1>8. NoPeriod(i, j)' <=> NoPeriod(i, j)
    BY <1>1, Zenon DEF NoPeriod, Byte
  <1>9. SomeDigit(i, j)' <=> SomeDigit(i, j)
    BY <1>1, Zenon DEF SomeDigit, Byte
  <1>10. OnePeriod(i, j)' <=> OnePeriod(i, j)
    BY <1>1, Zenon DEF OnePeriod, Byte
  <1>11. OnlyNumeric(i, j)' <=> OnlyNumeric(i, j)
    BY <1>1, Zenon DEF OnlyNumeric, Byte
  <1> QED
    BY <1>5, <1>6, <1>7, <1>8, <1>9, <1>10, <1>11, Zenon

\* The gap, wherever the lexer goes on.
LEMMA GapGoesOn ==
    ASSUME IInv, TextInv, Reading, UNCHANGED parser,
           index' \in Nat, index <= index',
           NEW l, lex' = l, l.pc \notin {"idle", "done"},
           NEW e, e = LastEnd, NEW j, j = index', NEW s, s = l.start,
           SameUpTo(j), s \in Nat,
           l.pc \in Consumed => s <= j,
           l.pc = "skip" => l.resume = "comment" \/ s <= j,
           l.pc \in {"start", "blank", "comment"} => Blank(e, j),
           l.pc = "skip" => Blank(e, j) \/ l.resume # "comment",
           l.pc = "comment" => Remark(e, j),
           l.pc = "skip" => Remark(e, j) \/ l.resume # "comment",
           l.pc = "skip" => e <= l.bad,
           l.pc \in Consumed => e <= s /\ Blank(e, s),
           l.pc = "skip" => l.resume = "comment" \/ (e <= s /\ Blank(e, s)),
           l.pc \in Inside => e <= l.escape,
           l.pc = "skip" => l.resume # "escape" \/ e <= l.escape
    PROVE  GapInv'
  <1>1. LastEnd' = e /\ e \in Nat /\ e <= index /\ ~has_peeked'
    BY LexerStays
  <1>2. (s <= j => SameUpTo(s)) /\ e <= j
    <2>1. index \in Nat
      BY PositionFacts
    <2> QED
      BY <1>1, <2>1 DEF SameUpTo
  <1>3. Blank(e, j)' <=> Blank(e, j)
    BY <1>1, SameStretches, Zenon
  <1>4. Remark(e, j)' <=> Remark(e, j)
    BY <1>1, SameStretches, Zenon
  <1>5. s <= j => (Blank(e, s)' <=> Blank(e, s))
    BY <1>1, <1>2, SameStretches, Zenon
  <1>6. Blank(LastEnd, index)' <=> Blank(e, j)'
    BY <1>1 DEF Blank, Byte
  <1>7. Remark(LastEnd, index)' <=> Remark(e, j)'
    BY <1>1 DEF Remark, Byte
  <1>8. Blank(LastEnd, lex.start)' <=> Blank(e, s)'
    BY <1>1 DEF Blank, Byte
  <1>9. /\ Between' => Blank(LastEnd, index)'
        /\ In("comment")' => Remark(LastEnd, index)'
    BY <1>3, <1>4, <1>6, <1>7, Zenon DEF Between, In
  <1>10. Begun' => LastEnd' <= lex'.start /\ Blank(LastEnd, lex.start)'
    BY <1>1, <1>5, <1>8, Zenon DEF Begun
  <1>11. /\ lex'.pc = "skip" => LastEnd' <= lex'.bad
         /\ lex'.pc \in Inside \/ In("escape")' => LastEnd' <= lex'.escape
    <2>1. "escape" \in Inside
      BY DEF Inside
    <2> QED
      BY <1>1, <2>1, Zenon DEF In
  <1> QED
    BY <1>1, <1>2, <1>9, <1>10, <1>11, Zenon DEF GapInv

\* Where the lexer is inside a token, or the bytes skipped are.
LEMMA GapInside ==
    ASSUME IInv, TextInv, Reading, UNCHANGED parser, UNCHANGED buffer,
           index' \in Nat, index <= index',
           NEW l, lex' = l,
           l.pc \in Consumed \/ (l.pc = "skip" /\ l.resume # "comment"),
           NEW e, e = LastEnd, NEW s, s = l.start, s \in Nat, s <= index',
           e <= s, Blank(e, s),
           l.pc = "skip" => e <= l.bad,
           l.pc \in Inside => e <= l.escape,
           l.pc = "skip" => l.resume # "escape" \/ e <= l.escape
    PROVE  GapInv'
  <1>1. l.pc \notin {"idle", "done", "start", "blank", "comment"}
    BY DEF Consumed, Inside
  <1>2. PICK j : j = index'
    OBVIOUS
  <1>3. SameUpTo(j)
    BY SameInput
  <1>4. /\ l.pc \in {"start", "blank", "comment"} => FALSE
        /\ l.pc = "comment" => FALSE
        /\ l.pc = "skip" => l.resume # "comment"
        /\ l.pc \notin {"idle", "done"}
    BY <1>1, Zenon DEF Consumed, Inside
  <1>5. s <= j
    BY <1>2
  <1> QED
    BY <1>2, <1>3, <1>4, <1>5, GapGoesOn, Zenon

\* Where it is between tokens.
LEMMA GapBetween ==
    ASSUME IInv, TextInv, Reading, UNCHANGED parser, UNCHANGED buffer,
           NEW l, lex' = l, l.start \in Nat,
           \/ l.pc \in {"start", "blank", "comment"}
           \/ l.pc = "skip" /\ l.resume = "comment" /\ LastEnd <= l.bad,
           NEW e, e = LastEnd, NEW j, j = index', j \in Nat, index <= j,
           Blank(e, j),
           l.pc \in {"start", "blank"} \/ Remark(e, j)
    PROVE  GapInv'
  <1>1. l.pc \notin {"idle", "done"} \cup Consumed
    BY DEF Consumed, Inside
  <1>2. SameUpTo(j)
    BY SameInput
  <1>3. l.pc \notin Inside
    BY <1>1 DEF Consumed
  <1>4. PICK s : s = l.start
    OBVIOUS
  <1> QED
    BY <1>1, <1>2, <1>3, <1>4, GapGoesOn, Zenon

LEMMA GapExit ==
    ASSUME IInv, TextInv, Reading, UNCHANGED parser, index' = index, lex'.pc = "exit"
    PROVE  GapInv'
  <1>1. LastEnd' = LastEnd /\ LastEnd \in Nat /\ LastEnd <= index /\ ~has_peeked'
    BY LexerStays
  <1>2. "exit" \notin Consumed /\ "exit" \notin Inside
    BY DEF Consumed, Inside
  <1> QED
    BY <1>1, <1>2, Zenon DEF GapInv, Between, In, Begun

LEMMA GapDone ==
    ASSUME IInv, TextInv, Reading, UNCHANGED parser, UNCHANGED buffer,
           NEW type, NEW from \in Nat, NEW errors, ReturnToken(type, from, errors),
           index' \in Nat, index <= index', from <= index',
           NEW e, e = LastEnd, e <= from, Blank(e, from)
    PROVE  GapInv'
  <1>1. LastEnd' = e /\ e \in Nat /\ e <= index /\ ~has_peeked'
    BY LexerStays
  <1>2. lex'.pc = "done" /\ token'.index = from /\ token'.length = index' - from
    BY DEF ReturnToken, Idle
  <1>3. from + (index' - from) = index'
    BY Difference
  <1>4. Blank(e, from)'
    <2>1. SameUpTo(from)
      BY SameInput
    <2> QED
      BY <1>1, <2>1, SameStretches, Zenon
  <1>5. Blank(LastEnd, token.index)'
    BY <1>1, <1>2, <1>4 DEF Blank, Byte
  <1>6. e <= index'
    <2>1. index \in Nat
      BY PositionFacts
    <2> QED
      BY <1>1, <2>1
  <1>7. "done" \notin Consumed /\ "done" \notin Inside
    BY DEF Consumed, Inside
  <1> QED
    BY <1>1, <1>2, <1>3, <1>5, <1>6, <1>7, Zenon DEF GapInv, Between, In, Begun

\* The errors, if they are those of a token or of a comment that is open.
LEMMA TrailKept ==
    ASSUME IInv, TextInv, Reading, UNCHANGED parser, context' = context,
           at = "next" => RemarkInv'
    PROVE  TrailInv'
  <1>1. LastEnd' = LastEnd /\ at' = at /\ (Trailing' => Trailing)
    BY LexerStays
  <1> QED
    BY <1>1, Zenon DEF TextInv, TrailInv

LEMMA AddedFacts ==
    ASSUME NEW S, NEW old \in Seq(S), NEW errors \in Seq(S), NEW e,
           \A i \in DOMAIN old : e <= old[i].index,
           \A i \in DOMAIN errors : e <= errors[i].index,
           NEW i \in DOMAIN (old \o errors)
    PROVE  e <= (old \o errors)[i].index
  <1> DEFINE new == old \o errors
  <1>1. new \in Seq(S) /\ Len(new) = Len(old) + Len(errors)
    BY ConcatProperties
  <1>2. \A k \in 1 .. Len(old) + Len(errors) :
          new[k] = IF k <= Len(old) THEN old[k] ELSE errors[k - Len(old)]
    BY ConcatProperties
  <1>3. Len(old) \in Nat /\ Len(errors) \in Nat
    OBVIOUS
  <1>4. i \in DOMAIN new
    OBVIOUS
  <1> HIDE DEF new
  <1>5. i \in 1 .. Len(old) + Len(errors)
    BY <1>1, <1>4
  <1>6. new[i] = IF i <= Len(old) THEN old[i] ELSE errors[i - Len(old)]
    BY <1>2, <1>5, Zenon
  <1>7. CASE i <= Len(old)
    <2>1. i \in DOMAIN old
      BY <1>3, <1>5, <1>7
    <2>2. e <= new[i].index
      BY <1>6, <1>7, <2>1, Zenon
    <2> QED
      BY <2>2 DEF new
  <1>8. CASE ~(i <= Len(old))
    <2>1. i - Len(old) \in DOMAIN errors
      BY <1>3, <1>5, <1>8
    <2>2. e <= new[i].index
      BY <1>6, <1>8, <2>1, Zenon
    <2> QED
      BY <2>2 DEF new
  <1> QED
    BY <1>7, <1>8

LEMMA TrailExtended ==
    ASSUME IInv, TextInv, Reading, UNCHANGED parser,
           NEW errors \in Seq(Errors), AddErrors(errors),
           NEW e, e = LastEnd, \A i \in DOMAIN errors : e <= errors[i].index,
           at = "next" => RemarkInv'
    PROVE  TrailInv'
  <1>1. LastEnd' = e /\ at' = at /\ (Trailing' => Trailing)
    BY LexerStays
  <1>2. PICK old \in Seq(Errors) : old = context
    BY DEF IInv, ContextInv
  <1>3. PICK new : new = old \o errors /\ new = context'
    BY <1>2 DEF AddErrors
  <1>4. (\A k \in DOMAIN old : e <= old[k].index) => \A i \in DOMAIN new : e <= new[i].index
    BY <1>3, AddedFacts
  <1>5. Trailing' => \A k \in DOMAIN old : e <= old[k].index
    BY <1>1, <1>2 DEF TextInv, TrailInv
  <1> QED
    BY <1>1, <1>3, <1>4, <1>5, Zenon DEF TrailInv

\* A token of a kind that may have errors is being read.
LEMMA RemarkOver ==
    ASSUME \/ lex'.pc \in Consumed \cup {"exit"}
           \/ lex'.pc = "skip" /\ lex'.resume # "comment"
           \/ lex'.pc = "done" /\ token'.type # "RIGHT_PAREN"
    PROVE  RemarkInv'
  <1>1. /\ \A pc \in Consumed \cup {"exit"} :
             pc \notin {"start", "blank", "comment", "skip", "done", "idle"}
    BY DEF Consumed, Inside
  <1> QED
    BY <1>1, Zenon DEF RemarkInv

\* No symbol or number is being read.
LEMMA NoAtom ==
    ASSUME lex'.pc \notin {"atom", "symbol"},
           lex'.pc = "skip" => lex'.resume \notin {"atom", "symbol"},
           lex'.pc = "done" => token'.type \notin {"SYMBOL", "NUMBER"}
    PROVE  AtomInv'
  BY Zenon DEF AtomInv, In

-----------------------------------------------------------------------------
(***************************************************************************)
(* The steps of the lexer in a string, and those that end the program.     *)
(***************************************************************************)
LEMMA TextExits ==
    ASSUME IInv, TextInv, Reading, UNCHANGED parser, UNCHANGED <<buffer, index, context>>,
           lex' = [lex EXCEPT !.pc = "exit"]
    PROVE  TextInv'
  <1>1. lex'.pc = "exit" /\ index' = index /\ context' = context
    BY DEF IInv, LexInv, LexShape, IsLex
  <1>2. GapInv'
    BY <1>1, GapExit
  <1>3. TrailInv'
    BY <1>1, TrailKept, RemarkOver
  <1>4. AtomInv'
    BY <1>1, NoAtom
  <1> QED
    BY <1>2, <1>3, <1>4, LexerStays DEF TextInv

\* What a step in a string starts from.
LEMMA StringFacts ==
    ASSUME IInv, TextInv, NEW pc \in InString, At(pc)
    PROVE  /\ Reading /\ lex.pc = pc /\ IsLex(lex) /\ lex.start \in Nat /\ lex.start < index
           /\ lex.escape \in Nat
           /\ index \in Nat /\ Len(input) \in Nat /\ index <= Len(input)
           /\ LastEnd \in Nat /\ LastEnd <= lex.start /\ Blank(LastEnd, lex.start)
           /\ pc \in Inside => LastEnd <= lex.escape /\ lex.escape < index
  <1>1. pc \in Consumed /\ (pc \in Inside => lex.pc \in Inside)
    BY DEF InString, Consumed, At
  <1>2. /\ Reading /\ lex.pc = pc /\ IsLex(lex) /\ lex.start \in Nat /\ lex.start < index
        /\ lex.escape \in Nat /\ (pc \in Inside => lex.escape < index)
    BY <1>1, ReadingFacts
  <1>3. index \in Nat /\ Len(input) \in Nat /\ index <= Len(input)
    BY PositionFacts
  <1>4. LastEnd \in Nat /\ LastEnd <= lex.start /\ Blank(LastEnd, lex.start)
        /\ (pc \in Inside => LastEnd <= lex.escape)
    BY <1>1, <1>2, Zenon DEF TextInv, GapInv, Begun
  <1> QED
    BY <1>2, <1>3, <1>4

LEMMA StringContinues ==
    ASSUME IInv, TextInv, NEW pc \in InString, At(pc),
           UNCHANGED parser, UNCHANGED buffer, UNCHANGED token,
           index' \in Nat, index <= index',
           NEW l, lex' = l, l.pc \in InString, l.start = lex.start,
           l.pc \in Inside => LastEnd <= l.escape,
           NEW errors \in Seq(Errors), AddErrors(errors),
           \A i \in DOMAIN errors : LastEnd <= errors[i].index
    PROVE  TextInv'
  <1>1. /\ Reading /\ lex.start \in Nat /\ lex.start < index /\ index \in Nat
        /\ LastEnd <= lex.start /\ Blank(LastEnd, lex.start)
    BY StringFacts
  <1>2. l.pc \in Consumed /\ l.pc \notin {"atom", "symbol", "done", "skip"}
    BY DEF InString, Consumed, Inside
  <1>3. PICK e : e = LastEnd
    OBVIOUS
  <1>4. PICK s : s = l.start /\ s = lex.start
    OBVIOUS
  <1>5. s \in Nat /\ s <= index' /\ e <= s /\ Blank(e, s)
    BY <1>1, <1>3, <1>4
  <1>6. GapInv'
    BY <1>1, <1>2, <1>3, <1>4, <1>5, GapInside, Zenon
  <1>7. TrailInv'
    BY <1>1, <1>2, <1>3, TrailExtended, RemarkOver, Zenon
  <1>8. AtomInv'
    BY <1>2, NoAtom, Zenon
  <1> QED
    BY <1>1, <1>6, <1>7, <1>8, LexerStays, Zenon DEF TextInv

LEMMA StringSkips ==
    ASSUME IInv, TextInv, NEW pc \in InString, At(pc),
           UNCHANGED parser, UNCHANGED buffer,
           NEW resume \in {"string", "suffix", "escape"},
           resume = "escape" => pc \in Inside,
           SkipThen(resume, lex)
    PROVE  TextInv'
  <1>1. /\ Reading /\ IsLex(lex) /\ lex.start \in Nat /\ lex.start < index /\ index \in Nat
        /\ LastEnd \in Nat /\ LastEnd <= lex.start /\ Blank(LastEnd, lex.start)
        /\ pc \in Inside => LastEnd <= lex.escape
    BY StringFacts
  <1>2. /\ index' = index /\ context' = context
        /\ lex' = [lex EXCEPT !.pc = "skip", !.bad = index, !.resume = resume]
    BY DEF SkipThen, Stay, NoError
  <1>3. PICK l : l = lex'
    OBVIOUS
  <1>4. /\ l.pc = "skip" /\ l.bad = index /\ l.resume = resume
        /\ l.start = lex.start /\ l.escape = lex.escape
    BY <1>1, <1>2, <1>3 DEF IsLex
  <1>5. PICK e : e = LastEnd
    OBVIOUS
  <1>6. PICK s : s = lex.start
    OBVIOUS
  <1>7. /\ index' \in Nat /\ index <= index' /\ s \in Nat /\ s <= index'
        /\ e <= s /\ Blank(e, s) /\ e <= l.bad /\ s = l.start
        /\ l.resume # "comment" /\ (l.resume # "escape" \/ e <= l.escape)
    BY <1>1, <1>2, <1>4, <1>5, <1>6
  <1>8. l.pc \notin Inside
    BY <1>4 DEF Inside
  <1>9. GapInv'
    BY <1>1, <1>3, <1>4, <1>5, <1>7, <1>8, GapInside, Zenon
  <1>10. TrailInv'
    BY <1>1, <1>2, <1>3, <1>4, <1>7, TrailKept, RemarkOver, Zenon
  <1>11. AtomInv'
    BY <1>3, <1>4, NoAtom
  <1> QED
    BY <1>1, <1>9, <1>10, <1>11, LexerStays, Zenon DEF TextInv

LEMMA StringReturns ==
    ASSUME IInv, TextInv, NEW pc \in InString, At(pc),
           UNCHANGED parser, UNCHANGED buffer, index' = index,
           NEW errors \in Seq(Errors), AddErrors(errors),
           \A i \in DOMAIN errors : LastEnd <= errors[i].index,
           ReturnToken("STRING", lex.start, lex.errors)
    PROVE  TextInv'
  <1>1. /\ Reading /\ lex.start \in Nat /\ lex.start < index /\ index \in Nat
        /\ LastEnd <= lex.start /\ Blank(LastEnd, lex.start)
    BY StringFacts
  <1>2. lex'.pc = "done" /\ token'.type = "STRING"
    BY DEF ReturnToken, Idle
  <1>3. PICK e : e = LastEnd
    OBVIOUS
  <1>4. PICK s : s = lex.start
    OBVIOUS
  <1>5. PICK n : n = lex.errors
    OBVIOUS
  <1>6. /\ index' \in Nat /\ index <= index' /\ s \in Nat /\ s <= index'
        /\ e <= s /\ Blank(e, s) /\ ReturnToken("STRING", s, n)
    BY <1>1, <1>3, <1>4, <1>5
  <1>7. GapInv'
    BY <1>1, <1>3, <1>6, GapDone, Zenon
  <1>8. TrailInv'
    BY <1>1, <1>2, <1>3, TrailExtended, RemarkOver, Zenon
  <1>9. AtomInv'
    BY <1>2, NoAtom
  <1> QED
    BY <1>1, <1>7, <1>8, <1>9, LexerStays, Zenon DEF TextInv

\* No error, one or two, none before the last token's end.
LEMMA NoneBefore ==
    ASSUME IInv, NoError, NEW e
    PROVE  /\ <<>> \in Seq(Errors) /\ AddErrors(<<>>)
           /\ \A i \in DOMAIN <<>> : e <= <<>>[i].index
  <1>1. PICK c \in Seq(Errors) : c = context
    BY DEF IInv, ContextInv
  <1>2. c \o <<>> = c
    BY ConcatEmptySeq
  <1>3. <<>> \in Seq(Errors) /\ DOMAIN <<>> = {}
    OBVIOUS
  <1> QED
    BY <1>1, <1>2, <1>3, Zenon DEF NoError, AddErrors

LEMMA OneBefore ==
    ASSUME NEW type \in ErrorTypes, NEW from \in Nat, NEW to \in Nat, from < to,
           NEW e, e <= from
    PROVE  /\ <<Error(type, from, to)>> \in Seq(Errors)
           /\ \A i \in DOMAIN <<Error(type, from, to)>> :
                e <= <<Error(type, from, to)>>[i].index
  <1> DEFINE d == Error(type, from, to)
  <1>1. d \in Errors /\ d.index = from
    <2>1. d \in Errors
      BY ErrorFacts
    <2>2. d.index = from
      BY DEF Error
    <2> QED
      BY <2>1, <2>2
  <1> HIDE DEF d
  <1>2. <<d>> \in Seq(Errors) /\ \A i \in DOMAIN <<d>> : <<d>>[i] = d
    BY <1>1
  <1>3. \A i \in DOMAIN <<d>> : e <= <<d>>[i].index
    BY <1>1, <1>2, Zenon
  <1> QED
    BY <1>2, <1>3 DEF d

\* A character in a string is taken.
LEMMA StringTaken ==
    ASSUME IInv, TextInv, NEW pc \in InString, At(pc),
           UNCHANGED parser, UNCHANGED buffer, UNCHANGED token, NoError, IsChar,
           NEW l, l.pc \in InString, l.start = lex.start,
           l.pc \in Inside => LastEnd <= l.escape,
           Take(l)
    PROVE  TextInv'
  <1>1. lex' = l /\ index' = index + Peek.width
    BY DEF Take
  <1>2. index' \in Nat /\ index <= index'
    BY <1>1, PositionFacts
  <1>3. PICK e : e = LastEnd
    OBVIOUS
  <1>4. <<>> \in Seq(Errors) /\ AddErrors(<<>>) /\ \A i \in DOMAIN <<>> : e <= <<>>[i].index
    BY NoneBefore
  <1> QED
    BY <1>1, <1>2, <1>3, <1>4, StringContinues, Zenon

LEMMA LexStringText ==
    ASSUME IInv, TextInv, LexString, UNCHANGED parser
    PROVE  TextInv'
  <1>1. At("string") /\ UNCHANGED buffer /\ "string" \in InString
    BY DEF LexString, InString
  <1>2. /\ IsLex(lex) /\ lex.pc = "string" /\ lex.start \in Nat /\ lex.start < index
        /\ index \in Nat /\ LastEnd \in Nat /\ LastEnd <= lex.start
    BY <1>1, StringFacts
  <1>3. CASE /\ IsChar
             /\ Take(CASE Peek.c = Backslash ->
                            [lex EXCEPT !.pc = "escape", !.c = Peek.c, !.escape = index]
                       [] Peek.c = DoubleQuote ->
                            [lex EXCEPT !.pc = "suffix", !.c = Peek.c]
                       [] OTHER -> [lex EXCEPT !.c = Peek.c])
             /\ NoError /\ UNCHANGED token
    <2>1. PICK l : /\ l \in {[lex EXCEPT !.pc = "escape", !.c = Peek.c, !.escape = index],
                             [lex EXCEPT !.pc = "suffix", !.c = Peek.c],
                             [lex EXCEPT !.c = Peek.c]}
                   /\ Take(l)
      BY <1>3, Zenon
    <2>2. /\ l.pc \in {"escape", "suffix", "string"} /\ l.start = lex.start
          /\ l.pc = "escape" => l.escape = index
      BY <1>2, <2>1 DEF IsLex
    <2>3. l.pc \in InString /\ (l.pc \in Inside => l.pc = "escape")
      BY <2>2 DEF InString, Inside
    <2>4. l.pc \in Inside => LastEnd <= l.escape
      BY <1>2, <2>2, <2>3
    <2> QED
      BY <1>1, <1>3, <2>1, <2>2, <2>3, <2>4, StringTaken, Zenon
  <1>4. CASE SkipThen(IF lex.c = DoubleQuote THEN "suffix" ELSE "string", lex)
    <2>1. PICK resume \in {"suffix", "string"} : SkipThen(resume, lex)
      BY <1>4, Zenon
    <2> QED
      BY <1>1, <2>1, StringSkips, Zenon
  <1>5. CASE /\ Peek = EndOfInput
             /\ UNCHANGED index
             /\ AddErrors(<<Error("UNTERMINATED_STRING", lex.start, index)>>)
             /\ ReturnToken("STRING", lex.start, lex.errors)
    <2>1. "UNTERMINATED_STRING" \in ErrorTypes
      BY DEF ErrorTypes
    <2>2. /\ <<Error("UNTERMINATED_STRING", lex.start, index)>> \in Seq(Errors)
          /\ \A i \in DOMAIN <<Error("UNTERMINATED_STRING", lex.start, index)>> :
               LastEnd <= <<Error("UNTERMINATED_STRING", lex.start, index)>>[i].index
      BY <1>2, <2>1, OneBefore, Zenon
    <2>3. PICK errors \in Seq(Errors) :
            AddErrors(errors) /\ \A i \in DOMAIN errors : LastEnd <= errors[i].index
      BY <1>5, <2>2, Zenon
    <2> QED
      BY <1>1, <1>5, <2>3, StringReturns, Zenon
  <1> QED
    BY <1>1, <1>3, <1>4, <1>5, Zenon DEF LexString

LEMMA LexSuffixText ==
    ASSUME IInv, TextInv, LexSuffix, UNCHANGED parser
    PROVE  TextInv'
  <1>1. At("suffix") /\ UNCHANGED buffer /\ index' = index /\ "suffix" \in InString
        /\ ReturnToken("STRING", lex.start, lex.errors)
    BY DEF LexSuffix, InString
  <1>2. /\ lex.start \in Nat /\ lex.start < index
        /\ index \in Nat /\ LastEnd \in Nat /\ LastEnd <= lex.start
    BY <1>1, StringFacts
  <1>3. "INVALID_SUFFIX" \in ErrorTypes
    BY DEF ErrorTypes
  <1>4. \/ AddErrors(<<>>)
        \/ AddErrors(<<Error("INVALID_SUFFIX", lex.start, index)>>)
    BY Zenon DEF LexSuffix
  <1>5. PICK errors \in Seq(Errors) :
          AddErrors(errors) /\ \A i \in DOMAIN errors : LastEnd <= errors[i].index
    <2>1. <<>> \in Seq(Errors) /\ \A i \in DOMAIN <<>> : LastEnd <= <<>>[i].index
      OBVIOUS
    <2> QED
      BY <1>2, <1>3, <1>4, <2>1, OneBefore, Zenon
  <1> QED
    BY <1>1, <1>5, StringReturns, Zenon

\* lexer_handle_escape returns.
LEMMA EscapedText ==
    ASSUME IInv, TextInv, NEW pc \in Inside, At(pc), UNCHANGED parser, UNCHANGED buffer,
           index' \in Nat, index <= index',
           NEW to \in Nat, index <= to,
           NEW errors \in {<<>>, InvalidEscape(to)}, Escaped(errors)
    PROVE  TextInv'
  <1>1. pc \in InString
    BY DEF InString
  <1>2. /\ IsLex(lex) /\ lex.escape \in Nat /\ lex.escape < index
        /\ index \in Nat /\ LastEnd <= lex.escape
    BY <1>1, StringFacts
  <1>3. "INVALID_ESCAPE" \in ErrorTypes /\ lex.escape < to
    BY <1>2 DEF ErrorTypes
  <1>4. /\ lex' = [lex EXCEPT !.pc = "string"] /\ AddErrors(errors) /\ UNCHANGED token
    BY DEF Escaped
  <1>5. PICK l : l = lex' /\ l.pc = "string" /\ l.start = lex.start
    BY <1>2, <1>4 DEF IsLex
  <1>6. l.pc \in InString /\ l.pc \notin Inside
    BY <1>5 DEF InString, Inside
  <1>7. PICK e : e = LastEnd
    OBVIOUS
  <1>8. errors \in Seq(Errors) /\ \A i \in DOMAIN errors : e <= errors[i].index
    <2>1. CASE errors = <<>>
      BY <2>1
    <2>2. CASE errors = InvalidEscape(to)
      <3>1. PICK s \in Nat : s = lex.escape
        BY <1>2
      <3>2. e <= s /\ s < to
        BY <1>2, <1>3, <1>7, <3>1
      <3>3. /\ <<Error("INVALID_ESCAPE", s, to)>> \in Seq(Errors)
            /\ \A i \in DOMAIN <<Error("INVALID_ESCAPE", s, to)>> :
                 e <= <<Error("INVALID_ESCAPE", s, to)>>[i].index
        BY <1>3, <3>2, OneBefore
      <3> QED
        BY <2>2, <3>1, <3>3, Zenon DEF InvalidEscape
    <2> QED
      BY <2>1, <2>2
  <1> QED
    BY <1>1, <1>4, <1>5, <1>6, <1>7, <1>8, StringContinues, Zenon

LEMMA PeekErrorText ==
    ASSUME IInv, TextInv, NEW pc \in Inside, At(pc), UNCHANGED parser, UNCHANGED buffer,
           PeekError
    PROVE  TextInv'
  <1>1. pc \in InString /\ index \in Nat
    BY PositionFacts DEF InString
  <1>2. CASE SkipThen("escape", lex)
    BY <1>1, <1>2, StringSkips
  <1>3. CASE index' = index /\ Escaped(InvalidEscape(index))
    <2>1. PICK to : to = index
      OBVIOUS
    <2>2. to \in Nat /\ index <= to /\ index' \in Nat /\ index <= index'
          /\ Escaped(InvalidEscape(to))
      BY <1>1, <1>3, <2>1
    <2> QED
      BY <2>2, EscapedText, Zenon
  <1> QED
    BY <1>2, <1>3 DEF PeekError

LEMMA WrongCharText ==
    ASSUME IInv, TextInv, NEW pc \in Inside, At(pc), UNCHANGED parser, UNCHANGED buffer,
           WrongChar
    PROVE  TextInv'
  <1>1. index \in Nat
    BY PositionFacts
  <1>2. PICK to : to = index + 1
    OBVIOUS
  <1>3. /\ to \in Nat /\ index <= to /\ index' \in Nat /\ index <= index'
        /\ Escaped(InvalidEscape(to))
    BY <1>1, <1>2 DEF WrongChar
  <1> QED
    BY <1>3, EscapedText, Zenon

\* Another character of an escape is taken.
LEMMA EscapeGoesOn ==
    ASSUME IInv, TextInv, NEW pc \in Inside, At(pc), UNCHANGED parser, UNCHANGED buffer,
           UNCHANGED token, NoError, IsChar,
           NEW l, l.pc \in {"string"} \cup Inside, l.start = lex.start,
           l.escape = lex.escape,
           Take(l)
    PROVE  TextInv'
  <1>1. pc \in InString /\ l.pc \in InString
    BY DEF InString
  <1>2. LastEnd <= lex.escape
    BY <1>1, StringFacts
  <1> QED
    BY <1>1, <1>2, StringTaken, Zenon

LEMMA LexEscapeText ==
    ASSUME IInv, TextInv, LexEscape, UNCHANGED parser
    PROVE  TextInv'
  <1>1. At("escape") /\ UNCHANGED buffer /\ "escape" \in Inside
    BY DEF LexEscape, Inside
  <1>2. IsLex(lex) /\ index \in Nat
    BY <1>1, StringFacts DEF InString
  <1>3. CASE /\ IsChar /\ Peek.c \in {117, 120}
             /\ Take([lex EXCEPT !.pc = IF Peek.c = 117 THEN "unicode" ELSE "hex",
                                 !.val = 0, !.digits = 0])
             /\ NoError /\ UNCHANGED token
    <2>1. PICK l : l = [lex EXCEPT !.pc = IF Peek.c = 117 THEN "unicode" ELSE "hex",
                                   !.val = 0, !.digits = 0]
      OBVIOUS
    <2>2. l.pc \in {"unicode", "hex"} /\ l.start = lex.start /\ l.escape = lex.escape
      BY <1>2, <2>1 DEF IsLex
    <2>3. l.pc \in Inside /\ Take(l)
      BY <1>3, <2>1, <2>2 DEF Inside
    <2> QED
      BY <1>1, <1>3, <2>2, <2>3, EscapeGoesOn
  <1>4. CASE /\ IsChar /\ index' = index + Peek.width
             /\ Escaped(IF Peek.c \in Simple THEN <<>> ELSE InvalidEscape(index'))
    <2>1. PICK to : to = index'
      OBVIOUS
    <2>2. to \in Nat /\ index <= to /\ index' \in Nat /\ index <= index'
      BY <1>4, <2>1, PositionFacts
    <2>3. PICK errors \in {<<>>, InvalidEscape(to)} : Escaped(errors)
      BY <1>4, <2>1, Zenon
    <2> QED
      BY <1>1, <2>2, <2>3, EscapedText, Zenon
  <1> QED
    BY <1>1, <1>3, <1>4, PeekErrorText, Zenon DEF LexEscape

LEMMA LexUnicodeText ==
    ASSUME IInv, TextInv, LexUnicode, UNCHANGED parser
    PROVE  TextInv'
  <1>1. At("unicode") /\ UNCHANGED buffer /\ "unicode" \in Inside
    BY DEF LexUnicode, Inside
  <1>2. IsLex(lex)
    BY <1>1, StringFacts DEF InString
  <1>3. CASE /\ IsChar
             /\ Take([lex EXCEPT !.pc = "digits"]) /\ NoError /\ UNCHANGED token
    <2>1. PICK l : l = [lex EXCEPT !.pc = "digits"]
      OBVIOUS
    <2>2. l.pc \in Inside /\ l.start = lex.start /\ l.escape = lex.escape
      BY <1>2, <2>1 DEF IsLex, Inside
    <2> QED
      BY <1>1, <1>3, <2>1, <2>2, EscapeGoesOn
  <1> QED
    BY <1>1, <1>3, PeekErrorText, WrongCharText, Zenon DEF LexUnicode

LEMMA LexDigitsText ==
    ASSUME IInv, TextInv, LexDigits, UNCHANGED parser
    PROVE  TextInv'
  <1>1. At("digits") /\ UNCHANGED buffer /\ "digits" \in Inside
    BY DEF LexDigits, Inside
  <1>2. IsLex(lex) /\ index \in Nat /\ lex.pc = "digits"
    BY <1>1, StringFacts DEF InString
  <1>3. CASE /\ IsChar
             /\ Take([lex EXCEPT !.digits = (@ + 1) % DigitsMod,
                                 !.val = (@ * 16 + HexValue(Peek.c)) % WordMod])
             /\ NoError /\ UNCHANGED token
    <2>1. PICK l : l = [lex EXCEPT !.digits = (@ + 1) % DigitsMod,
                                   !.val = (@ * 16 + HexValue(Peek.c)) % WordMod]
      OBVIOUS
    <2>2. l.pc \in Inside /\ l.start = lex.start /\ l.escape = lex.escape
      BY <1>1, <1>2, <2>1 DEF IsLex
    <2> QED
      BY <1>1, <1>3, <2>1, <2>2, EscapeGoesOn
  <1>4. CASE /\ index' = index + 1
             /\ Escaped(IF Fits(lex.digits, lex.val) THEN <<>> ELSE InvalidEscape(index'))
    <2>1. PICK to : to = index'
      OBVIOUS
    <2>2. to \in Nat /\ index <= to /\ index' \in Nat /\ index <= index'
      BY <1>2, <1>4, <2>1
    <2>3. PICK errors \in {<<>>, InvalidEscape(to)} : Escaped(errors)
      BY <1>4, <2>1, Zenon
    <2> QED
      BY <1>1, <2>2, <2>3, EscapedText, Zenon
  <1> QED
    BY <1>1, <1>3, <1>4, PeekErrorText, WrongCharText, Zenon DEF LexDigits

LEMMA LexHexText ==
    ASSUME IInv, TextInv, LexHex, UNCHANGED parser
    PROVE  TextInv'
  <1>1. At("hex") /\ UNCHANGED buffer /\ "hex" \in Inside
    BY DEF LexHex, Inside
  <1>2. IsLex(lex)
    BY <1>1, StringFacts DEF InString
  <1>3. CASE /\ IsChar
             /\ Take([lex EXCEPT !.digits = @ + 1,
                                 !.pc = IF lex.digits = 1 THEN "string" ELSE "hex"])
             /\ NoError /\ UNCHANGED token
    <2>1. PICK l : l = [lex EXCEPT !.digits = @ + 1,
                                   !.pc = IF lex.digits = 1 THEN "string" ELSE "hex"]
      OBVIOUS
    <2>2. l.pc \in {"string", "hex"} /\ l.start = lex.start /\ l.escape = lex.escape
      BY <1>2, <2>1 DEF IsLex
    <2>3. l.pc \in {"string"} \cup Inside
      BY <1>1, <2>2
    <2> QED
      BY <1>1, <1>3, <2>1, <2>2, <2>3, EscapeGoesOn
  <1> QED
    BY <1>1, <1>3, PeekErrorText, WrongCharText, Zenon DEF LexHex

-----------------------------------------------------------------------------
(***************************************************************************)
(* Symbols and numbers.                                                    *)
(***************************************************************************)
\* The loop over one goes on, or none is being read.
LEMMA AtomGoesOn ==
    ASSUME NEW l, lex' = l, NEW i \in Nat, i = l.start, NEW j \in Nat, j = index',
           SameUpTo(j), l.pc # "done",
           l.pc = "atom" => NoDelimiter(i, j) /\ Flags(l, i, j),
           l.pc = "skip" => l.resume # "atom" \/ (NoDelimiter(i, j) /\ Flags(l, i, j)),
           l.pc = "symbol" => NoDelimiter(i, j) /\ (i < j => Byte(i) >= 128),
           l.pc = "skip" => \/ l.resume # "symbol"
                            \/ NoDelimiter(i, j) /\ (i < j => Byte(i) >= 128)
    PROVE  AtomInv'
  <1>1. NoDelimiter(lex.start, index)' <=> NoDelimiter(i, j)
    <2>1. NoDelimiter(lex.start, index)' <=> NoDelimiter(i, j)'
      BY DEF NoDelimiter, Byte
    <2> QED
      BY <2>1, SameStretches, Zenon
  <1>2. SomeDigit(lex.start, index)' <=> SomeDigit(i, j)
    <2>1. SomeDigit(lex.start, index)' <=> SomeDigit(i, j)'
      BY DEF SomeDigit, Byte
    <2> QED
      BY <2>1, SameStretches, Zenon
  <1>3. NoPeriod(lex.start, index)' <=> NoPeriod(i, j)
    <2>1. NoPeriod(lex.start, index)' <=> NoPeriod(i, j)'
      BY DEF NoPeriod, Byte
    <2> QED
      BY <2>1, SameStretches, Zenon
  <1>4. OnePeriod(lex.start, index)' <=> OnePeriod(i, j)
    <2>1. OnePeriod(lex.start, index)' <=> OnePeriod(i, j)'
      BY DEF OnePeriod, Byte
    <2> QED
      BY <2>1, SameStretches, Zenon
  <1>5. OnlyNumeric(lex.start, index)' <=> OnlyNumeric(i, j)
    <2>1. OnlyNumeric(lex.start, index)' <=> OnlyNumeric(i, j)'
      BY DEF OnlyNumeric, Byte
    <2> QED
      BY <2>1, SameStretches, Zenon
  <1>6. Flags(lex, lex.start, index)' <=> Flags(l, i, j)
    BY <1>2, <1>3, <1>4, <1>5, Zenon DEF Flags
  <1>7. i < j => Byte(lex.start)' = Byte(i)
    BY DEF SameUpTo, Byte
  <1>8. lex'.start = i /\ index' = j
    OBVIOUS
  <1> QED
    BY <1>1, <1>6, <1>7, <1>8, Zenon DEF AtomInv, In

\* A symbol or number is returned.
LEMMA AtomDone ==
    ASSUME UNCHANGED buffer, UNCHANGED index,
           NEW type \in {"SYMBOL", "NUMBER"}, NEW i \in Nat, NEW errors,
           ReturnToken(type, i, errors), NEW j \in Nat, j = index,
           NoDelimiter(i, j), Delimited,
           type = "NUMBER" <=> WrittenAsNumber(i, j)
    PROVE  AtomInv'
  <1>1. lex'.pc = "done" /\ token'.type = type /\ token'.index = i /\ index' = j
    BY DEF ReturnToken, Idle
  <1>2. SameUpTo(j)
    BY SameInput
  <1>3. NoDelimiter(token.index, index)'
    <2>1. NoDelimiter(i, j)'
      BY <1>2, SameStretches
    <2> QED
      BY <1>1, <2>1 DEF NoDelimiter, Byte
  <1>4. Delimited'
    BY DEF Delimited, AtTheEnd, Byte, buffer
  <1>5. WrittenAsNumber(token.index, index)' <=> WrittenAsNumber(i, j)
    <2>1. /\ SomeDigit(i, j)' <=> SomeDigit(i, j)
          /\ OnePeriod(i, j)' <=> OnePeriod(i, j)
          /\ OnlyNumeric(i, j)' <=> OnlyNumeric(i, j)
      BY <1>2, SameStretches, Zenon
    <2>2. SomeDigit(token.index, index)' <=> SomeDigit(i, j)'
      BY <1>1 DEF SomeDigit, Byte
    <2>3. OnePeriod(token.index, index)' <=> OnePeriod(i, j)'
      BY <1>1 DEF OnePeriod, Byte
    <2>4. OnlyNumeric(token.index, index)' <=> OnlyNumeric(i, j)'
      BY <1>1 DEF OnlyNumeric, Byte
    <2> QED
      BY <2>1, <2>2, <2>3, <2>4, Zenon DEF WrittenAsNumber
  <1> QED
    BY <1>1, <1>3, <1>4, <1>5, Zenon DEF AtomInv, In

-----------------------------------------------------------------------------
(***************************************************************************)
(* The steps that any loop may take.                                       *)
(***************************************************************************)
\* The bytes that have been read stay where they are.
LEMMA InputGrows ==
    ASSUME IInv, GetInput
    PROVE  /\ Becomes(input, TRUE, input')
           /\ Len(input) \in Nat /\ \A k \in 1 .. Len(input) : input'[k] = input[k]
  <1>1. /\ input \in Seq(Bytes) /\ unread \in Seq(Bytes)
        /\ index \in Nat /\ Len(input) \in Nat /\ index <= Len(input)
    BY DEF IInv, BufferInv, LexInv
  <1>2. capacity' \in Nat /\ capacity' > Len(input) + 1
    BY GetInputRoom
  <1>3. PICK size \in Nat \ {0} : size = capacity' - Len(input)
    BY <1>1, <1>2
  <1>4. PICK line : line = Gets(size) /\ input' = input \o UpToNul(line)
    BY <1>3, Zenon DEF GetInput
  <1>5. line \in Seq(Bytes)
    <2>1. PICK n \in 0 .. Len(unread) : line = SubSeq(unread, 1, n)
      BY <1>1, <1>4, GetsFacts
    <2>2. Len(unread) \in Nat /\ \A i \in 1 .. n : unread[i] \in Bytes
      BY <1>1
    <2> QED
      BY <1>1, <2>1, <2>2, SubSeqProperties
  <1>6. PICK more \in Seq(Bytes) : input' = input \o more
    BY <1>4, <1>5, UpToNulFacts
  <1>7. \A k \in 1 .. Len(input) : input'[k] = input[k]
    <2>1. \A k \in 1 .. Len(input) + Len(more) :
            (input \o more)[k] = IF k <= Len(input) THEN input[k] ELSE more[k - Len(input)]
      BY <1>1, <1>6, ConcatProperties
    <2>2. \A k \in 1 .. Len(input) : k \in 1 .. Len(input) + Len(more) /\ k <= Len(input)
      BY <1>1, <1>6
    <2> QED
      BY <1>6, <2>1, <2>2, Zenon
  <1>8. input' \in Seq(Bytes) /\ Len(input') = Len(input) + Len(more) /\ Len(more) \in Nat
    BY <1>1, <1>6, ConcatProperties, LenProperties
  <1>9. Len(input) <= Len(input')
    BY <1>1, <1>8
  <1> QED
    BY <1>1, <1>7, <1>8, <1>9, Zenon DEF Becomes

LEMMA GetInputAppends ==
    ASSUME IInv, GetInput
    PROVE  SameUpTo(index)
  <1>1. index \in Nat /\ Len(input) \in Nat /\ index <= Len(input)
    BY PositionFacts
  <1>2. \A k \in 1 .. Len(input) : input'[k] = input[k]
    BY InputGrows
  <1>3. \A p \in Nat : p < index => p + 1 \in 1 .. Len(input)
    BY <1>1
  <1> QED
    BY <1>2, <1>3, Zenon DEF SameUpTo

LEMMA GetInputText ==
    ASSUME IInv, TextInv, GetInput, UNCHANGED parser
    PROVE  TextInv'
  <1>1. /\ Reading /\ open /\ index' = index /\ lex' = lex /\ context' = context
    BY DEF GetInput, Starved
  <1>2. PICK j \in Nat : j = index /\ j = index' /\ SameUpTo(j)
    BY <1>1, GetInputAppends, PositionFacts
  <1>3. PICK e : e = LastEnd
    OBVIOUS
  <1>4. PICK l : l = lex
    OBVIOUS
  <1>5. PICK s \in Nat : s = l.start
    BY <1>4 DEF IInv, LexInv, LexShape
  <1>6. /\ l.pc \notin {"idle", "done"}
        /\ l.pc \in Consumed => s <= j
        /\ l.pc = "skip" => l.resume = "comment" \/ s <= j
    <2>1. /\ l.pc \in Consumed => s < j
          /\ l.pc = "skip" => /\ l.resume \in Resumed
                              /\ l.bad <= j
                              /\ l.resume = "symbol" => s <= l.bad
                              /\ l.resume \in {"atom", "string", "suffix", "escape"} => s < j
      BY <1>2, <1>4, <1>5, Zenon DEF IInv, LexInv
    <2>2. l.bad \in Nat
      BY <1>4 DEF IInv, LexInv, LexShape
    <2> QED
      BY <1>1, <1>2, <1>4, <2>1, <2>2 DEF Resumed, Reading
  <1>7. GapInv'
    <2>1. /\ l.pc \in {"start", "blank", "comment"} => Blank(e, j)
          /\ l.pc = "skip" => Blank(e, j) \/ l.resume # "comment"
          /\ l.pc = "comment" => Remark(e, j)
          /\ l.pc = "skip" => Remark(e, j) \/ l.resume # "comment"
          /\ l.pc = "skip" => e <= l.bad
          /\ l.pc \in Consumed => e <= s /\ Blank(e, s)
          /\ l.pc = "skip" => l.resume = "comment" \/ (e <= s /\ Blank(e, s))
          /\ l.pc \in Inside => e <= l.escape
          /\ l.pc = "skip" => l.resume # "escape" \/ e <= l.escape
      BY <1>2, <1>3, <1>4, <1>5, Zenon DEF TextInv, GapInv, Between, Begun, In
    <2>2. index' \in Nat /\ index <= index'
      BY <1>2
    <2> QED
      BY <1>1, <1>2, <1>3, <1>4, <1>5, <1>6, <2>1, <2>2, GapGoesOn, Zenon
  <1>8. TrailInv'
    <2>1. ~AtTheEnd
      BY <1>1 DEF AtTheEnd
    <2>2. at = "next" => RemarkInv
      BY Zenon DEF TextInv, TrailInv
    <2>3. RemarkInv => RemarkInv'
      BY <1>1, <2>1, Zenon DEF RemarkInv, Reading
    <2> QED
      BY <1>1, <2>2, <2>3, TrailKept, Zenon
  <1>9. AtomInv'
    <2>1. /\ l.pc = "atom" => NoDelimiter(s, j) /\ Flags(l, s, j)
          /\ l.pc = "skip" => l.resume # "atom" \/ (NoDelimiter(s, j) /\ Flags(l, s, j))
          /\ l.pc = "symbol" => NoDelimiter(s, j) /\ (s < j => Byte(s) >= 128)
          /\ l.pc = "skip" => \/ l.resume # "symbol"
                              \/ NoDelimiter(s, j) /\ (s < j => Byte(s) >= 128)
      BY <1>2, <1>4, <1>5, Zenon DEF TextInv, AtomInv, In
    <2> QED
      BY <1>1, <1>2, <1>4, <1>5, <1>6, <2>1, AtomGoesOn, Zenon
  <1> QED
    BY <1>1, <1>7, <1>8, <1>9, LexerStays, Zenon DEF TextInv

LEMMA GrowFailsText ==
    ASSUME IInv, TextInv, GrowFails, UNCHANGED parser
    PROVE  TextInv'
  BY TextExits DEF GrowFails, Starved

LEMMA AssertionFailsText ==
    ASSUME IInv, TextInv, AssertionFails, UNCHANGED parser
    PROVE  TextInv'
  BY TextExits DEF AssertionFails, Reading

LEMMA TwoBefore ==
    ASSUME NEW type1 \in ErrorTypes, NEW from1 \in Nat,
           NEW type2 \in ErrorTypes, NEW from2 \in Nat,
           NEW to \in Nat, from1 < to, from2 < to,
           NEW e, e <= from1, e <= from2,
           NEW errors, errors = <<Error(type1, from1, to), Error(type2, from2, to)>>
    PROVE  errors \in Seq(Errors) /\ \A i \in DOMAIN errors : e <= errors[i].index
  <1> DEFINE c == Error(type1, from1, to)
             d == Error(type2, from2, to)
  <1>1. c \in Errors /\ d \in Errors
    BY ErrorFacts
  <1>2. c.index = from1 /\ d.index = from2
    BY DEF Error
  <1> HIDE DEF c, d
  <1>3. <<c, d>> \in Seq(Errors) /\ \A i \in DOMAIN <<c, d>> : <<c, d>>[i] \in {c, d}
    BY <1>1
  <1>4. \A i \in DOMAIN <<c, d>> : e <= <<c, d>>[i].index
    BY <1>2, <1>3, Zenon
  <1>5. errors = <<c, d>>
    BY DEF c, d
  <1> QED
    BY <1>3, <1>4, <1>5, Zenon

\* What the steps of lexer_skip_invalid_utf8 start from.
LEMMA SkipFacts ==
    ASSUME IInv, TextInv, At("skip")
    PROVE  /\ Reading /\ lex.pc = "skip" /\ IsLex(lex)
           /\ lex.start \in Nat /\ lex.escape \in Nat /\ lex.bad \in Nat /\ index \in Nat
           /\ lex.resume \in Resumed /\ lex.bad <= index
           /\ lex.resume # "comment" => lex.start <= index
           /\ lex.resume = "atom" => lex.start < index
           /\ lex.resume = "symbol" => lex.start <= lex.bad
           /\ lex.resume = "escape" => lex.escape < index
           /\ lex.bad = index => Peek = BadUtf8
           /\ LastEnd \in Nat /\ LastEnd <= index /\ LastEnd <= lex.bad
           /\ lex.resume = "comment" => Blank(LastEnd, index) /\ Remark(LastEnd, index)
           /\ lex.resume # "comment" => LastEnd <= lex.start /\ Blank(LastEnd, lex.start)
           /\ lex.resume = "escape" => LastEnd <= lex.escape
  <1>1. /\ Reading /\ lex.pc = "skip" /\ IsLex(lex)
        /\ lex.start \in Nat /\ lex.escape \in Nat /\ lex.bad \in Nat /\ index \in Nat
    BY ReadingFacts
  <1>2. /\ lex.resume \in Resumed /\ lex.bad <= index
        /\ lex.resume = "symbol" => lex.start <= lex.bad
        /\ lex.resume \in {"atom", "string", "suffix", "escape"} => lex.start < index
        /\ lex.resume = "escape" => lex.escape < index
        /\ lex.bad = index => Peek = BadUtf8
    BY <1>1, Zenon DEF IInv, LexInv
  <1>3. /\ LastEnd \in Nat /\ LastEnd <= index /\ LastEnd <= lex.bad
        /\ lex.resume = "comment" => Blank(LastEnd, index) /\ Remark(LastEnd, index)
        /\ lex.resume # "comment" => LastEnd <= lex.start /\ Blank(LastEnd, lex.start)
        /\ lex.resume = "escape" => LastEnd <= lex.escape
    BY <1>1, Zenon DEF TextInv, GapInv, Between, Begun, In
  <1>4. lex.resume # "comment" => lex.start <= index
    BY <1>1, <1>2 DEF Resumed
  <1> QED
    BY <1>1, <1>2, <1>3, <1>4, Zenon

\* A byte is skipped.
LEMMA SkipGoesOn ==
    ASSUME IInv, TextInv, At("skip"), Peek = BadUtf8,
           UNCHANGED parser, UNCHANGED buffer, UNCHANGED token,
           index' = index + 1, lex' = lex, context' = context
    PROVE  TextInv'
  <1>1. PICK j \in Nat : j = index
    BY PositionFacts
  <1>2. PICK k \in Nat : k = index' /\ k = j + 1 /\ j < k /\ index <= k
    BY <1>1
  <1>3. PICK c \in Nat : c = Byte(j) /\ c >= 128
    <2>1. \A b \in 128 .. 255 : b \in Nat /\ b >= 128
      OBVIOUS
    <2> QED
      BY <1>1, <2>1, BadFacts, Zenon
  <1>4. Spells(j, k, c) /\ \A p \in j .. k - 1 : Byte(p) # NewLine
    <2>1. c # NewLine
      BY <1>3, HighFacts, Zenon
    <2>2. Spells(j, k, c)
      BY <1>2, <1>3, Zenon DEF Spells
    <2> QED
      BY <2>1, <2>2, <1>2, SpellsNoNewLine, Zenon
  <1>5. PICK e \in Nat : e = LastEnd /\ e <= j
    BY <1>1, SkipFacts
  <1>6. PICK l : l = lex
    OBVIOUS
  <1>7. PICK s \in Nat : s = l.start
    BY <1>6, SkipFacts
  <1>8. /\ Reading /\ l.pc = "skip" /\ e <= l.bad
        /\ l.resume = "comment" => Blank(e, j) /\ Remark(e, j)
        /\ l.resume # "comment" => s <= j /\ e <= s /\ Blank(e, s)
        /\ l.resume = "atom" => s < j
        /\ l.resume = "symbol" => s <= j
        /\ l.resume = "escape" => e <= l.escape
    BY <1>1, <1>5, <1>6, <1>7, SkipFacts, Zenon
  <1>9. l.pc \notin Inside
    BY <1>8 DEF Inside
  <1>10. GapInv'
    <2>1. CASE l.resume = "comment"
      <3>1. Blank(e, k) /\ Remark(e, k)
        BY <1>2, <1>4, <1>5, <1>8, <2>1, RemarkGrows, Zenon
      <3> QED
        BY <1>2, <1>5, <1>6, <1>7, <1>8, <2>1, <3>1, GapBetween, Zenon
    <2>2. CASE l.resume # "comment"
      <3>1. s <= k
        BY <1>2, <1>8, <2>2
      <3> QED
        BY <1>2, <1>5, <1>6, <1>7, <1>8, <1>9, <2>2, <3>1, GapInside, Zenon
    <2> QED
      BY <2>1, <2>2
  <1>11. TrailInv'
    <2>1. at = "next" => RemarkInv
      BY Zenon DEF TextInv, TrailInv
    <2>2. RemarkInv => RemarkInv'
      BY <1>6, <1>8, Zenon DEF RemarkInv
    <2> QED
      BY <1>8, <2>1, <2>2, TrailKept, Zenon
  <1>12. AtomInv'
    <2>1. /\ ~IsDelimiter(c) /\ ~IsDigit(c) /\ ~IsNumericContinue(c) /\ c # Period
      BY <1>3, HighFacts
    <2>2. ASSUME l.resume = "atom"
          PROVE  NoDelimiter(s, k) /\ Flags(l, s, k)
      <3>1. NoDelimiter(s, j) /\ Flags(l, s, j)
        BY <1>1, <1>6, <1>7, <1>8, <2>2, Zenon DEF TextInv, AtomInv, In
      <3>2. s <= j /\ s < j
        BY <1>8, <2>2
      <3>3. /\ NoDelimiter(s, k)
            /\ NoPeriod(s, k) <=> NoPeriod(s, j)
            /\ SomeDigit(s, k) <=> SomeDigit(s, j)
            /\ OnePeriod(s, k) <=> OnePeriod(s, j)
            /\ ~OnlyNumeric(s, k)
        BY <1>2, <1>4, <2>1, <3>1, <3>2, NoneGrows, Zenon
      <3>4. Flags(l, s, k)
        BY <1>8, <3>1, <3>3, Zenon DEF Flags
      <3> QED
        BY <3>3, <3>4
    <2>3. ASSUME l.resume = "symbol"
          PROVE  NoDelimiter(s, k) /\ (s < k => Byte(s) >= 128)
      <3>1. NoDelimiter(s, j) /\ (s < j => Byte(s) >= 128)
        BY <1>1, <1>6, <1>7, <1>8, <2>3, Zenon DEF TextInv, AtomInv, In
      <3>2. NoDelimiter(s, k)
        BY <1>2, <1>4, <1>8, <2>1, <2>3, <3>1, NoneGrows, Zenon
      <3>3. s < j \/ s = j
        BY <1>8, <2>3
      <3> QED
        BY <1>3, <3>1, <3>2, <3>3, Zenon
    <2>4. SameUpTo(k)
      BY SameInput
    <2>5. l.pc # "done" /\ l.pc # "atom" /\ l.pc # "symbol"
      BY <1>8
    <2> QED
      BY <1>2, <1>6, <1>7, <2>2, <2>3, <2>4, <2>5, AtomGoesOn, Zenon
  <1> QED
    BY <1>8, <1>10, <1>11, <1>12, LexerStays, Zenon DEF TextInv

\* The bytes have been skipped, and the loop goes on.
LEMMA SkipEnds ==
    ASSUME IInv, TextInv, At("skip"), Peek # BadUtf8,
           UNCHANGED parser, UNCHANGED buffer, UNCHANGED token, index' = index,
           NEW q, q = (IF lex.resume = "escape" THEN "string" ELSE lex.resume),
           lex' = [lex EXCEPT !.pc = q],
           NEW errors \in Seq(Errors), AddErrors(errors),
           \A i \in DOMAIN errors : LastEnd <= errors[i].index
    PROVE  TextInv'
  <1>1. PICK j \in Nat : j = index /\ j = index' /\ index <= j
    BY PositionFacts
  <1>2. PICK e \in Nat : e = LastEnd /\ e <= j
    BY <1>1, SkipFacts
  <1>3. PICK l : l = lex'
    OBVIOUS
  <1>4. /\ l.pc = q /\ l.start = lex.start /\ l.bad = lex.bad /\ l.escape = lex.escape
        /\ l.utf8_error = lex.utf8_error /\ l.digit = lex.digit
        /\ l.numeric = lex.numeric /\ l.dots = lex.dots
    BY <1>3, SkipFacts DEF IsLex
  <1>5. PICK s \in Nat : s = lex.start
    BY SkipFacts
  <1>6. /\ Reading /\ lex.pc = "skip" /\ e <= lex.bad /\ lex.resume \in Resumed
        /\ lex.resume = "comment" => Blank(e, j) /\ Remark(e, j)
        /\ lex.resume # "comment" => s <= j /\ e <= s /\ Blank(e, s)
        /\ lex.resume = "symbol" => s <= lex.bad
        /\ lex.bad \in Nat /\ lex.bad <= j
    BY <1>1, <1>2, <1>5, SkipFacts, Zenon
  <1>7. lex.bad < j
    <2>1. lex.bad # j
      BY <1>1, SkipFacts, Zenon
    <2> QED
      BY <1>6, <2>1
  <1>8. /\ lex.resume # "comment" => q \in {"symbol", "atom", "string", "suffix"}
        /\ lex.resume = "comment" => q = "comment"
        /\ q = "atom" => lex.resume = "atom"
        /\ q = "symbol" => lex.resume = "symbol"
    BY <1>6 DEF Resumed
  <1>9. \A pc \in {"symbol", "atom", "string", "suffix"} :
            /\ pc \in Consumed /\ pc \notin Inside
            /\ pc \notin {"skip", "done", "idle", "start", "blank", "comment", "exit"}
    BY DEF Consumed, Inside
  <1>10. GapInv'
    <2>1. CASE lex.resume = "comment"
      <3>1. l.start \in Nat
        BY <1>4, <1>5
      <3> QED
        BY <1>1, <1>2, <1>3, <1>4, <1>6, <1>8, <2>1, <3>1, GapBetween, Zenon
    <2>2. CASE lex.resume # "comment"
      <3>1. /\ l.pc \in Consumed /\ l.pc \notin Inside /\ l.pc # "skip"
        BY <1>4, <1>8, <1>9, <2>2, Zenon
      <3>2. index' \in Nat /\ index <= index' /\ s <= index' /\ s = l.start
            /\ e <= s /\ Blank(e, s)
        BY <1>1, <1>4, <1>5, <1>6, <2>2, Zenon
      <3> QED
        BY <1>2, <1>3, <1>6, <3>1, <3>2, GapInside, Zenon
    <2> QED
      BY <2>1, <2>2
  <1>11. TrailInv'
    <2>1. ASSUME at = "next"
          PROVE  RemarkInv'
      <3>1. CASE lex.resume = "comment"
        <4>1. lex.utf8_error = TRUE
          BY <1>6, <2>1, <3>1, Zenon DEF TextInv, TrailInv, RemarkInv
        <4>2. lex'.pc = "comment" /\ lex'.utf8_error = TRUE
          BY <1>3, <1>4, <1>8, <3>1, <4>1, Zenon
        <4> QED
          BY <4>2, Zenon DEF RemarkInv
      <3>2. CASE lex.resume # "comment"
        <4>1. lex'.pc \in Consumed
          BY <1>3, <1>4, <1>8, <1>9, <3>2, Zenon
        <4> QED
          BY <4>1, RemarkOver, Zenon
      <3> QED
        BY <3>1, <3>2
    <2> QED
      BY <1>2, <1>6, <2>1, TrailExtended, Zenon
  <1>12. AtomInv'
    <2>1. ASSUME q = "atom"
          PROVE  NoDelimiter(s, j) /\ Flags(l, s, j)
      <3>1. NoDelimiter(s, j) /\ Flags(lex, s, j)
        BY <1>1, <1>5, <1>6, <1>8, <2>1, Zenon DEF TextInv, AtomInv, In
      <3>2. l.pc = "atom" /\ l.pc # "skip"
        BY <1>4, <2>1
      <3> QED
        BY <1>4, <1>6, <1>7, <3>1, <3>2, Zenon DEF Flags
    <2>2. ASSUME q = "symbol"
          PROVE  NoDelimiter(s, j) /\ (s < j => Byte(s) >= 128)
      BY <1>1, <1>5, <1>6, <1>8, <2>2, Zenon DEF TextInv, AtomInv, In
    <2>3. SameUpTo(j)
      BY SameInput
    <2>4. l.pc # "done" /\ l.pc # "skip"
      BY <1>4, <1>8, <1>9, Zenon
    <2> QED
      BY <1>1, <1>3, <1>4, <1>5, <2>1, <2>2, <2>3, <2>4, AtomGoesOn, Zenon
  <1> QED
    BY <1>6, <1>10, <1>11, <1>12, LexerStays, Zenon DEF TextInv

LEMMA SkipInvalidText ==
    ASSUME IInv, TextInv, SkipInvalid, UNCHANGED parser
    PROVE  TextInv'
  <1>1. At("skip") /\ UNCHANGED buffer /\ UNCHANGED token
    BY DEF SkipInvalid
  <1>2. CASE Peek = BadUtf8
    BY <1>1, <1>2, SkipGoesOn DEF SkipInvalid
  <1>3. CASE Peek # BadUtf8
    <2>1. PICK e \in Nat, b \in Nat, j \in Nat :
            e = LastEnd /\ b = lex.bad /\ j = index /\ e <= b /\ b <= j /\ b # j
      BY <1>1, <1>3, SkipFacts, Zenon
    <2>2. b < j
      BY <2>1
    <2>3. "INVALID_UTF8" \in ErrorTypes /\ "INVALID_ESCAPE" \in ErrorTypes
      BY DEF ErrorTypes
    <2>4. CASE lex.resume = "escape"
      <3>1. PICK x \in Nat : x = lex.escape /\ x < j /\ e <= x
        BY <1>1, <2>1, <2>4, SkipFacts, Zenon
      <3>2. PICK errors : errors = <<Error("INVALID_UTF8", b, j), Error("INVALID_ESCAPE", x, j)>>
        OBVIOUS
      <3>3. errors \in Seq(Errors) /\ \A i \in DOMAIN errors : e <= errors[i].index
        <4>1. e <= b /\ e <= x /\ b < j /\ x < j
          BY <2>1, <2>2, <3>1, Zenon
        <4> QED
          BY <2>3, <3>2, <4>1, TwoBefore, Zenon
      <3>4. index' = index /\ lex' = [lex EXCEPT !.pc = "string"] /\ AddErrors(errors)
        BY <1>3, <2>1, <2>4, <3>1, <3>2, Zenon DEF SkipInvalid, Stay
      <3> QED
        BY <1>1, <1>3, <2>1, <2>4, <3>3, <3>4, SkipEnds, Zenon
    <2>5. CASE lex.resume # "escape"
      <3>1. PICK errors : errors = <<Error("INVALID_UTF8", b, j)>>
        OBVIOUS
      <3>2. errors \in Seq(Errors) /\ \A i \in DOMAIN errors : e <= errors[i].index
        BY <2>1, <2>2, <2>3, <3>1, OneBefore, Zenon
      <3>3. index' = index /\ lex' = [lex EXCEPT !.pc = lex.resume] /\ AddErrors(errors)
        BY <1>3, <2>1, <2>5, <3>1, Zenon DEF SkipInvalid, Stay
      <3> QED
        BY <1>1, <1>3, <2>1, <2>5, <3>2, <3>3, SkipEnds, Zenon
    <2> QED
      BY <2>4, <2>5
  <1> QED
    BY <1>2, <1>3

-----------------------------------------------------------------------------
(***************************************************************************)
(* The steps between tokens.                                               *)
(***************************************************************************)
\* Another character lies ahead: the form has no errors before its first token.
LEMMA NoRemark ==
    ASSUME IInv, TextInv, at = "next", lex.pc \in {"start", "blank"}, IsChar
    PROVE  context = <<>>
  <1>1. ~AtTheEnd
    <2>1. index < Len(input) /\ index \in Nat /\ Len(input) \in Nat
      BY PositionFacts
    <2> QED
      BY <2>1 DEF AtTheEnd
  <1> QED
    BY <1>1, Zenon DEF TextInv, TrailInv, RemarkInv

LEMMA BetweenFacts ==
    ASSUME IInv, TextInv, NEW pc \in {"start", "blank", "comment"}, At(pc)
    PROVE  /\ Reading /\ lex.pc = pc /\ IsLex(lex) /\ lex.start \in Nat /\ index \in Nat
           /\ LastEnd \in Nat /\ LastEnd <= index /\ Blank(LastEnd, index)
           /\ pc = "comment" => Remark(LastEnd, index)
  <1>1. /\ Reading /\ lex.pc = pc /\ IsLex(lex) /\ lex.start \in Nat /\ index \in Nat
    BY ReadingFacts
  <1>2. /\ LastEnd \in Nat /\ LastEnd <= index /\ Blank(LastEnd, index)
        /\ pc = "comment" => Remark(LastEnd, index)
    BY <1>1, Zenon DEF TextInv, GapInv, Between, In
  <1> QED
    BY <1>1, <1>2

\* Whitespace or a comment goes on, or begins.
LEMMA BlankTaken ==
    ASSUME IInv, TextInv, NEW pc \in {"start", "blank"}, At(pc), IsChar,
           UNCHANGED parser, UNCHANGED buffer, UNCHANGED token, NoError,
           NEW l, l.start \in Nat, Take(l),
           \/ l.pc = "blank" /\ IsWhitespace(Peek.c)
           \/ l.pc = "comment" /\ Peek.c = Semicolon
    PROVE  TextInv'
  <1>1. PICK j \in Nat, k \in Nat, c \in Nat :
          j = index /\ k = index' /\ c = Peek.c /\ j < k /\ Spells(j, k, c)
    BY SpellsFacts, PositionFacts, Zenon DEF Take
  <1>2. PICK e \in Nat : e = LastEnd /\ e <= j /\ Blank(e, j)
    BY <1>1, BetweenFacts, Zenon
  <1>3. lex' = l /\ Reading /\ lex.pc = pc /\ context' = context
    BY BetweenFacts DEF Take, NoError
  <1>4. Blank(e, k) /\ (l.pc = "comment" => Remark(e, k))
    BY <1>1, <1>2, BlankGrows, RemarkBegins, Zenon
  <1>5. l.pc \in {"blank", "comment"} /\ index <= k
    BY <1>1
  <1>6. GapInv'
    BY <1>1, <1>2, <1>3, <1>4, <1>5, GapBetween, Zenon
  <1>7. TrailInv'
    <2>1. at = "next" => context' = <<>>
      BY <1>3, NoRemark, Zenon
    <2>2. at = "next" => RemarkInv'
      BY <1>3, <1>5, <2>1, Zenon DEF RemarkInv
    <2> QED
      BY <1>3, <2>2, TrailKept, Zenon
  <1>8. AtomInv'
    BY <1>3, <1>5, NoAtom, Zenon
  <1> QED
    BY <1>3, <1>6, <1>7, <1>8, LexerStays, Zenon DEF TextInv

\* A token begins.
LEMMA TokenBegins ==
    ASSUME IInv, TextInv, At("start"),
           UNCHANGED parser, UNCHANGED buffer, UNCHANGED token, NoError,
           NEW l, lex' = l, l.start = index,
           index' \in Nat, index <= index',
           \/ l.pc = "string"
           \/ l.pc = "atom" /\ NoDelimiter(index, index') /\ Flags(l, index, index')
           \/ l.pc = "skip" /\ l.resume = "symbol" /\ l.bad = index /\ index' = index
    PROVE  TextInv'
  <1>1. PICK j \in Nat, k \in Nat : j = index /\ k = index' /\ j <= k
    BY PositionFacts
  <1>2. PICK e \in Nat : e = LastEnd /\ e <= j /\ Blank(e, j)
    BY <1>1, BetweenFacts, Zenon
  <1>3. Reading /\ context' = context
    BY BetweenFacts DEF NoError
  <1>4. /\ "string" \in Consumed /\ "atom" \in Consumed
        /\ "string" \notin Inside /\ "atom" \notin Inside /\ "skip" \notin Inside
    BY DEF Consumed, Inside
  <1>5. GapInv'
    BY <1>1, <1>2, <1>3, <1>4, GapInside, Zenon
  <1>6. TrailInv'
    BY <1>3, <1>4, TrailKept, RemarkOver, Zenon
  <1>7. AtomInv'
    <2>1. SameUpTo(k)
      BY SameInput
    <2>2. NoDelimiter(j, j) /\ ~(j < j)
      <3>1. ~(j < j) /\ \A p : p \notin j .. j - 1
        OBVIOUS
      <3> QED
        BY <3>1, Zenon DEF NoDelimiter
    <2>3. CASE l.pc = "string"
      BY <2>3, NoAtom, Zenon
    <2>4. CASE l.pc = "atom" /\ NoDelimiter(index, index') /\ Flags(l, index, index')
      <3>1. NoDelimiter(j, k) /\ Flags(l, j, k)
        BY <1>1, <2>4
      <3>2. l.pc = "atom" /\ l.pc # "skip" /\ l.pc # "symbol" /\ l.pc # "done" /\ j = l.start
        BY <1>1, <2>4
      <3> QED
        BY <1>1, <2>1, <3>1, <3>2, AtomGoesOn, Zenon
    <2>5. CASE l.pc = "skip" /\ l.resume = "symbol" /\ l.bad = index /\ index' = index
      <3>1. NoDelimiter(j, k) /\ ~(j < k) /\ j = l.start /\ l.resume # "atom"
            /\ l.pc # "atom" /\ l.pc # "symbol" /\ l.pc # "done"
        BY <1>1, <2>2, <2>5
      <3> QED
        BY <1>1, <2>1, <3>1, AtomGoesOn, Zenon
    <2> QED
      BY <2>3, <2>4, <2>5
  <1> QED
    BY <1>3, <1>5, <1>6, <1>7, LexerStays, Zenon DEF TextInv

\* A token that is neither symbol, number nor string is returned.
LEMMA MarkReturned ==
    ASSUME IInv, TextInv, At("start"),
           UNCHANGED parser, UNCHANGED buffer, NoError,
           index' \in Nat, index <= index',
           NEW type, type \notin {"SYMBOL", "NUMBER"}, NEW errors,
           ReturnToken(type, index, errors),
           type = "RIGHT_PAREN" => IsChar
    PROVE  TextInv'
  <1>1. PICK j \in Nat : j = index
    BY PositionFacts
  <1>2. PICK e \in Nat : e = LastEnd /\ e <= j /\ Blank(e, j)
    BY <1>1, BetweenFacts, Zenon
  <1>3. /\ Reading /\ lex.pc = "start" /\ context' = context
        /\ lex'.pc = "done" /\ token'.type = type
    BY BetweenFacts DEF NoError, ReturnToken, Idle
  <1>4. GapInv'
    BY <1>1, <1>2, <1>3, GapDone, Zenon
  <1>5. TrailInv'
    <2>1. at = "next" /\ type = "RIGHT_PAREN" => context' = <<>>
      BY <1>3, NoRemark, Zenon
    <2>2. at = "next" => RemarkInv'
      BY <1>3, <2>1, Zenon DEF RemarkInv
    <2> QED
      BY <1>3, <2>2, TrailKept, Zenon
  <1>6. AtomInv'
    BY <1>3, NoAtom, Zenon
  <1> QED
    BY <1>3, <1>4, <1>5, <1>6, LexerStays, Zenon DEF TextInv

LEMMA BeginText ==
    ASSUME IInv, TextInv, Begin, UNCHANGED parser
    PROVE  TextInv'
  <1>1. At("start") /\ UNCHANGED buffer
    BY DEF Begin
  <1>2. IsLex(lex) /\ index \in Nat /\ index <= index
    BY <1>1, PositionFacts, BetweenFacts
  <1>3. PICK l : l = [lex EXCEPT !.start = index, !.errors = Len(context)]
    OBVIOUS
  <1>4. CASE /\ Peek = EndOfInput
             /\ UNCHANGED <<index, context>>
             /\ ReturnToken("END", index, Len(context))
    <2>1. index' \in Nat /\ index <= index' /\ NoError
      BY <1>2, <1>4 DEF NoError
    <2> QED
      BY <1>1, <1>4, <2>1, MarkReturned, Zenon
  <1>5. CASE SkipThen("symbol", [l EXCEPT !.utf8_error = FALSE])
    <2>1. PICK m : m = lex'
      OBVIOUS
    <2>2. /\ m.pc = "skip" /\ m.resume = "symbol" /\ m.bad = index /\ m.start = index
          /\ index' = index /\ NoError /\ UNCHANGED token
      BY <1>2, <1>3, <1>5, <2>1 DEF SkipThen, Stay, IsLex
    <2>3. index' \in Nat /\ index <= index'
      BY <1>2, <2>2
    <2> QED
      BY <1>1, <2>1, <2>2, <2>3, TokenBegins, Zenon
  <1>6. CASE /\ IsChar /\ Peek.c \notin {SingleQuote, LeftParen, RightParen}
             /\ Take(CASE IsWhitespace(Peek.c) -> [l EXCEPT !.pc = "blank"]
                       [] Peek.c = Semicolon -> [l EXCEPT !.pc = "comment"]
                       [] Peek.c = DoubleQuote -> [l EXCEPT !.pc = "string", !.c = Peek.c]
                       [] OTHER -> [l EXCEPT !.pc = "atom",
                                             !.dots = IF Peek.c = Period THEN 1 ELSE 0,
                                             !.numeric = IsNumericStart(Peek.c),
                                             !.digit = IsDigit(Peek.c)])
             /\ NoError /\ UNCHANGED token
    <2>1. PICK k \in Nat, c \in Nat :
            k = index' /\ c = Peek.c /\ index < k /\ Spells(index, k, c)
      BY <1>6, SpellsFacts, Zenon DEF Take
    <2>2. index <= k
      BY <1>2, <2>1
    <2>3. CASE Take([l EXCEPT !.pc = "blank"]) /\ IsWhitespace(Peek.c)
      <3>1. PICK m : m = [l EXCEPT !.pc = "blank"]
        OBVIOUS
      <3>2. m.pc = "blank" /\ m.start \in Nat
        BY <1>2, <1>3, <3>1 DEF IsLex
      <3> QED
        BY <1>1, <1>6, <2>3, <3>1, <3>2, BlankTaken, Zenon
    <2>4. CASE Take([l EXCEPT !.pc = "comment"]) /\ Peek.c = Semicolon
      <3>1. PICK m : m = [l EXCEPT !.pc = "comment"]
        OBVIOUS
      <3>2. m.pc = "comment" /\ m.start \in Nat
        BY <1>2, <1>3, <3>1 DEF IsLex
      <3> QED
        BY <1>1, <1>6, <2>4, <3>1, <3>2, BlankTaken, Zenon
    <2>5. CASE Take([l EXCEPT !.pc = "string", !.c = Peek.c])
      <3>1. PICK m : m = [l EXCEPT !.pc = "string", !.c = Peek.c] /\ lex' = m
        BY <2>5 DEF Take
      <3>2. m.pc = "string" /\ m.start = index
        BY <1>2, <1>3, <3>1 DEF IsLex
      <3> QED
        BY <1>1, <1>6, <2>1, <2>2, <3>1, <3>2, TokenBegins, Zenon
    <2>6. CASE /\ Take([l EXCEPT !.pc = "atom",
                                 !.dots = IF Peek.c = Period THEN 1 ELSE 0,
                                 !.numeric = IsNumericStart(Peek.c),
                                 !.digit = IsDigit(Peek.c)])
               /\ ~IsWhitespace(Peek.c)
      <3>1. PICK m : /\ m = [l EXCEPT !.pc = "atom",
                                      !.dots = IF c = Period THEN 1 ELSE 0,
                                      !.numeric = IsNumericStart(c),
                                      !.digit = IsDigit(c)]
                     /\ lex' = m
        BY <2>1, <2>6 DEF Take
      <3>2. /\ m.pc = "atom" /\ m.start = index
            /\ m.dots = (IF c = Period THEN 1 ELSE 0)
            /\ m.numeric = IsNumericStart(c) /\ m.digit = IsDigit(c)
        BY <1>2, <1>3, <3>1 DEF IsLex
      <3>3. ~IsDelimiter(c)
        BY <1>6, <2>1, <2>6 DEF IsDelimiter
      <3>4. NoDelimiter(index, k)
        BY <1>2, <2>1, <3>3, FirstGrows, Zenon
      <3>5. Flags(m, index, k)
        <4>1. /\ m.dots \in Nat /\ m.dots <= 1
              /\ m.dots = 0 => c # Period
              /\ c # Period => m.dots = 0
          <5>1. CASE c = Period
            BY <3>2, <5>1
          <5>2. CASE c # Period
            BY <3>2, <5>2
          <5> QED
            BY <5>1, <5>2
        <4>2. m.numeric \in BOOLEAN /\ m.digit \in BOOLEAN /\ m.pc # "skip"
          <5>1. IsNumericStart(c) \in BOOLEAN /\ IsDigit(c) \in BOOLEAN
            BY DEF IsNumericStart, IsDigit
          <5> QED
            BY <3>2, <5>1, Zenon
        <4>3. /\ NoPeriod(index, k) <=> c # Period
              /\ SomeDigit(index, k) <=> IsDigit(c)
              /\ OnePeriod(index, k)
              /\ OnlyNumeric(index, k) <=> IsNumericStart(c)
          BY <1>2, <2>1, FirstGrows, Zenon
        <4> QED
          BY <3>2, <4>1, <4>2, <4>3, Zenon DEF Flags
      <3> QED
        BY <1>1, <1>6, <2>1, <2>2, <3>1, <3>2, <3>4, <3>5, TokenBegins, Zenon
    <2> QED
      BY <1>6, <2>3, <2>4, <2>5, <2>6, Zenon
  <1>7. CASE /\ IsChar /\ Peek.c \in {SingleQuote, LeftParen, RightParen}
             /\ index' = index + 1
             /\ NoError
             /\ ReturnToken(CASE Peek.c = SingleQuote -> "SINGLE_QUOTE"
                              [] Peek.c = LeftParen -> "LEFT_PAREN"
                              [] Peek.c = RightParen -> "RIGHT_PAREN", index, Len(context))
    <2>1. PICK type \in {"SINGLE_QUOTE", "LEFT_PAREN", "RIGHT_PAREN"} :
            ReturnToken(type, index, Len(context))
      BY <1>7, Zenon
    <2>2. type \notin {"SYMBOL", "NUMBER"}
      OBVIOUS
    <2>3. index' \in Nat /\ index <= index'
      BY <1>2, <1>7
    <2> QED
      BY <1>1, <1>7, <2>1, <2>2, <2>3, MarkReturned, Zenon
  <1> QED
    BY <1>3, <1>4, <1>5, <1>6, <1>7, Zenon DEF Begin

\* A loop over whitespace or a comment is left.
LEMMA BlankLeft ==
    ASSUME IInv, TextInv, NEW pc \in {"blank", "comment"}, At(pc),
           UNCHANGED parser, UNCHANGED buffer, UNCHANGED token, NoError,
           Stay([Peeked EXCEPT !.pc = "start"]),
           at = "next" => context = <<>> \/ AtTheEnd
    PROVE  TextInv'
  <1>1. PICK j \in Nat : j = index /\ j = index' /\ index <= j
    BY PositionFacts DEF Stay
  <1>2. PICK e \in Nat : e = LastEnd /\ e <= j /\ Blank(e, j)
    BY <1>1, BetweenFacts, Zenon
  <1>3. PICK l : l = lex' /\ l.pc = "start" /\ l.start \in Nat
    BY BetweenFacts, PeekedFacts DEF Stay
  <1>4. Reading /\ context' = context
    BY BetweenFacts DEF NoError
  <1>5. GapInv'
    BY <1>1, <1>2, <1>3, <1>4, GapBetween, Zenon
  <1>6. TrailInv'
    <2>1. AtTheEnd' <=> AtTheEnd
      BY <1>1 DEF AtTheEnd, buffer
    <2>2. at = "next" => RemarkInv'
      BY <1>3, <1>4, <2>1, Zenon DEF RemarkInv
    <2> QED
      BY <1>4, <2>2, TrailKept, Zenon
  <1>7. AtomInv'
    BY <1>3, NoAtom, Zenon
  <1> QED
    BY <1>4, <1>5, <1>6, <1>7, LexerStays, Zenon DEF TextInv

LEMMA SkipBlankText ==
    ASSUME IInv, TextInv, SkipBlank, UNCHANGED parser
    PROVE  TextInv'
  <1>1. At("blank") /\ UNCHANGED buffer /\ UNCHANGED token /\ NoError
    BY DEF SkipBlank
  <1>2. CASE IsChar /\ IsWhitespace(Peek.c) /\ Take(lex)
    <2>1. lex.pc = "blank" /\ lex.start \in Nat
      BY <1>1, BetweenFacts
    <2> QED
      BY <1>1, <1>2, <2>1, BlankTaken, Zenon
  <1>3. CASE Stay([Peeked EXCEPT !.pc = "start"])
    <2>1. at = "next" => context = <<>> \/ AtTheEnd
      BY <1>1, BetweenFacts, Zenon DEF TextInv, TrailInv, RemarkInv
    <2> QED
      BY <1>1, <1>3, <2>1, BlankLeft, Zenon
  <1> QED
    BY <1>2, <1>3, Zenon DEF SkipBlank

LEMMA SkipCommentText ==
    ASSUME IInv, TextInv, SkipComment, UNCHANGED parser
    PROVE  TextInv'
  <1>1. At("comment") /\ UNCHANGED buffer /\ ~(LoopEnds /\ lex.utf8_error)
    BY DEF SkipComment
  <1>2. PICK j \in Nat : j = index
    BY PositionFacts
  <1>3. PICK e \in Nat : e = LastEnd /\ e <= j /\ Blank(e, j) /\ Remark(e, j)
    BY <1>1, <1>2, BetweenFacts, Zenon
  <1>4. Reading /\ lex.pc = "comment" /\ IsLex(lex) /\ lex.start \in Nat
    BY <1>1, BetweenFacts
  <1>5. at = "next" => context = <<>> \/ lex.utf8_error = TRUE
    BY <1>4, Zenon DEF TextInv, TrailInv, RemarkInv
  <1>6. CASE IsChar /\ ~LoopEnds /\ Take(lex) /\ NoError /\ UNCHANGED token
    <2>1. PICK k \in Nat, c \in Nat :
            k = index' /\ c = Peek.c /\ j < k /\ Spells(j, k, c) /\ lex' = lex
      BY <1>2, <1>6, SpellsFacts, Zenon DEF Take
    <2>2. c # NewLine
      BY <1>4, <1>6, <2>1, Zenon DEF LoopEnds
    <2>3. Blank(e, k) /\ Remark(e, k)
      BY <1>3, <2>1, <2>2, SpellsNoNewLine, RemarkGrows, Zenon
    <2>4. index <= k
      BY <1>2, <2>1
    <2>5. GapInv'
      BY <1>1, <1>3, <1>4, <2>1, <2>3, <2>4, GapBetween, Zenon
    <2>6. context' = context /\ (at = "next" => RemarkInv')
      BY <1>4, <1>5, <1>6, <2>1, Zenon DEF RemarkInv, NoError
    <2>7. TrailInv'
      BY <1>4, <2>6, TrailKept, Zenon
    <2>8. AtomInv'
      BY <1>4, <2>1, NoAtom, Zenon
    <2> QED
      BY <1>4, <2>5, <2>7, <2>8, LexerStays, Zenon DEF TextInv
  <1>7. CASE /\ LoopEnds \/ Peek = EndOfInput
             /\ Stay([Peeked EXCEPT !.pc = "start"]) /\ NoError /\ UNCHANGED token
    <2>1. at = "next" => context = <<>> \/ AtTheEnd
      <3>1. CASE Peek = EndOfInput
        <4>1. input \in Seq(Bytes) /\ index \in 0 .. Len(input)
          BY DEF IInv, BufferInv, LexInv
        <4> QED
          BY <1>1, <3>1, <4>1, EndFacts
      <3>2. CASE LoopEnds
        BY <1>1, <1>5, <3>2
      <3> QED
        BY <1>7, <3>1, <3>2
    <2> QED
      BY <1>1, <1>7, <2>1, BlankLeft, Zenon
  <1>8. CASE SkipThen("comment", Peeked)
    <2>1. /\ Peek = BadUtf8 /\ index' = index /\ context' = context
          /\ lex' = [Peeked EXCEPT !.pc = "skip", !.bad = index, !.resume = "comment"]
      BY <1>8 DEF SkipThen, Stay, NoError
    <2>2. Peeked = [lex EXCEPT !.utf8_error = TRUE]
      <3>1. ~IsChar
        BY <2>1, PositionFacts
      <3> QED
        BY <2>1, <3>1 DEF Peeked
    <2>3. PICK l : /\ l = lex' /\ l.pc = "skip" /\ l.bad = index /\ l.resume = "comment"
                   /\ l.start = lex.start /\ l.utf8_error = TRUE
      <3>1. PICK m : /\ m = Peeked /\ IsLex(m) /\ m.start = lex.start
                     /\ m.utf8_error = TRUE
        BY <1>4, <2>2, Flagged DEF IsLex
      <3>2. lex' = [m EXCEPT !.pc = "skip", !.bad = index, !.resume = "comment"]
        BY <2>1, <3>1
      <3>3. PICK l : l = lex'
        OBVIOUS
      <3>4. l.pc = "skip" /\ l.bad = index /\ l.resume = "comment"
        BY <3>1, <3>2, <3>3 DEF IsLex
      <3>5. l.start = m.start /\ l.utf8_error = m.utf8_error
        BY <3>1, <3>2, <3>3 DEF IsLex
      <3> QED
        BY <3>1, <3>3, <3>4, <3>5, Zenon
    <2>4. j = index' /\ index <= j /\ LastEnd <= l.bad /\ l.start \in Nat
      BY <1>2, <1>3, <1>4, <2>1, <2>3
    <2>5. GapInv'
      BY <1>1, <1>3, <1>4, <2>3, <2>4, GapBetween, Zenon
    <2>6. at = "next" => RemarkInv'
      BY <2>3, Zenon DEF RemarkInv
    <2>7. TrailInv'
      BY <1>4, <2>1, <2>6, TrailKept, Zenon
    <2>8. AtomInv'
      BY <2>3, NoAtom, Zenon
    <2> QED
      BY <1>4, <2>5, <2>7, <2>8, LexerStays, Zenon DEF TextInv
  <1> QED
    BY <1>1, <1>6, <1>7, <1>8, Zenon DEF SkipComment

-----------------------------------------------------------------------------
(***************************************************************************)
(* The steps in symbols and numbers.                                       *)
(***************************************************************************)
LEMMA AtomFacts ==
    ASSUME IInv, TextInv, NEW pc \in {"symbol", "atom"}, At(pc)
    PROVE  /\ Reading /\ lex.pc = pc /\ IsLex(lex)
           /\ lex.start \in Nat /\ index \in Nat /\ lex.start < index
           /\ LastEnd \in Nat /\ LastEnd <= lex.start /\ Blank(LastEnd, lex.start)
           /\ NoDelimiter(lex.start, index)
           /\ pc = "atom" => Flags(lex, lex.start, index)
           /\ pc = "symbol" => Byte(lex.start) >= 128
  <1>1. pc \in Consumed
    BY DEF Consumed
  <1>2. /\ Reading /\ lex.pc = pc /\ IsLex(lex)
        /\ lex.start \in Nat /\ index \in Nat /\ lex.start < index
    BY <1>1, ReadingFacts
  <1>3. LastEnd \in Nat /\ LastEnd <= lex.start /\ Blank(LastEnd, lex.start)
    BY <1>1, <1>2, Zenon DEF TextInv, GapInv, Begun
  <1>4. /\ NoDelimiter(lex.start, index)
        /\ pc = "atom" => Flags(lex, lex.start, index)
        /\ pc = "symbol" => Byte(lex.start) >= 128
    BY <1>2, Zenon DEF TextInv, AtomInv, In
  <1> QED
    BY <1>2, <1>3, <1>4

\* The loop goes on, or invalid bytes are skipped.
LEMMA AtomContinues ==
    ASSUME IInv, TextInv, NEW pc \in {"symbol", "atom"}, At(pc),
           UNCHANGED parser, UNCHANGED buffer, UNCHANGED token, NoError,
           index' \in Nat, index <= index',
           NEW l, lex' = l, l.start = lex.start,
           l.pc = pc \/ (l.pc = "skip" /\ l.resume = pc /\ l.bad = index),
           NoDelimiter(lex.start, index'),
           pc = "atom" => Flags(l, lex.start, index')
    PROVE  TextInv'
  <1>1. PICK j \in Nat, k \in Nat : j = index /\ k = index' /\ j <= k
    BY PositionFacts
  <1>2. PICK e \in Nat, s \in Nat : e = LastEnd /\ s = lex.start /\ e <= s /\ Blank(e, s)
    BY AtomFacts, Zenon
  <1>3. Reading /\ context' = context /\ s < j
    BY <1>1, <1>2, AtomFacts DEF NoError
  <1>4. s <= k /\ s = l.start /\ e <= j
    BY <1>1, <1>2, <1>3
  <1>5. /\ l.pc \in Consumed \/ (l.pc = "skip" /\ l.resume # "comment")
        /\ l.pc \notin Inside
        /\ l.pc = "skip" => l.resume # "escape" /\ l.bad = j
        /\ l.pc # "done"
    BY <1>1 DEF Consumed, Inside
  <1>6. GapInv'
    BY <1>1, <1>2, <1>3, <1>4, <1>5, GapInside, Zenon
  <1>7. TrailInv'
    BY <1>3, <1>5, TrailKept, RemarkOver, Zenon
  <1>8. AtomInv'
    <2>1. SameUpTo(k)
      BY SameInput
    <2>2. pc = "symbol" => Byte(s) >= 128
      BY <1>2, AtomFacts, Zenon
    <2>3. NoDelimiter(s, k) /\ (pc = "atom" => Flags(l, s, k))
      BY <1>1, <1>2
    <2>4. /\ l.pc = "atom" => pc = "atom"
          /\ l.pc = "symbol" => pc = "symbol"
          /\ l.pc = "skip" => l.resume = pc
      OBVIOUS
    <2> QED
      BY <1>1, <1>4, <1>5, <2>1, <2>2, <2>3, <2>4, AtomGoesOn, Zenon
  <1> QED
    BY <1>3, <1>6, <1>7, <1>8, LexerStays, Zenon DEF TextInv

LEMMA AtomTakes ==
    ASSUME IInv, TextInv, NEW pc \in {"symbol", "atom"}, At(pc), IsChar, ~LoopEnds
    PROVE  \E k \in Nat, c \in Nat :
             /\ c = Peek.c /\ k = index + Peek.width /\ index < k /\ index <= k
             /\ Spells(index, k, c) /\ ~IsDelimiter(c)
             /\ NoDelimiter(lex.start, k)
  <1>1. PICK j \in Nat, s \in Nat : j = index /\ s = lex.start /\ s < j /\ NoDelimiter(s, j)
    BY AtomFacts, Zenon
  <1>2. PICK k \in Nat, c \in Nat :
          c = Peek.c /\ k = index + Peek.width /\ j < k /\ Spells(j, k, c)
    BY <1>1, SpellsFacts, Zenon
  <1>3. ~IsDelimiter(c)
    <2>1. lex.pc # "comment"
      BY AtomFacts
    <2> QED
      BY <1>2, <2>1, Zenon DEF LoopEnds
  <1>4. s <= j /\ j <= k
    BY <1>1, <1>2
  <1>5. NoDelimiter(s, k)
    BY <1>1, <1>2, <1>3, <1>4, NoneGrows, Zenon
  <1> QED
    BY <1>1, <1>2, <1>3, <1>4, <1>5, Zenon

LEMMA AtomEnds ==
    ASSUME IInv, NEW pc \in {"symbol", "atom"}, At(pc), LoopEnds \/ Peek = EndOfInput
    PROVE  Delimited
  <1>1. CASE Peek = EndOfInput
    <2>1. input \in Seq(Bytes) /\ index \in 0 .. Len(input)
      BY DEF IInv, BufferInv, LexInv
    <2> QED
      BY <1>1, <2>1, EndFacts DEF Delimited
  <1>2. CASE LoopEnds
    <2>1. IsChar /\ IsDelimiter(Peek.c)
      BY <1>2, Zenon DEF LoopEnds, At
    <2>2. PICK c \in Nat : c = Peek.c /\ (c >= 128 \/ Byte(index) = c)
      BY <2>1, CharFacts, Zenon
    <2>3. ~(c >= 128)
      BY <2>1, <2>2, HighFacts, Zenon
    <2>4. index < Len(input)
      BY <2>1, PositionFacts
    <2> QED
      BY <2>1, <2>2, <2>3, <2>4, Zenon DEF Delimited
  <1> QED
    BY <1>1, <1>2

\* A symbol or number is returned.
LEMMA AtomLeft ==
    ASSUME IInv, TextInv, NEW pc \in {"symbol", "atom"}, At(pc),
           UNCHANGED parser, UNCHANGED buffer, UNCHANGED <<index, context>>,
           LoopEnds \/ Peek = EndOfInput,
           NEW type \in {"SYMBOL", "NUMBER"}, ReturnToken(type, lex.start, lex.errors),
           type = "NUMBER" <=> WrittenAsNumber(lex.start, index)
    PROVE  TextInv'
  <1>1. PICK j \in Nat, s \in Nat :
          /\ j = index /\ s = lex.start /\ s < j /\ NoDelimiter(s, j)
    BY AtomFacts, Zenon
  <1>2. PICK e \in Nat : e = LastEnd /\ e <= s /\ Blank(e, s)
    BY <1>1, AtomFacts, Zenon
  <1>3. PICK n : n = lex.errors
    OBVIOUS
  <1>4. /\ Reading /\ index' \in Nat /\ index <= index' /\ s <= index'
        /\ context' = context
    BY <1>1, AtomFacts
  <1>5. lex'.pc = "done" /\ token'.type = type /\ ReturnToken(type, s, n)
    BY <1>1, <1>3 DEF ReturnToken, Idle
  <1>6. GapInv'
    BY <1>1, <1>2, <1>4, <1>5, GapDone, Zenon
  <1>7. TrailInv'
    <2>1. type # "RIGHT_PAREN"
      OBVIOUS
    <2> QED
      BY <1>4, <1>5, <2>1, TrailKept, RemarkOver, Zenon
  <1>8. AtomInv'
    <2>1. Delimited
      BY AtomEnds
    <2>2. type = "NUMBER" <=> WrittenAsNumber(s, j)
      BY <1>1, Zenon
    <2> QED
      BY <1>1, <1>5, <2>1, <2>2, AtomDone, Zenon
  <1> QED
    BY <1>4, <1>6, <1>7, <1>8, LexerStays, Zenon DEF TextInv

LEMMA LexSymbolText ==
    ASSUME IInv, TextInv, LexSymbol, UNCHANGED parser
    PROVE  TextInv'
  <1>1. At("symbol") /\ UNCHANGED buffer
    BY DEF LexSymbol
  <1>2. /\ lex.pc = "symbol" /\ IsLex(lex) /\ lex.start \in Nat /\ index \in Nat
        /\ lex.start < index /\ NoDelimiter(lex.start, index) /\ Byte(lex.start) >= 128
    BY <1>1, AtomFacts
  <1>3. CASE IsChar /\ ~LoopEnds /\ Take(lex) /\ NoError /\ UNCHANGED token
    <2>1. PICK k \in Nat : k = index' /\ index <= k /\ NoDelimiter(lex.start, k) /\ lex' = lex
      BY <1>1, <1>3, AtomTakes, Zenon DEF Take
    <2> QED
      BY <1>1, <1>2, <1>3, <2>1, AtomContinues, Zenon
  <1>4. CASE /\ LoopEnds \/ Peek = EndOfInput
             /\ UNCHANGED <<index, context>>
             /\ ReturnToken("SYMBOL", lex.start, lex.errors)
    <2>1. ~WrittenAsNumber(lex.start, index)
      <3>1. PICK s \in Nat, b \in Nat, j \in Nat :
              s = lex.start /\ b = Byte(s) /\ b >= 128 /\ j = index /\ s < j
        <4>1. \A b \in 0 .. 255 : b \in Nat
          OBVIOUS
        <4>2. lex.start < Len(input)
          <5>1. index <= Len(input) /\ Len(input) \in Nat
            BY PositionFacts
          <5> QED
            BY <1>2, <5>1
        <4>3. Byte(lex.start) \in 0 .. 255
          BY <1>2, <4>2, ByteFacts, Zenon
        <4> QED
          BY <1>2, <4>1, <4>3, Zenon
      <3>2. s \in s .. j - 1
        BY <3>1
      <3>3. ~OnlyNumeric(s, j)
        BY <3>1, <3>2, HighFacts, Zenon DEF OnlyNumeric
      <3> QED
        BY <3>1, <3>3, Zenon DEF WrittenAsNumber
    <2>2. "SYMBOL" # "NUMBER"
      OBVIOUS
    <2> QED
      BY <1>1, <1>4, <2>1, <2>2, AtomLeft, Zenon
  <1>5. CASE SkipThen("symbol", lex)
    <2>1. PICK l : l = lex'
      OBVIOUS
    <2>2. /\ l.pc = "skip" /\ l.resume = "symbol" /\ l.bad = index /\ l.start = lex.start
          /\ index' = index /\ NoError /\ UNCHANGED token
      BY <1>2, <1>5, <2>1 DEF SkipThen, Stay, IsLex
    <2>3. index' \in Nat /\ index <= index' /\ NoDelimiter(lex.start, index')
      BY <1>2, <2>2
    <2> QED
      BY <1>1, <2>1, <2>2, <2>3, AtomContinues, Zenon
  <1> QED
    BY <1>3, <1>4, <1>5, Zenon DEF LexSymbol

\* The variables of the loop after another character.
LEMMA CountedFacts ==
    ASSUME NEW i \in Nat, NEW j \in Nat, NEW k \in Nat, i < j, j < k,
           NEW c \in Nat, Spells(j, k, c),
           NEW l, l.pc = "atom", Flags(l, i, j),
           NEW m, m.pc = "atom",
           m.dots = l.dots + (IF c = Period THEN 1 ELSE 0),
           m.numeric = (l.numeric /\ IsNumericContinue(c)),
           m.digit = (l.digit \/ IsDigit(c))
    PROVE  Flags(m, i, k)
  <1>1. i <= j
    OBVIOUS
  <1>2. /\ NoPeriod(i, k) <=> NoPeriod(i, j) /\ c # Period
        /\ SomeDigit(i, k) <=> SomeDigit(i, j) \/ IsDigit(c)
        /\ OnePeriod(i, k) <=> OnePeriod(i, j) /\ (c = Period => NoPeriod(i, j))
        /\ OnlyNumeric(i, k) <=> OnlyNumeric(i, j) /\ IsNumericContinue(c)
    BY <1>1, NoneGrows, Zenon
  <1>3. PICK dots \in Nat : dots = l.dots
    BY DEF Flags
  <1>4. /\ dots = 0 <=> NoPeriod(i, j)
        /\ dots <= 1 <=> OnePeriod(i, j)
        /\ l.digit <=> SomeDigit(i, j)
        /\ l.numeric <=> OnlyNumeric(i, j)
    BY <1>3, Zenon DEF Flags
  <1>5. CASE c = Period
    <2>1. m.dots = dots + 1
      BY <1>3, <1>5
    <2>2. /\ m.dots \in Nat /\ ~(m.dots = 0)
          /\ (m.dots <= 1 => dots = 0) /\ (dots = 0 => m.dots <= 1)
          /\ (dots = 0 => dots <= 1)
      BY <2>1
    <2>3. (m.dots = 0 <=> NoPeriod(i, k)) /\ (m.dots <= 1 <=> OnePeriod(i, k))
      BY <1>2, <1>4, <1>5, <2>2, Zenon
    <2> QED
      BY <1>2, <1>4, <2>2, <2>3, Zenon DEF Flags
  <1>6. CASE c # Period
    <2>1. m.dots = dots
      BY <1>3, <1>6
    <2>2. (m.dots = 0 <=> NoPeriod(i, k)) /\ (m.dots <= 1 <=> OnePeriod(i, k))
      BY <1>2, <1>4, <1>6, <2>1, Zenon
    <2> QED
      BY <1>2, <1>4, <2>1, <2>2, Zenon DEF Flags
  <1> QED
    BY <1>5, <1>6

LEMMA LexAtomText ==
    ASSUME IInv, TextInv, LexAtom, UNCHANGED parser
    PROVE  TextInv'
  <1>1. At("atom") /\ UNCHANGED buffer
    BY DEF LexAtom
  <1>2. /\ lex.pc = "atom" /\ IsLex(lex) /\ lex.start \in Nat /\ index \in Nat
        /\ lex.start < index /\ NoDelimiter(lex.start, index)
        /\ Flags(lex, lex.start, index)
    BY <1>1, AtomFacts
  <1>3. CASE /\ IsChar /\ ~LoopEnds
             /\ Take(Counted(lex, Peek.c)) /\ NoError /\ UNCHANGED token
    <2>1. PICK k \in Nat, c \in Nat :
            /\ c = Peek.c /\ k = index + Peek.width /\ index < k /\ index <= k
            /\ Spells(index, k, c) /\ NoDelimiter(lex.start, k)
      BY <1>1, <1>3, AtomTakes, Zenon
    <2>2. PICK m : m = Counted(lex, c) /\ lex' = m /\ index' = k
      BY <1>3, <2>1 DEF Take
    <2>3. /\ m.pc = "atom" /\ m.start = lex.start
          /\ m.dots = lex.dots + (IF c = Period THEN 1 ELSE 0)
          /\ m.numeric = (lex.numeric /\ IsNumericContinue(c))
          /\ m.digit = (lex.digit \/ IsDigit(c))
      BY <1>2, <2>2, Zenon DEF Counted, IsLex
    <2>4. Flags(m, lex.start, k)
      <3>1. PICK i \in Nat, j \in Nat : i = lex.start /\ j = index
        BY <1>2, Zenon
      <3>2. /\ i < j /\ j < k /\ Spells(j, k, c)
            /\ lex.pc = "atom" /\ Flags(lex, i, j)
        BY <1>2, <2>1, <3>1, Zenon
      <3>3. Flags(m, i, k)
        BY <2>3, <3>2, CountedFacts, Zenon
      <3> QED
        BY <3>1, <3>3, Zenon
    <2> QED
      BY <1>1, <1>3, <2>1, <2>2, <2>3, <2>4, AtomContinues, Zenon
  <1>4. CASE /\ LoopEnds \/ Peek = EndOfInput
             /\ UNCHANGED <<index, context>>
             /\ ReturnToken(IF lex.numeric /\ lex.dots <= 1 /\ lex.digit
                            THEN "NUMBER" ELSE "SYMBOL", lex.start, lex.errors)
    <2>1. PICK type \in {"SYMBOL", "NUMBER"} :
            /\ ReturnToken(type, lex.start, lex.errors)
            /\ type = "NUMBER" <=> lex.numeric /\ lex.dots <= 1 /\ lex.digit
      BY <1>4, Zenon
    <2>2. lex.numeric /\ lex.dots <= 1 /\ lex.digit <=> WrittenAsNumber(lex.start, index)
      BY <1>2, Zenon DEF Flags, WrittenAsNumber
    <2> QED
      BY <1>1, <1>4, <2>1, <2>2, AtomLeft, Zenon
  <1>5. CASE SkipThen("atom", [lex EXCEPT !.numeric = FALSE])
    <2>1. PICK l : l = lex'
      OBVIOUS
    <2>2. /\ l.pc = "skip" /\ l.resume = "atom" /\ l.bad = index /\ l.start = lex.start
          /\ l.numeric = FALSE /\ l.digit = lex.digit /\ l.dots = lex.dots
          /\ index' = index /\ NoError /\ UNCHANGED token
      BY <1>2, <1>5, <2>1 DEF SkipThen, Stay, IsLex
    <2>3. ~(l.bad < index)
      BY <1>2, <2>2
    <2>4. Flags(l, lex.start, index)
      BY <1>2, <2>2, <2>3, Zenon DEF Flags
    <2>5. /\ index' \in Nat /\ index <= index' /\ NoDelimiter(lex.start, index')
          /\ Flags(l, lex.start, index')
      BY <1>2, <2>2, <2>4
    <2> QED
      BY <1>1, <2>1, <2>2, <2>5, AtomContinues, Zenon
  <1> QED
    BY <1>3, <1>4, <1>5, Zenon DEF LexAtom

LEMMA LexerStepText ==
    ASSUME IInv, TextInv, LexerStep, UNCHANGED parser
    PROVE  TextInv'
  BY GetInputText, GrowFailsText, SkipInvalidText, AssertionFailsText, BeginText,
     SkipBlankText, SkipCommentText, LexSymbolText, LexAtomText, LexStringText,
     LexSuffixText, LexEscapeText, LexUnicodeText, LexDigitsText, LexHexText, Zenon
     DEF LexerStep

-----------------------------------------------------------------------------
(***************************************************************************)
(* The parser's steps: the tokens taken.                                   *)
(***************************************************************************)
LEMMA Appended ==
    ASSUME NEW s, IsStack(s), NEW e
    PROVE  /\ IsStack(Append(s, e)) /\ Append(s, e) # <<>>
           /\ Append(s, e)[Len(Append(s, e))] = e
           /\ \A i \in DOMAIN Append(s, e) :
                Append(s, e)[i] = e \/ (i \in DOMAIN s /\ Append(s, e)[i] = s[i])
  <1> DEFINE S == {s[i] : i \in DOMAIN s} \cup {e}
             t == Append(s, e)
  <1>1. s \in Seq(S) /\ e \in S
    <2>1. \A T, U : T \subseteq U => Seq(T) \subseteq Seq(U)
      BY SeqMonotonic
    <2>2. s \in Seq({s[i] : i \in DOMAIN s}) /\ {s[i] : i \in DOMAIN s} \subseteq S
      BY StackFacts
    <2> QED
      BY <2>1, <2>2
  <1> HIDE DEF S
  <1>2. /\ t \in Seq(S)
        /\ DOMAIN t = 1 .. Len(s) + 1
        /\ \A k \in 1 .. Len(s) : t[k] = s[k]
        /\ t[Len(s) + 1] = e
    BY <1>1, PushFacts
  <1> HIDE DEF t
  <1>3. Len(s) \in Nat /\ DOMAIN s = 1 .. Len(s) /\ Len(t) \in Nat /\ DOMAIN t = 1 .. Len(t)
    BY <1>1, <1>2, LenProperties
  <1>4. Len(t) = Len(s) + 1
    BY <1>2, <1>3
  <1>5. IsStack(t) /\ t # <<>> /\ t[Len(t)] = e
    BY <1>2, <1>3, <1>4, IsStackFacts, StackFacts
  <1>6. \A i \in DOMAIN t : t[i] = e \/ (i \in DOMAIN s /\ t[i] = s[i])
    BY <1>2, <1>3, <1>4
  <1> QED
    BY <1>5, <1>6 DEF t

\* The lexer is not called.
LEMMA IdleText ==
    ASSUME lex'.pc = "idle", NEW e \in Nat, LastEnd' = e, e <= index',
           has_peeked' \/ e = index',
           has_peeked' => e <= peeked'.index /\ peeked'.index + peeked'.length = index'
    PROVE  GapInv' /\ AtomInv'
  <1>1. "idle" \notin Consumed /\ "idle" \notin Inside
    BY DEF Consumed, Inside
  <1>2. GapInv'
    BY <1>1, Zenon DEF GapInv, Between, In, Begun
  <1>3. AtomInv'
    BY NoAtom, Zenon
  <1> QED
    BY <1>2, <1>3

LEMMA IdleFacts ==
    ASSUME IInv, TextInv, lex.pc = "idle"
    PROVE  /\ index \in Nat /\ LastEnd \in Nat /\ LastEnd <= index
           /\ has_peeked \in BOOLEAN
           /\ has_peeked \/ LastEnd = index
           /\ has_peeked => LastEnd <= peeked.index /\ peeked.index + peeked.length = index
           /\ peeked \in Tokens
           /\ HistoryInv /\ TrailInv
  BY PositionFacts, Zenon DEF TextInv, GapInv, IInv, PeekedInv, TokenInv

\* The errors of a form that goes on.
LEMMA NotTrailing ==
    ASSUME at' \notin {"next", "end"},
           at' = "sexpr" => stack' # <<>> \/ peeked'.type # "END",
           at' = "return" => stack' # <<>> \/ ret'.ok
    PROVE  TrailInv'
  BY Zenon DEF TrailInv, Trailing

\* No token is taken.
LEMMA TokensKept ==
    ASSUME IInv, TextInv, lex.pc = "idle", lex' = lex, index' = index,
           UNCHANGED <<has_peeked, peeked, taken, results>>,
           at' # "drive",
           stack' # <<>> \/ at' \in {"list", "wrap"} => taken # <<>>,
           at' = "return" /\ ret'.ok => taken # <<>>
    PROVE  HistoryInv' /\ GapInv' /\ AtomInv' /\ LastEnd' = LastEnd
  <1>1. /\ has_peeked' = has_peeked /\ peeked' = peeked /\ taken' = taken
        /\ results' = results
    OBVIOUS
  <1>2. HistoryInv'
    BY <1>1, IdleFacts, Zenon DEF HistoryInv
  <1>3. LastEnd' = LastEnd
    BY <1>1, Zenon DEF LastEnd
  <1>4. GapInv' /\ AtomInv'
    <2>1. PICK e \in Nat : e = LastEnd
      BY IdleFacts
    <2>2. /\ e <= index' /\ LastEnd' = e /\ lex'.pc = "idle"
          /\ has_peeked' \/ e = index'
          /\ has_peeked' => e <= peeked'.index /\ peeked'.index + peeked'.length = index'
      BY <1>1, <1>3, <2>1, IdleFacts
    <2> QED
      BY <2>1, <2>2, IdleText, Zenon
  <1> QED
    BY <1>2, <1>3, <1>4

LEMMA TokenTaken ==
    ASSUME IInv, TextInv, has_peeked, NEW type, TakeToken(type),
           lex' = lex, index' = index, results' = results, at' # "drive"
    PROVE  HistoryInv' /\ GapInv' /\ AtomInv'
  <1>1. lex.pc = "idle"
    BY ParserFacts
  <1>2. PICK t \in Tokens : t = peeked /\ t.index + t.length = index
    BY <1>1, IdleFacts, Zenon
  <1>3. PICK old : old = taken /\ IsStack(old) /\ \A i \in DOMAIN old : old[i] \in Tokens
    BY <1>1, IdleFacts, Zenon DEF HistoryInv
  <1>4. PICK new : new = Append(old, t) /\ new = taken'
    BY <1>2, <1>3 DEF TakeToken
  <1>5. /\ IsStack(new) /\ new # <<>> /\ new[Len(new)] = t
        /\ \A i \in DOMAIN new : new[i] \in Tokens
    <2>1. /\ IsStack(Append(old, t)) /\ Append(old, t) # <<>>
          /\ Append(old, t)[Len(Append(old, t))] = t
          /\ \A i \in DOMAIN Append(old, t) :
               Append(old, t)[i] = t \/ (i \in DOMAIN old /\ Append(old, t)[i] = old[i])
      BY <1>3, Appended
    <2>2. /\ IsStack(new) /\ new # <<>> /\ new[Len(new)] = t
          /\ \A i \in DOMAIN new : new[i] = t \/ (i \in DOMAIN old /\ new[i] = old[i])
      BY <1>4, <2>1
    <2>3. \A i \in DOMAIN new : new[i] \in Tokens
      BY <1>3, <2>2, Zenon
    <2> QED
      BY <2>2, <2>3
  <1>6. IsStack(results')
    BY <1>1, IdleFacts, Zenon DEF HistoryInv
  <1>7. HistoryInv'
    BY <1>4, <1>5, <1>6, Zenon DEF HistoryInv
  <1>8. LastEnd' = t.index + t.length
    BY <1>4, <1>5, Zenon DEF LastEnd
  <1>9. has_peeked' = FALSE
    BY DEF TakeToken
  <1>10. PICK e \in Nat : e = index /\ LastEnd' = e /\ e = index' /\ e <= e
    BY <1>1, <1>2, <1>8, IdleFacts
  <1>11. GapInv' /\ AtomInv'
    BY <1>1, <1>9, <1>10, IdleText, Zenon
  <1> QED
    BY <1>7, <1>11

-----------------------------------------------------------------------------
(***************************************************************************)
(* The parser's steps: the look-ahead and parser_next_sexpr.               *)
(***************************************************************************)
LEMMA PeekTokenText ==
    ASSUME IInv, TextInv, PeekToken
    PROVE  TextInv'
  <1>1. /\ at \in Peeks /\ ~has_peeked /\ lex.pc = "idle" /\ UNCHANGED parser
        /\ lex'.pc = "start" /\ index' = index /\ context' = context
    BY DEF PeekToken, Idle
  <1>2. /\ has_peeked' = has_peeked /\ peeked' = peeked /\ at' = at /\ stack' = stack
        /\ ret' = ret /\ results' = results /\ taken' = taken
    BY <1>1 DEF parser
  <1>3. HistoryInv'
    BY <1>2, Zenon DEF TextInv, HistoryInv
  <1>4. LastEnd' = LastEnd
    BY <1>2, Zenon DEF LastEnd
  <1>5. PICK e \in Nat : e = LastEnd /\ LastEnd' = e /\ e = index /\ e = index' /\ e <= e
    BY <1>1, <1>4, IdleFacts
  <1>6. GapInv'
    <2>1. \A p : p \notin e .. e - 1
      OBVIOUS
    <2>2. Blank(LastEnd, index)'
      BY <1>5, <2>1, Zenon DEF Blank
    <2>3. "start" \notin Consumed /\ "start" \notin Inside
      BY DEF Consumed, Inside
    <2> QED
      BY <1>1, <1>2, <1>5, <2>2, <2>3, Zenon DEF GapInv, Between, In, Begun
  <1>7. TrailInv'
    <2>1. at = "next" => context = <<>>
      BY <1>1, Zenon DEF TextInv, TrailInv, RemarkInv
    <2>2. at = "next" => RemarkInv'
      BY <1>1, <2>1, Zenon DEF RemarkInv
    <2>3. Trailing' => Trailing
      BY <1>2, Zenon DEF Trailing
    <2> QED
      BY <1>1, <1>2, <1>4, <2>2, <2>3, Zenon DEF TextInv, TrailInv
  <1>8. AtomInv'
    BY <1>1, NoAtom, Zenon
  <1> QED
    BY <1>3, <1>6, <1>7, <1>8 DEF TextInv

LEMMA StorePeekedText ==
    ASSUME IInv, TextInv, StorePeeked
    PROVE  TextInv'
  <1>1. /\ lex.pc = "done" /\ lex'.pc = "idle" /\ has_peeked' = TRUE /\ peeked' = token
        /\ index' = index /\ context' = context
        /\ at' = at /\ stack' = stack /\ ret' = ret /\ results' = results /\ taken' = taken
    BY DEF StorePeeked, Idle
  <1>2. at \in Peeks /\ ~has_peeked /\ ~(at = "sexpr" /\ stack = <<>>)
    BY <1>1, Zenon DEF IInv, PeekedInv, AtInv
  <1>3. HistoryInv'
    BY <1>1, Zenon DEF TextInv, HistoryInv
  <1>4. LastEnd' = LastEnd
    BY <1>1, Zenon DEF LastEnd
  <1>5. PICK e \in Nat : /\ e = LastEnd /\ LastEnd' = e /\ e <= index'
                         /\ e <= token.index /\ token.index + token.length = index
    BY <1>1, <1>4, Zenon DEF TextInv, GapInv
  <1>6. GapInv' /\ AtomInv'
    BY <1>1, <1>5, IdleText, Zenon
  <1>7. TrailInv'
    <2>1. at = "next" /\ token.type = "RIGHT_PAREN" => context = <<>>
      BY <1>1, Zenon DEF TextInv, TrailInv, RemarkInv
    <2>2. at = "next" => RemarkInv'
      BY <1>1, <2>1, Zenon DEF RemarkInv
    <2>3. at # "return" /\ at # "end"
      BY <1>2 DEF Peeks
    <2>4. Trailing' => Trailing
      BY <1>1, <1>2, <2>3, Zenon DEF Trailing
    <2> QED
      BY <1>1, <1>4, <2>2, <2>4, Zenon DEF TextInv, TrailInv
  <1> QED
    BY <1>3, <1>6, <1>7 DEF TextInv

LEMMA NextSexprText ==
    ASSUME IInv, TextInv, NextSexpr
    PROVE  TextInv'
  <1>1. /\ at = "drive" /\ at' = "next" /\ context' = <<>> /\ taken' = <<>>
        /\ index' = index /\ lex' = lex /\ has_peeked' = has_peeked /\ peeked' = peeked
        /\ stack' = stack /\ results' = results
    BY DEF NextSexpr
  <1>2. lex.pc = "idle" /\ stack = <<>>
    BY <1>1, ParserFacts DEF AtInv, Peeks
  <1>3. /\ IsStack(results)
        /\ taken = IF results = <<>> THEN <<>> ELSE results[Len(results)].tokens
    BY <1>1, Zenon DEF TextInv, HistoryInv
  <1>4. HistoryInv'
    <2>1. IsStack(<<>>) /\ DOMAIN <<>> = {}
      BY DEF IsStack
    <2> QED
      BY <1>1, <1>2, <1>3, <2>1, Zenon DEF HistoryInv
  <1>5. LastEnd' = LastEnd
    BY <1>1, <1>3, Zenon DEF LastEnd
  <1>6. GapInv' /\ AtomInv'
    <2>1. PICK e \in Nat : e = LastEnd
      BY <1>2, IdleFacts
    <2>2. /\ e <= index' /\ LastEnd' = e /\ lex'.pc = "idle"
          /\ has_peeked' \/ e = index'
          /\ has_peeked' => e <= peeked'.index /\ peeked'.index + peeked'.length = index'
      BY <1>1, <1>2, <1>5, <2>1, IdleFacts
    <2> QED
      BY <2>1, <2>2, IdleText, Zenon
  <1>7. TrailInv'
    <2>1. \A i : i \notin DOMAIN <<>>
      OBVIOUS
    <2>2. RemarkInv'
      BY <1>1, <1>2, Zenon DEF RemarkInv
    <2> QED
      BY <1>1, <2>1, <2>2, Zenon DEF TrailInv
  <1> QED
    BY <1>4, <1>6, <1>7 DEF TextInv

LEMMA SkipRightParenText ==
    ASSUME IInv, TextInv, SkipRightParen
    PROVE  TextInv'
  <1>1. /\ at = "next" /\ has_peeked /\ TakeToken("RIGHT_PAREN")
        /\ peeked.type = "RIGHT_PAREN"
        /\ at' = at /\ lex' = lex /\ index' = index /\ context' = context
        /\ results' = results
    BY DEF SkipRightParen, TakeToken, lexer
  <1>2. lex.pc = "idle"
    BY <1>1, ParserFacts
  <1>3. HistoryInv' /\ GapInv' /\ AtomInv'
    BY <1>1, TokenTaken, Zenon
  <1>4. context = <<>>
    BY <1>1, <1>2, Zenon DEF TextInv, TrailInv, RemarkInv
  <1>5. TrailInv'
    <2>1. \A i : i \notin DOMAIN <<>>
      OBVIOUS
    <2>2. RemarkInv'
      BY <1>1, <1>2, <1>4, Zenon DEF RemarkInv
    <2> QED
      BY <1>1, <1>4, <2>1, <2>2, Zenon DEF TrailInv
  <1> QED
    BY <1>3, <1>5 DEF TextInv

LEMMA ParseFormText ==
    ASSUME IInv, TextInv, ParseForm
    PROVE  TextInv'
  <1>1. /\ at = "next" /\ has_peeked /\ at' = "sexpr"
        /\ UNCHANGED <<has_peeked, peeked, taken, results>>
        /\ lex' = lex /\ index' = index /\ context' = context /\ stack' = stack
    BY DEF ParseForm, lexer
  <1>2. lex.pc = "idle" /\ stack = <<>>
    BY <1>1, ParserFacts DEF AtInv
  <1>3. HistoryInv' /\ GapInv' /\ AtomInv' /\ LastEnd' = LastEnd
    BY <1>1, <1>2, TokensKept
  <1>4. TrailInv'
    BY <1>1, <1>3, Zenon DEF TextInv, TrailInv, Trailing
  <1> QED
    BY <1>3, <1>4 DEF TextInv

LEMMA FinishFormText ==
    ASSUME IInv, TextInv, FinishForm
    PROVE  TextInv'
  <1>1. /\ at = "return" /\ stack = <<>> /\ ret.ok /\ at' = "drive"
        /\ results' = Append(results, Result)
        /\ lex' = lex /\ index' = index /\ has_peeked' = has_peeked /\ peeked' = peeked
        /\ stack' = stack /\ taken' = taken
    BY DEF FinishForm, lexer
  <1>2. lex.pc = "idle" /\ taken # <<>>
    BY <1>1, ParserFacts, Zenon DEF Peeks, TextInv, HistoryInv
  <1>3. PICK r : r = Result /\ r.tokens = taken
    <2>1. Result.tokens = taken
      <3>1. CASE context = <<>>
        <4>1. Result = [ok |-> TRUE, value |-> ret.value, tokens |-> taken]
          BY <3>1, Zenon DEF Result
        <4> QED
          BY <4>1
      <3>2. CASE context # <<>>
        <4>1. Result = [ok |-> FALSE, errors |-> context, tokens |-> taken]
          BY <3>2, Zenon DEF Result
        <4> QED
          BY <4>1
      <3> QED
        BY <3>1, <3>2
    <2> QED
      BY <2>1, Zenon
  <1>4. PICK new : /\ new = results' /\ IsStack(new) /\ new # <<>>
                   /\ new[Len(new)] = r
    <2>1. IsStack(results)
      BY Zenon DEF TextInv, HistoryInv
    <2>2. /\ IsStack(Append(results, r)) /\ Append(results, r) # <<>>
          /\ Append(results, r)[Len(Append(results, r))] = r
      BY <2>1, Appended
    <2> QED
      BY <1>1, <1>3, <2>2
  <1>5. HistoryInv'
    BY <1>1, <1>2, <1>3, <1>4, Zenon DEF TextInv, HistoryInv
  <1>6. LastEnd' = LastEnd
    BY <1>1, <1>2, Zenon DEF LastEnd
  <1>7. GapInv' /\ AtomInv'
    <2>1. PICK e \in Nat : e = LastEnd
      BY <1>2, IdleFacts
    <2>2. /\ e <= index' /\ LastEnd' = e /\ lex'.pc = "idle"
          /\ has_peeked' \/ e = index'
          /\ has_peeked' => e <= peeked'.index /\ peeked'.index + peeked'.length = index'
      BY <1>1, <1>2, <1>6, <2>1, IdleFacts
    <2> QED
      BY <2>1, <2>2, IdleText, Zenon
  <1>8. TrailInv'
    BY <1>1, NotTrailing, Zenon
  <1> QED
    BY <1>5, <1>7, <1>8 DEF TextInv

LEMMA FinishInputText ==
    ASSUME IInv, TextInv, FinishInput
    PROVE  TextInv'
  <1>1. /\ at = "return" /\ stack = <<>> /\ ~ret.ok /\ at' = "end"
        /\ UNCHANGED <<has_peeked, peeked, taken, results>>
        /\ lex' = lex /\ index' = index /\ context' = context /\ stack' = stack
    BY DEF FinishInput, lexer
  <1>2. lex.pc = "idle"
    BY <1>1, ParserFacts DEF Peeks
  <1>3. HistoryInv' /\ GapInv' /\ AtomInv' /\ LastEnd' = LastEnd
    BY <1>1, <1>2, TokensKept
  <1>4. TrailInv'
    BY <1>1, <1>3, Zenon DEF TextInv, TrailInv, Trailing
  <1> QED
    BY <1>3, <1>4 DEF TextInv

-----------------------------------------------------------------------------
(***************************************************************************)
(* The parser's steps: parser_parse_sexpr and the functions it calls.      *)
(***************************************************************************)
LEMMA ParseSExprText ==
    ASSUME IInv, TextInv, ParseSExpr
    PROVE  TextInv'
  <1>1. /\ at = "sexpr" /\ has_peeked
        /\ UNCHANGED <<has_peeked, peeked, taken, results>>
        /\ lex' = lex /\ index' = index /\ context' = context /\ stack' = stack
    BY DEF ParseSExpr, KeepToken, lexer
  <1>2. lex.pc = "idle"
    BY <1>1, ParserFacts
  <1>3. stack # <<>> => taken # <<>>
    BY Zenon DEF TextInv, HistoryInv
  <1>4. CASE at' \in {"open_list", "quote", "atom"}
    <2>1. at' \notin {"drive", "list", "wrap", "return", "next", "end", "sexpr"}
      BY <1>4
    <2>2. HistoryInv' /\ GapInv' /\ AtomInv'
      BY <1>1, <1>2, <1>3, <2>1, TokensKept
    <2>3. TrailInv'
      BY <2>1, NotTrailing, Zenon
    <2> QED
      BY <2>2, <2>3 DEF TextInv
  <1>5. CASE peeked.type \in {"RIGHT_PAREN", "END"} /\ Return(Failed)
    <2>1. at' = "return" /\ ~ret'.ok
      BY <1>5 DEF Return, Failed
    <2>2. HistoryInv' /\ GapInv' /\ AtomInv' /\ LastEnd' = LastEnd
      BY <1>1, <1>2, <1>3, <2>1, TokensKept
    <2>3. stack = <<>> => peeked.type = "END"
      BY <1>1, <1>5, Zenon DEF IInv, AtInv
    <2>4. Trailing' => Trailing
      BY <1>1, <2>1, <2>3, Zenon DEF Trailing
    <2>5. TrailInv'
      BY <1>1, <2>1, <2>2, <2>4, Zenon DEF TextInv, TrailInv
    <2> QED
      BY <2>2, <2>5 DEF TextInv
  <1> QED
    BY <1>4, <1>5, Zenon DEF ParseSExpr

\* A token is taken inside a form.
LEMMA TakenText ==
    ASSUME IInv, TextInv, has_peeked, NEW type, TakeToken(type),
           lex' = lex, index' = index, results' = results,
           \/ at' = "list"
           \/ at' = "sexpr" /\ stack' # <<>>
           \/ at' = "return" /\ ret'.ok
    PROVE  TextInv'
  <1>1. HistoryInv' /\ GapInv' /\ AtomInv'
    <2>1. at' # "drive"
      OBVIOUS
    <2> QED
      BY <2>1, TokenTaken, Zenon
  <1>2. TrailInv'
    BY NotTrailing, Zenon
  <1> QED
    BY <1>1, <1>2 DEF TextInv

\* None is.
LEMMA KeptText ==
    ASSUME IInv, TextInv, lex.pc = "idle", lex' = lex, index' = index,
           KeepToken, results' = results, taken # <<>>,
           \/ at' \in {"list", "wrap"}
           \/ at' = "sexpr" /\ stack' # <<>>
           \/ at' = "return" /\ ret'.ok
    PROVE  TextInv'
  <1>1. at' # "drive" /\ UNCHANGED <<has_peeked, peeked, taken, results>>
    BY DEF KeepToken
  <1>2. HistoryInv' /\ GapInv' /\ AtomInv'
    BY <1>1, TokensKept
  <1>3. TrailInv'
    BY NotTrailing, Zenon
  <1> QED
    BY <1>2, <1>3 DEF TextInv

LEMMA ParseAtomText ==
    ASSUME IInv, TextInv, ParseAtom
    PROVE  TextInv'
  <1>1. /\ lex' = lex /\ index' = index /\ results' = results
        /\ at' = "return" /\ ret'.ok
    BY DEF ParseAtom, Return, Ok, lexer
  <1>2. PICK type : TakeToken(type) /\ has_peeked
    BY DEF ParseAtom, TakeToken
  <1> QED
    BY <1>1, <1>2, TakenText, Zenon

LEMMA OpenListText ==
    ASSUME IInv, TextInv, OpenList
    PROVE  TextInv'
  <1>1. /\ lex' = lex /\ index' = index /\ results' = results /\ at' = "list"
        /\ TakeToken("LEFT_PAREN") /\ has_peeked
    BY DEF OpenList, TakeToken, lexer
  <1> QED
    BY <1>1, TakenText, Zenon

LEMMA OpenQuoteText ==
    ASSUME IInv, TextInv, OpenQuote
    PROVE  TextInv'
  <1>1. /\ lex' = lex /\ index' = index /\ results' = results /\ at' = "sexpr"
        /\ TakeToken("SINGLE_QUOTE") /\ has_peeked
        /\ stack' = <<[k |-> "quote", start |-> peeked.index, items |-> <<>>]>> \o stack
    BY DEF OpenQuote, TakeToken, lexer
  <1>2. stack' # <<>>
    <2>1. IsStack(stack)
      BY DEF IInv, StackInv, StackBefore
    <2>2. PICK f : f = [k |-> "quote", start |-> peeked.index, items |-> <<>>]
      OBVIOUS
    <2>3. IsStack(<<f>> \o stack) /\ Len(<<f>> \o stack) = Len(stack) + 1
      BY <2>1, StackPushed
    <2>4. Len(<<f>> \o stack) > 0
      BY <2>1, <2>3, StackFacts
    <2>5. <<f>> \o stack # <<>>
      BY <2>3, <2>4, StackFacts
    <2> QED
      BY <1>1, <2>2, <2>5
  <1> QED
    BY <1>1, <1>2, TakenText, Zenon

LEMMA CloseListText ==
    ASSUME IInv, TextInv, CloseList
    PROVE  TextInv'
  <1>1. /\ lex' = lex /\ index' = index /\ results' = results
        /\ at' = "return" /\ ret'.ok /\ TakeToken("RIGHT_PAREN") /\ has_peeked
    BY DEF CloseList, TakeToken, Return, Ok, lexer
  <1> QED
    BY <1>1, TakenText, Zenon

LEMMA UnterminatedListText ==
    ASSUME IInv, TextInv, UnterminatedList
    PROVE  TextInv'
  <1>1. /\ at = "list" /\ has_peeked /\ lex' = lex /\ index' = index /\ results' = results
        /\ at' = "return" /\ ret'.ok /\ KeepToken
    BY DEF UnterminatedList, Return, Ok
  <1>2. lex.pc = "idle" /\ taken # <<>>
    BY <1>1, ParserFacts, Zenon DEF TextInv, HistoryInv
  <1> QED
    BY <1>1, <1>2, KeptText, Zenon

LEMMA NextElementText ==
    ASSUME IInv, TextInv, NextElement
    PROVE  TextInv'
  <1>1. /\ at = "list" /\ has_peeked /\ lex' = lex /\ index' = index /\ results' = results
        /\ at' = "sexpr" /\ stack' = stack /\ KeepToken
    BY DEF NextElement, lexer
  <1>2. lex.pc = "idle" /\ taken # <<>> /\ stack' # <<>>
    BY <1>1, ParserFacts, Zenon DEF TextInv, HistoryInv, AtInv
  <1> QED
    BY <1>1, <1>2, KeptText, Zenon

LEMMA AppendElementText ==
    ASSUME IInv, TextInv, AppendElement
    PROVE  TextInv'
  <1>1. /\ at = "return" /\ stack # <<>> /\ lex' = lex /\ index' = index
        /\ results' = results /\ at' = "list" /\ KeepToken
    BY DEF AppendElement, lexer
  <1>2. lex.pc = "idle" /\ taken # <<>>
    BY <1>1, ParserFacts, Zenon DEF TextInv, HistoryInv, Peeks
  <1> QED
    BY <1>1, <1>2, KeptText, Zenon

LEMMA QuoteOperandText ==
    ASSUME IInv, TextInv, QuoteOperand
    PROVE  TextInv'
  <1>1. /\ at = "return" /\ stack # <<>> /\ lex' = lex /\ index' = index
        /\ results' = results /\ at' = "wrap" /\ KeepToken
    BY DEF QuoteOperand
  <1>2. lex.pc = "idle" /\ taken # <<>>
    BY <1>1, ParserFacts, Zenon DEF TextInv, HistoryInv, Peeks
  <1> QED
    BY <1>1, <1>2, KeptText, Zenon

LEMMA CloseQuoteText ==
    ASSUME IInv, TextInv, CloseQuote
    PROVE  TextInv'
  <1>1. /\ at = "wrap" /\ lex' = lex /\ index' = index /\ results' = results
        /\ at' = "return" /\ ret'.ok /\ KeepToken
    BY DEF CloseQuote, Return, Ok, lexer
  <1>2. lex.pc = "idle" /\ taken # <<>>
    BY <1>1, ParserFacts, Zenon DEF TextInv, HistoryInv, Peeks
  <1> QED
    BY <1>1, <1>2, KeptText, Zenon

LEMMA ParserStepText ==
    ASSUME IInv, TextInv, ParserStep
    PROVE  TextInv'
  BY PeekTokenText, StorePeekedText, NextSexprText, SkipRightParenText, ParseFormText,
     FinishFormText, FinishInputText, ParseSExprText, ParseAtomText, OpenListText,
     UnterminatedListText, NextElementText, AppendElementText, CloseListText,
     OpenQuoteText, QuoteOperandText, CloseQuoteText
     DEF ParserStep

-----------------------------------------------------------------------------
(***************************************************************************)
(* TextInv is inductive, with IInv.                                        *)
(***************************************************************************)
LEMMA InitText ==
    ASSUME Init
    PROVE  TextInv
  <1>1. /\ index = 0 /\ lex = Idle /\ context = <<>>
        /\ has_peeked = FALSE /\ at = "drive" /\ stack = <<>>
        /\ results = <<>> /\ taken = <<>>
    BY DEF Init, LexerInit
  <1>2. lex.pc = "idle"
    BY <1>1 DEF Idle
  <1>3. IsStack(taken) /\ DOMAIN taken = {}
    <2>1. <<>> \in Seq({}) /\ DOMAIN <<>> = {}
      OBVIOUS
    <2> QED
      BY <1>1, <2>1, IsStackFacts
  <1>4. HistoryInv
    BY <1>1, <1>3, Zenon DEF HistoryInv
  <1>5. LastEnd = 0
    BY <1>1, Zenon DEF LastEnd
  <1>6. lex.pc \notin Consumed /\ lex.pc \notin Inside
    BY <1>2 DEF Consumed, Inside
  <1>7. GapInv
    <2>1. 0 \in Nat /\ 0 <= 0
      OBVIOUS
    <2> QED
      BY <1>1, <1>2, <1>5, <1>6, <2>1, Zenon DEF GapInv, Between, In, Begun
  <1>8. TrailInv
    BY <1>1, Zenon DEF TrailInv, Trailing
  <1>9. AtomInv
    BY <1>2, Zenon DEF AtomInv, In
  <1> QED
    BY <1>4, <1>7, <1>8, <1>9 DEF TextInv

LEMMA StutterText ==
    ASSUME TextInv, UNCHANGED reader
    PROVE  TextInv'
  <1>1. /\ input' = input /\ open' = open /\ index' = index /\ lex' = lex /\ token' = token
        /\ context' = context /\ has_peeked' = has_peeked /\ peeked' = peeked
        /\ at' = at /\ stack' = stack /\ ret' = ret /\ results' = results /\ taken' = taken
    BY DEF reader, lexer, parser, buffer
  <1>2. LastEnd' = LastEnd /\ AtTheEnd' = AtTheEnd
    BY <1>1, Zenon DEF LastEnd, AtTheEnd
  <1>3. HistoryInv'
    BY <1>1, Zenon DEF TextInv, HistoryInv
  <1>4. GapInv'
    BY <1>1, <1>2 DEF TextInv, GapInv, Between, In, Begun, Blank, Remark, Byte
  <1>5. TrailInv'
    BY <1>1, <1>2 DEF TextInv, TrailInv, Trailing, RemarkInv
  <1>6. AtomInv'
    BY <1>1, <1>2 DEF TextInv, AtomInv, In, NoDelimiter, Flags, SomeDigit, NoPeriod, OnePeriod,
       OnlyNumeric, WrittenAsNumber, Delimited, Byte
  <1> QED
    BY <1>3, <1>4, <1>5, <1>6 DEF TextInv

LEMMA StepText ==
    ASSUME IInv, TextInv, [Next]_reader
    PROVE  TextInv'
  BY LexerStepText, ParserStepText, StutterText DEF Next, Step, Stopped

\* What lies between the tokens and in them is right for every text.
THEOREM TextHolds == Spec => [](IInv /\ TextInv)
  <1>1. Init => IInv /\ TextInv
    BY InitEstablishes, InitText
  <1>2. IInv /\ TextInv /\ [Next]_reader => IInv' /\ TextInv'
    BY StepKeeps, StepText
  <1> QED
    BY <1>1, <1>2, PTL DEF Spec

-----------------------------------------------------------------------------
(***************************************************************************)
(* What it says of the tokens.                                             *)
(***************************************************************************)
\* The tokens follow each other in the text with nothing but whitespace and comments
\* between them, wherever the lexer restarted, skipped invalid bytes or ran out of
\* input: nothing is lost and nothing is read twice.
THEOREM NothingBetweenTokens == Spec => []GapsAreBlank
  <1>1. TextInv => GapsAreBlank
    <2> SUFFICES ASSUME TextInv, lex.pc = "done"
                 PROVE  token.index >= LastEnd /\ Blank(LastEnd, token.index)
      BY DEF GapsAreBlank
    <2>1. LastEnd <= token.index /\ Blank(LastEnd, token.index)
      BY Zenon DEF TextInv, GapInv
    <2> QED
      BY <2>1
  <1> QED
    BY <1>1, TextHolds, PTL

\* When the input has ended, the errors that parser_next_sexpr drops are about a
\* comment after the last token, never about a form.
THEOREM DroppedErrorsTrail == Spec => []OnlyTrailingErrorsDropped
  <1>1. TextInv => OnlyTrailingErrorsDropped
    <2> SUFFICES ASSUME TextInv, at = "end", NEW i \in DOMAIN context
                 PROVE  context[i].index >= LastEnd
      BY DEF OnlyTrailingErrorsDropped
    <2>1. LastEnd <= context[i].index
      BY Zenon DEF TextInv, TrailInv, Trailing
    <2> QED
      BY <2>1
  <1> QED
    BY <1>1, TextHolds, PTL

LEMMA StretchOf ==
    ASSUME NEW s, NEW a \in Nat, NEW n \in Nat, s \in Seq(Bytes), a + n <= Len(s)
    PROVE  /\ DOMAIN SubSeq(s, a + 1, a + n) = 1 .. n
           /\ \A i \in 1 .. n : SubSeq(s, a + 1, a + n)[i] = s[a + i - 1 + 1]
  <1>1. Len(s) \in Nat /\ a + 1 \in 1 .. Len(s) + 1 /\ a + n \in a .. Len(s)
    BY LenProperties
  <1>2. /\ SubSeq(s, a + 1, a + n) \in Seq(Bytes)
        /\ Len(SubSeq(s, a + 1, a + n)) = n
        /\ \A i \in 1 .. n : SubSeq(s, a + 1, a + n)[i] = s[a + 1 + i - 1]
    BY <1>1, SubSeqProperties
  <1>3. DOMAIN SubSeq(s, a + 1, a + n) = 1 .. n
    BY <1>2, LenProperties
  <1>4. \A i \in 1 .. n : a + 1 + i - 1 = a + i - 1 + 1
    OBVIOUS
  <1> QED
    BY <1>2, <1>3, <1>4

LEMMA PlacesOf ==
    ASSUME NEW a \in Nat, NEW n \in Nat, NEW e, e = a + n
    PROVE  /\ \A p \in a .. e - 1 : p - a + 1 \in 1 .. n /\ a + (p - a + 1) - 1 = p
           /\ \A i \in 1 .. n : a + i - 1 \in a .. e - 1
  OBVIOUS

\* The bytes of a token, one by one.
LEMMA TokenBytesFacts ==
    ASSUME IInv
    PROVE  /\ token.index \in Nat /\ token.length \in Nat
           /\ token.index + token.length <= Len(input)
           /\ token.type # "END" => token.length > 0
           /\ DOMAIN TokenBytes(token) = 1 .. token.length
           /\ \A i \in 1 .. token.length : TokenBytes(token)[i] = Byte(token.index + i - 1)
  <1>1. input \in Seq(Bytes) /\ index \in 0 .. Len(input) /\ TokenInv(token)
    BY DEF IInv, BufferInv, LexInv
  <1>2. /\ token.index \in Nat /\ token.length \in Nat
        /\ token.type # "END" => token.length > 0
    BY <1>1 DEF TokenInv, Tokens
  <1>3. Len(input) \in Nat /\ token.index + token.length <= Len(input)
    BY <1>1, <1>2 DEF TokenInv
  <1>4. PICK a, n \in Nat : a = token.index /\ n = token.length
    BY <1>2
  <1>5. /\ DOMAIN SubSeq(input, a + 1, a + n) = 1 .. n
        /\ \A i \in 1 .. n : SubSeq(input, a + 1, a + n)[i] = input[a + i - 1 + 1]
    <2>1. input \in Seq(Bytes)
      BY <1>1, Zenon
    <2>2. a + n <= Len(input)
      BY <1>3, <1>4
    <2> QED
      BY <2>1, <2>2, StretchOf, Zenon
  <1> QED
    BY <1>2, <1>3, <1>4, <1>5 DEF TokenBytes, Byte

\* A symbol or a number is read whole, up to a delimiter, and is a number exactly when
\* it is written like one.
THEOREM WholeAtoms == Spec => []AtomsAreWhole
  <1>1. IInv /\ TextInv => AtomsAreWhole
    <2> SUFFICES ASSUME IInv, TextInv, lex.pc = "done", token.type \in {"SYMBOL", "NUMBER"}
                 PROVE  /\ TokenBytes(token) # <<>> /\ EndsAtDelimiter(token)
                        /\ \A i \in DOMAIN TokenBytes(token) : ~IsDelimiter(TokenBytes(token)[i])
                        /\ (token.type = "NUMBER") = Numeral(TokenBytes(token))
      BY DEF AtomsAreWhole
    <2>1. PICK s : s = TokenBytes(token)
      OBVIOUS
    <2>2. PICK a \in Nat, n \in Nat \ {0} :
               /\ a = token.index /\ n = token.length /\ DOMAIN s = 1 .. n
               /\ \A i \in 1 .. n : s[i] = Byte(a + i - 1)
      BY <2>1, TokenBytesFacts
    <2>3. /\ index = a + n /\ NoDelimiter(a, index) /\ Delimited
          /\ token.type = "NUMBER" => WrittenAsNumber(a, index)
          /\ WrittenAsNumber(a, index) => token.type = "NUMBER"
      BY <2>2, Zenon DEF TextInv, GapInv, AtomInv
    <2> DEFINE Nth(p) == p - a + 1
    <2>4. /\ \A p \in a .. index - 1 : Nth(p) \in DOMAIN s /\ s[Nth(p)] = Byte(p)
          /\ \A i \in DOMAIN s : a + i - 1 \in a .. index - 1 /\ s[i] = Byte(a + i - 1)
      <3>1. /\ \A p \in a .. index - 1 : Nth(p) \in 1 .. n /\ a + Nth(p) - 1 = p
            /\ \A i \in 1 .. n : a + i - 1 \in a .. index - 1
        BY <2>3, PlacesOf, Zenon
      <3> HIDE DEF Nth
      <3>2. ASSUME NEW p \in a .. index - 1
            PROVE  Nth(p) \in DOMAIN s /\ s[Nth(p)] = Byte(p)
        <4>1. Nth(p) \in 1 .. n /\ a + Nth(p) - 1 = p
          BY <3>1, Zenon
        <4> QED
          BY <2>2, <4>1, Zenon
      <3> QED
        BY <2>2, <3>1, <3>2, Zenon
    <2> HIDE DEF Nth
    <2>5. s # <<>>
      BY <2>2
    <2>6. EndsAtDelimiter(token)
      BY <2>2, <2>3 DEF EndsAtDelimiter, Delimited, AtTheEnd
    <2>7. \A i \in DOMAIN s : ~IsDelimiter(s[i])
      <3> SUFFICES ASSUME NEW i \in DOMAIN s PROVE ~IsDelimiter(s[i])
        OBVIOUS
      <3>1. PICK p \in a .. index - 1 : p = a + i - 1 /\ s[i] = Byte(p)
        BY <2>4, Zenon
      <3> QED
        BY <2>3, <3>1, Zenon DEF NoDelimiter
    <2>8. Numeral(s) => WrittenAsNumber(a, index)
      <3> SUFFICES ASSUME Numeral(s) PROVE WrittenAsNumber(a, index)
        OBVIOUS
      <3>1. SomeDigit(a, index)
        <4>1. PICK i \in DOMAIN s : IsDigit(s[i])
          BY DEF Numeral
        <4>2. a + i - 1 \in a .. index - 1 /\ s[i] = Byte(a + i - 1)
          BY <2>4, Zenon
        <4> QED
          BY <4>1, <4>2, Zenon DEF SomeDigit
      <3>2. OnePeriod(a, index)
        <4> SUFFICES ASSUME NEW p \in a .. index - 1, NEW q \in a .. index - 1,
                            Byte(p) = Period, Byte(q) = Period
                     PROVE  p = q
          BY DEF OnePeriod
        <4>1. Nth(p) = Nth(q)
          BY <2>4, Zenon DEF Numeral
        <4> QED
          BY <4>1 DEF Nth
      <3>3. OnlyNumeric(a, index)
        <4> SUFFICES ASSUME NEW p \in a .. index - 1
                     PROVE  IsNumericContinue(Byte(p)) \/ (p = a /\ Byte(p) \in {43, 45})
          BY DEF OnlyNumeric
        <4>1. IsNumericContinue(Byte(p)) \/ (Nth(p) = 1 /\ Byte(p) \in {43, 45})
          <5>1. PICK i \in DOMAIN s : i = Nth(p) /\ s[i] = Byte(p)
            BY <2>4, Zenon
          <5>2. IsNumericContinue(s[i]) \/ (i = 1 /\ s[i] \in {43, 45})
            BY Zenon DEF Numeral
          <5> QED
            BY <5>1, <5>2, Zenon
        <4>2. Nth(p) = 1 => p = a
          BY DEF Nth
        <4> QED
          BY <4>1, <4>2, Zenon
      <3> QED
        BY <3>1, <3>2, <3>3 DEF WrittenAsNumber
    <2>9. WrittenAsNumber(a, index) => Numeral(s)
      <3> SUFFICES ASSUME WrittenAsNumber(a, index) PROVE Numeral(s)
        OBVIOUS
      <3>1. \E i \in DOMAIN s : IsDigit(s[i])
        <4>1. PICK p \in a .. index - 1 : IsDigit(Byte(p))
          BY DEF WrittenAsNumber, SomeDigit
        <4> QED
          BY <2>4, <4>1, Zenon
      <3>2. \A i \in DOMAIN s : IsNumericContinue(s[i]) \/ (i = 1 /\ s[i] \in {43, 45})
        <4> SUFFICES ASSUME NEW i \in DOMAIN s
                     PROVE  IsNumericContinue(s[i]) \/ (i = 1 /\ s[i] \in {43, 45})
          OBVIOUS
        <4>1. IsNumericContinue(s[i]) \/ (a + i - 1 = a /\ s[i] \in {43, 45})
          <5>1. PICK p \in a .. index - 1 : p = a + i - 1 /\ s[i] = Byte(p)
            BY <2>4, Zenon
          <5>2. IsNumericContinue(Byte(p)) \/ (p = a /\ Byte(p) \in {43, 45})
            BY Zenon DEF WrittenAsNumber, OnlyNumeric
          <5> QED
            BY <5>1, <5>2, Zenon
        <4>2. a + i - 1 = a => i = 1
          BY <2>2
        <4> QED
          BY <4>1, <4>2, Zenon
      <3>3. \A i, j \in DOMAIN s : s[i] = Period /\ s[j] = Period => i = j
        <4> SUFFICES ASSUME NEW i \in DOMAIN s, NEW j \in DOMAIN s,
                            s[i] = Period, s[j] = Period
                     PROVE  i = j
          OBVIOUS
        <4>1. a + i - 1 = a + j - 1
          <5>1. /\ a + i - 1 \in a .. index - 1 /\ Byte(a + i - 1) = Period
                /\ a + j - 1 \in a .. index - 1 /\ Byte(a + j - 1) = Period
            BY <2>4, Zenon
          <5> QED
            BY <5>1, Zenon DEF WrittenAsNumber, OnePeriod
        <4> QED
          BY <2>2, <4>1
      <3> QED
        BY <3>1, <3>2, <3>3, Zenon DEF Numeral
    <2>10. (token.type = "NUMBER") = Numeral(s)
      <3>1. Numeral(s) \in BOOLEAN
        BY Zenon DEF Numeral
      <3> QED
        BY <2>3, <2>8, <2>9, <3>1, Zenon
    <2> QED
      BY <2>1, <2>5, <2>6, <2>7, <2>10, Zenon
  <1> QED
    BY <1>1, TextHolds, PTL

-----------------------------------------------------------------------------
(***************************************************************************)
(* The bytes of a string literal.                                          *)
(***************************************************************************)
LEMMA GreatestElement ==
    ASSUME NEW m \in Nat, NEW T \in SUBSET (0 .. m), T # {}
    PROVE  \E x \in T : \A y \in T : y <= x
  <1> DEFINE U == {m - x : x \in T}
  <1>1. \A x \in T : x \in 0 .. m /\ m - x \in Nat
    OBVIOUS
  <1>2. U \in SUBSET Nat /\ U # {}
    BY <1>1
  <1>3. PICK u \in U : \A v \in U : u <= v
    <2> HIDE DEF U
    <2> QED
      BY <1>2, LeastElement
  <1>4. PICK x \in T : u = m - x
    BY <1>3
  <1>5. ASSUME NEW y \in T
        PROVE  y <= x
    <2>1. m - y \in U
      OBVIOUS
    <2>2. u <= m - y
      BY <1>3, <2>1
    <2> QED
      BY <1>1, <1>4, <2>2
  <1> QED
    BY <1>4, <1>5

Codepoints == (0 .. 55295) \cup (57344 .. 69631)

\* What a number written in an escape is made of.
LEMMA UnicodeFacts ==
    ASSUME NEW z, NEW i \in Nat, NEW m \in Nat, i + 3 <= m
    PROVE  ProperUnicode(z, i, m)
           <=> /\ z[i + 2] = LeftCurly
               /\ \A n \in i + 3 .. m - 1 : IsHexDigit(z[n])
               /\ (m - (i + 3)) % DigitsMod <= 6
               /\ HexNumber(SubSeq(z, i + 3, m - 1)) \in Codepoints
  <1>1. PICK a, b, d : a = i + 3 /\ b = m - 1 /\ d = SubSeq(z, i + 3, m - 1)
    OBVIOUS
  <1>2. d = [k \in 1 .. b - a + 1 |-> z[a + k - 1]] /\ Len(d) = b - a + 1
    <2>1. a \in Int /\ b \in Int /\ b - a + 1 \in Nat /\ b - a + 1 = 1 + b - a
      BY <1>1
    <2>2. d = [k \in 1 .. 1 + b - a |-> z[a + k - 1]]
      BY <1>1
    <2>3. Len(d) = IF a <= b THEN b - a + 1 ELSE 0
      BY <1>1, <2>1, SubSeqProperties
    <2> QED
      BY <2>1, <2>2, <2>3
  <1>3. Len(d) = m - (i + 3)
    BY <1>1, <1>2
  <1>4. (\A n \in DOMAIN d : IsHexDigit(d[n])) <=> \A n \in i + 3 .. m - 1 : IsHexDigit(z[n])
    <2>1. ASSUME \A n \in DOMAIN d : IsHexDigit(d[n]), NEW n \in i + 3 .. m - 1
          PROVE  IsHexDigit(z[n])
      <3>1. n - a + 1 \in 1 .. b - a + 1 /\ a + (n - a + 1) - 1 = n
        BY <1>1
      <3>2. n - a + 1 \in DOMAIN d /\ d[n - a + 1] = z[n]
        BY <1>2, <3>1
      <3> QED
        BY <2>1, <3>2, Zenon
    <2>2. ASSUME \A n \in i + 3 .. m - 1 : IsHexDigit(z[n]), NEW n \in DOMAIN d
          PROVE  IsHexDigit(d[n])
      <3>1. n \in 1 .. b - a + 1 /\ d[n] = z[a + n - 1]
        BY <1>2
      <3>2. a + n - 1 \in i + 3 .. m - 1
        BY <1>1, <3>1
      <3> QED
        BY <2>2, <3>1, <3>2, Zenon
    <2> QED
      BY <2>1, <2>2
  <1>5. ProperUnicode(z, i, m)
        <=> /\ z[i + 2] = LeftCurly
            /\ \A n \in DOMAIN d : IsHexDigit(d[n])
            /\ Len(d) % DigitsMod <= 6
            /\ HexNumber(d) \in Codepoints
    BY <1>1, SMT DEF ProperUnicode, Codepoints
  <1>6. Len(d) % DigitsMod <= 6 <=> (m - (i + 3)) % DigitsMod <= 6
    BY <1>3
  <1>7. HexNumber(d) = HexNumber(SubSeq(z, i + 3, m - 1))
    BY <1>1, Zenon
  <1> QED
    BY <1>4, <1>5, <1>6, <1>7, Zenon

LEMMA UnicodeDigits ==
    ASSUME NEW z, NEW i \in Nat, NEW m \in Nat, i + 3 <= m, ProperUnicode(z, i, m)
    PROVE  z[i + 2] = LeftCurly /\ \A n \in i + 3 .. m - 1 : IsHexDigit(z[n])
  BY UnicodeFacts, Zenon

LEMMA HexFacts ==
    ASSUME NEW c, IsHexDigit(c)
    PROVE  /\ c \in 48 .. 102 /\ c # RightCurly /\ c # LeftCurly /\ c < 128
           /\ c \notin {DoubleQuote, Backslash}
           /\ HexValue(c) \in 0 .. 15
  BY DEF IsHexDigit, IsDigit, RightCurly, LeftCurly, DoubleQuote, Backslash, HexValue

LEMMA SimpleFacts ==
    ASSUME NEW c \in Simple
    PROVE  c \in 0 .. 127 /\ c # 120 /\ c # 117
  BY DEF Simple, DoubleQuote, SingleQuote, Backslash

\* Every item has a byte, and does not begin with a quotation mark.
LEMMA ItemFacts ==
    ASSUME NEW z, NEW i \in Nat, NEW j \in Nat, Item(z, i, j)
    PROVE  i < j /\ z[i] # DoubleQuote
  BY DEF Item, Character, Escaping, DoubleQuote, Backslash, Lead, Trail

LEMMA CharacterOrEscape ==
    ASSUME NEW z, NEW i, NEW j, NEW k, Character(z, i, j), Escaping(z, i, k)
    PROVE  FALSE
  BY DEF Character, Escaping, DoubleQuote, Backslash, Lead, Trail

LEMMA ItemUnique ==
    ASSUME NEW z, NEW i \in Nat, NEW j \in Nat, NEW k \in Nat, Item(z, i, j), Item(z, i, k)
    PROVE  j = k
  <1>1. CASE Character(z, i, j) /\ Character(z, i, k)
    BY <1>1 DEF Character, Lead, Trail
  <1>2. CASE Escaping(z, i, j) /\ Escaping(z, i, k)
    <2>1. CASE z[i + 1] \in Simple
      <3>1. z[i + 1] # 120 /\ z[i + 1] # 117
        BY <2>1, SimpleFacts
      <3> QED
        BY <1>2, <3>1 DEF Escaping
    <2>2. CASE z[i + 1] = 120
      <3>1. z[i + 1] \notin Simple /\ z[i + 1] # 117
        BY <2>2, SimpleFacts
      <3> QED
        BY <1>2, <3>1 DEF Escaping
    <2>3. CASE z[i + 1] = 117
      <3>1. z[i + 1] \notin Simple /\ z[i + 1] # 120
        BY <2>3, SimpleFacts
      <3>2. /\ i + 4 <= j /\ z[j - 1] = RightCurly /\ ProperUnicode(z, i, j - 1)
            /\ i + 4 <= k /\ z[k - 1] = RightCurly /\ ProperUnicode(z, i, k - 1)
        BY <1>2, <3>1 DEF Escaping
      <3>3. /\ \A n \in i + 3 .. j - 2 : IsHexDigit(z[n])
            /\ \A n \in i + 3 .. k - 2 : IsHexDigit(z[n])
        <4>1. /\ j - 1 \in Nat /\ i + 3 <= j - 1 /\ k - 1 \in Nat /\ i + 3 <= k - 1
              /\ j - 1 - 1 = j - 2 /\ k - 1 - 1 = k - 2
          BY <3>2
        <4>2. /\ \A n \in i + 3 .. j - 1 - 1 : IsHexDigit(z[n])
              /\ \A n \in i + 3 .. k - 1 - 1 : IsHexDigit(z[n])
          BY <3>2, <4>1, UnicodeDigits
        <4> QED
          BY <4>1, <4>2
      <3>4. ASSUME j < k PROVE FALSE
        <4>1. j - 1 \in i + 3 .. k - 2
          BY <3>2, <3>4
        <4> QED
          BY <3>2, <3>3, <4>1, HexFacts
      <3>5. ASSUME k < j PROVE FALSE
        <4>1. k - 1 \in i + 3 .. j - 2
          BY <3>2, <3>5
        <4> QED
          BY <3>2, <3>3, <4>1, HexFacts
      <3> QED
        BY <3>4, <3>5
    <2> QED
      BY <1>2, <2>1, <2>2, <2>3 DEF Escaping
  <1> QED
    BY <1>1, <1>2, CharacterOrEscape DEF Item

LEMMA ItemsEnd ==
    ASSUME NEW z, NEW n \in Nat
    PROVE  Items(z, n, n)
  <1>1. {n} \in SUBSET (n .. n)
    OBVIOUS
  <1> QED
    BY <1>1 DEF Items

LEMMA ItemsStep ==
    ASSUME NEW z, NEW i \in Nat, NEW n \in Nat, i < n
    PROVE  Items(z, i, n) <=> \E j \in i + 1 .. n : Item(z, i, j) /\ Items(z, j, n)
  <1>1. ASSUME Items(z, i, n)
        PROVE  \E j \in i + 1 .. n : Item(z, i, j) /\ Items(z, j, n)
    <2>1. PICK P \in SUBSET (i .. n) : /\ i \in P /\ n \in P
                                     /\ \A x \in P : x = n \/ \E y \in P : Item(z, x, y)
      BY <1>1, Zenon DEF Items
    <2>2. PICK j \in P : Item(z, i, j)
      BY <2>1
    <2>3. j \in Nat /\ j \in i + 1 .. n
      BY <2>2, ItemFacts
    <2> DEFINE Q == P \cap (j .. n)
    <2>4. Q \in SUBSET (j .. n) /\ j \in Q /\ n \in Q
      BY <2>1, <2>3
    <2>5. ASSUME NEW x \in Q
          PROVE  x = n \/ \E y \in Q : Item(z, x, y)
      <3>1. x = n \/ \E y \in P : Item(z, x, y)
        BY <2>1
      <3>2. ASSUME NEW y \in P, Item(z, x, y)
            PROVE  y \in Q
        <4>1. x \in Nat /\ y \in Nat /\ j <= x /\ y <= n
          BY <2>3
        <4>2. x < y
          BY <3>2, <4>1, ItemFacts
        <4> QED
          BY <2>3, <4>1, <4>2
      <3> QED
        BY <3>1, <3>2
    <2>6. Items(z, j, n)
      <3> HIDE DEF Q
      <3> QED
        BY <2>4, <2>5, Zenon DEF Items
    <2> QED
      BY <2>2, <2>3, <2>6
  <1>2. ASSUME NEW j \in i + 1 .. n, Item(z, i, j), Items(z, j, n)
        PROVE  Items(z, i, n)
    <2>1. PICK P \in SUBSET (j .. n) : /\ j \in P /\ n \in P
                                     /\ \A x \in P : x = n \/ \E y \in P : Item(z, x, y)
      BY <1>2, Zenon DEF Items
    <2> DEFINE Q == P \cup {i}
    <2>2. Q \in SUBSET (i .. n) /\ i \in Q /\ n \in Q /\ j \in Q /\ P \subseteq Q
      BY <2>1
    <2>3. \A x \in Q : x = n \/ \E y \in Q : Item(z, x, y)
      BY <1>2, <2>1, Zenon
    <2> HIDE DEF Q
    <2> QED
      BY <2>2, <2>3, Zenon DEF Items
  <1> QED
    BY <1>1, <1>2

LEMMA ItemsExtend ==
    ASSUME NEW z, NEW a \in Nat, NEW b \in Nat, NEW c \in Nat,
           Items(z, a, b), Item(z, b, c)
    PROVE  Items(z, a, c)
  <1>1. b < c
    BY ItemFacts
  <1>2. PICK P \in SUBSET (a .. b) : /\ a \in P /\ b \in P
                                   /\ \A x \in P : x = b \/ \E y \in P : Item(z, x, y)
    BY Zenon DEF Items
  <1> DEFINE Q == P \cup {c}
  <1>3. Q \in SUBSET (a .. c) /\ a \in Q /\ c \in Q /\ b \in Q /\ P \subseteq Q
    BY <1>1, <1>2
  <1>4. \A x \in Q : x = c \/ \E y \in Q : Item(z, x, y)
    BY <1>2, Zenon
  <1> HIDE DEF Q
  <1> QED
    BY <1>3, <1>4, Zenon DEF Items

\* There is one way to read the bytes: what ends with a quotation mark is read through
\* every position that can be reached.
LEMMA ItemsFollow ==
    ASSUME NEW z, NEW a \in Nat, NEW p \in Nat, NEW n \in Nat,
           Items(z, a, p), Items(z, a, n), z[n] = DoubleQuote
    PROVE  p = n \/ \E j \in p + 1 .. n : Item(z, p, j)
  <1>1. PICK P \in SUBSET (a .. p) : /\ a \in P /\ p \in P
                                   /\ \A x \in P : x = p \/ \E y \in P : Item(z, x, y)
    BY Zenon DEF Items
  <1>2. PICK Q \in SUBSET (a .. n) : /\ a \in Q /\ n \in Q
                                   /\ \A x \in Q : x = n \/ \E y \in Q : Item(z, x, y)
    BY Zenon DEF Items
  <1>3. P \cap Q \in SUBSET (0 .. p) /\ P \cap Q # {}
    BY <1>1, <1>2
  <1>4. PICK m \in P \cap Q : \A x \in P \cap Q : x <= m
    BY <1>3, GreatestElement, Zenon
  <1>5. m \in Nat /\ m \in P /\ m \in Q
    BY <1>4
  <1>6. CASE m = p
    <2>1. p = n \/ \E j \in Q : Item(z, p, j)
      BY <1>2, <1>5, <1>6
    <2>2. ASSUME NEW j \in Q, Item(z, p, j)
          PROVE  j \in p + 1 .. n
      <3>1. j \in Nat /\ j <= n
        OBVIOUS
      <3>2. p < j
        BY <2>2, <3>1, ItemFacts
      <3> QED
        BY <3>1, <3>2
    <2> QED
      BY <2>1, <2>2
  <1>7. CASE m # p
    <2>1. PICK x \in P : Item(z, m, x)
      BY <1>1, <1>5, <1>7
    <2>2. m # n
      BY <1>5, <2>1, ItemFacts
    <2>3. PICK y \in Q : Item(z, m, y)
      BY <1>2, <1>5, <2>2
    <2>4. x \in Nat /\ y \in Nat
      OBVIOUS
    <2>5. x = y /\ m < x
      BY <1>5, <2>1, <2>3, <2>4, ItemFacts, ItemUnique
    <2>6. x <= m
      BY <1>4, <2>5
    <2> QED
      BY <1>5, <2>4, <2>5, <2>6
  <1> QED
    BY <1>6, <1>7

LEMMA ShiftedSubSeq ==
    ASSUME NEW z, NEW w, NEW a \in Int, NEW b \in Int, NEW o \in Int,
           \A k \in a .. b : w[k + o] = z[k]
    PROVE  SubSeq(w, a + o, b + o) = SubSeq(z, a, b)
  <1>1. SubSeq(w, a + o, b + o) = [k \in 1 .. 1 + (b + o) - (a + o) |-> w[a + o + k - 1]]
    OBVIOUS
  <1>2. SubSeq(z, a, b) = [k \in 1 .. 1 + b - a |-> z[a + k - 1]]
    OBVIOUS
  <1>3. 1 + (b + o) - (a + o) = 1 + b - a
    OBVIOUS
  <1>4. ASSUME NEW k \in 1 .. 1 + b - a
        PROVE  w[a + o + k - 1] = z[a + k - 1]
    <2>1. a + k - 1 \in a .. b /\ a + o + k - 1 = (a + k - 1) + o
      OBVIOUS
    <2> QED
      BY <2>1, Zenon
  <1> QED
    BY <1>1, <1>2, <1>3, <1>4, Zenon

\* An item depends on its own bytes only, wherever they are.
LEMMA ItemShift ==
    ASSUME NEW z, NEW w, NEW i \in Nat, NEW j \in Nat, NEW o \in Int, i + o \in Nat,
           \A k \in i .. j - 1 : w[k + o] = z[k], Item(z, i, j)
    PROVE  Item(w, i + o, j + o)
  <1>1. PICK x, y : x = i + o /\ y = j + o
    OBVIOUS
  <1>2. i < j /\ x \in Nat /\ y \in Int
    <2>1. i < j
      BY ItemFacts, Zenon
    <2> QED
      BY <1>1, <2>1
  <1>3. w[x] = z[i]
    BY <1>1, <1>2
  <1>4. i + 2 <= j => w[x + 1] = z[i + 1]
    <2>1. i + 2 <= j => i + 1 \in i .. j - 1
      OBVIOUS
    <2>2. x + 1 = (i + 1) + o
      BY <1>1
    <2> QED
      BY <2>1, <2>2
  <1>5. CASE Character(z, i, j)
    <2>1. Character(w, x, y)
      BY <1>1, <1>3, <1>4, <1>5 DEF Character
    <2> QED
      BY <1>1, <2>1 DEF Item
  <1>6. CASE Escaping(z, i, j)
    <2>1. i + 2 <= j /\ x + 2 <= y /\ w[x] = Backslash /\ w[x + 1] = z[i + 1]
      BY <1>1, <1>3, <1>4, <1>6 DEF Escaping
    <2>2. CASE j = i + 2 /\ z[i + 1] \in Simple
      <3>1. y = x + 2 /\ w[x + 1] \in Simple
        BY <1>1, <2>1, <2>2
      <3> QED
        BY <1>1, <2>1, <3>1, Zenon DEF Item, Escaping
    <2>3. CASE j = i + 4 /\ z[i + 1] = 120 /\ IsHexDigit(z[i + 2]) /\ IsHexDigit(z[i + 3])
      <3>1. /\ i + 2 \in i .. j - 1 /\ i + 3 \in i .. j - 1
            /\ x + 2 = (i + 2) + o /\ x + 3 = (i + 3) + o
        BY <1>1, <2>3
      <3>2. w[x + 2] = z[i + 2] /\ w[x + 3] = z[i + 3]
        BY <3>1
      <3>3. y = x + 4 /\ w[x + 1] = 120 /\ IsHexDigit(w[x + 2]) /\ IsHexDigit(w[x + 3])
        BY <1>1, <2>1, <2>3, <3>2
      <3> QED
        BY <1>1, <2>1, <3>3, Zenon DEF Item, Escaping
    <2>4. CASE /\ i + 4 <= j /\ z[i + 1] = 117
               /\ z[j - 1] = RightCurly /\ ProperUnicode(z, i, j - 1)
      <3>1. PICK m, n : m = j - 1 /\ n = y - 1
        OBVIOUS
      <3>2. m \in Nat /\ i + 3 <= m /\ n \in Nat /\ x + 3 <= n /\ n = m + o
        BY <1>1, <1>2, <2>4, <3>1
      <3>3. /\ z[i + 2] = LeftCurly
            /\ \A k \in i + 3 .. m - 1 : IsHexDigit(z[k])
            /\ (m - (i + 3)) % DigitsMod <= 6
            /\ HexNumber(SubSeq(z, i + 3, m - 1)) \in Codepoints
        BY <2>4, <3>1, <3>2, UnicodeFacts
      <3>4. w[x + 2] = LeftCurly
        <4>1. i + 2 \in i .. j - 1 /\ x + 2 = (i + 2) + o
          BY <1>1, <2>4
        <4> QED
          BY <3>3, <4>1
      <3>5. ASSUME NEW k \in x + 3 .. n - 1
            PROVE  IsHexDigit(w[k])
        <4>1. k - o \in i + 3 .. m - 1 /\ k - o \in i .. j - 1 /\ (k - o) + o = k
          BY <1>1, <3>1, <3>2
        <4> QED
          BY <3>3, <4>1, Zenon
      <3>6. (n - (x + 3)) % DigitsMod <= 6
        <4>1. n - (x + 3) = m - (i + 3)
          BY <1>1, <3>2
        <4> QED
          BY <3>3, <4>1, Zenon
      <3>7. SubSeq(w, x + 3, n - 1) = SubSeq(z, i + 3, m - 1)
        <4>1. /\ x + 3 = (i + 3) + o /\ n - 1 = (m - 1) + o
              /\ i + 3 \in Int /\ m - 1 \in Int
          BY <1>1, <3>2
        <4>2. PICK a \in Int, b \in Int : a = i + 3 /\ b = m - 1
          BY <4>1
        <4>3. x + 3 = a + o /\ n - 1 = b + o
          BY <4>1, <4>2
        <4>4. \A k \in a .. b : w[k + o] = z[k]
          BY <3>1, <4>2
        <4>5. SubSeq(w, a + o, b + o) = SubSeq(z, a, b)
          BY <4>4, ShiftedSubSeq, SMTT(60)
        <4> QED
          BY <4>2, <4>3, <4>5, Zenon
      <3>8. ProperUnicode(w, x, n)
        BY <1>2, <3>2, <3>3, <3>4, <3>5, <3>6, <3>7, UnicodeFacts, Zenon
      <3>9. w[n] = RightCurly
        <4>1. m \in i .. j - 1
          BY <3>1, <3>2
        <4> QED
          BY <2>4, <3>1, <3>2, <4>1, Zenon
      <3>10. x + 4 <= y
        BY <1>1, <2>4
      <3>11. Escaping(w, x, y)
        BY <2>1, <2>4, <3>1, <3>8, <3>9, <3>10, Zenon DEF Escaping
      <3> QED
        BY <1>1, <3>11, Zenon DEF Item
    <2> QED
      BY <1>6, <2>2, <2>3, <2>4, Zenon DEF Escaping
  <1> QED
    BY <1>5, <1>6 DEF Item

LEMMA ItemsShift ==
    ASSUME NEW z, NEW w, NEW a \in Nat, NEW b \in Nat, NEW o \in Int, a + o \in Nat,
           \A k \in a .. b - 1 : w[k + o] = z[k], Items(z, a, b)
    PROVE  Items(w, a + o, b + o)
  <1>1. PICK P \in SUBSET (a .. b) : /\ a \in P /\ b \in P
                                   /\ \A x \in P : x = b \/ \E y \in P : Item(z, x, y)
    BY Zenon DEF Items
  <1> DEFINE Q == {x + o : x \in P}
  <1>2. a + o \in Q /\ b + o \in Q /\ Q \in SUBSET (a + o .. b + o)
    BY <1>1
  <1>3. ASSUME NEW x \in P, x # b
        PROVE  \E v \in Q : Item(w, x + o, v)
    <2>1. PICK y \in P : Item(z, x, y)
      BY <1>1, <1>3
    <2>2. x \in Nat /\ y \in Nat /\ x + o \in Nat /\ a <= x /\ y <= b
      OBVIOUS
    <2>3. \A k \in x .. y - 1 : w[k + o] = z[k]
      <3>1. x .. y - 1 \subseteq a .. b - 1
        BY <2>2
      <3> QED
        BY <3>1
    <2>4. Item(w, x + o, y + o)
      BY <2>1, <2>2, <2>3, ItemShift, Zenon
    <2> QED
      BY <2>4
  <1>4. ASSUME NEW u \in Q
        PROVE  u = b + o \/ \E v \in Q : Item(w, u, v)
    <2>1. PICK x \in P : u = x + o
      OBVIOUS
    <2> QED
      BY <1>3, <2>1, Zenon
  <1> HIDE DEF Q
  <1> QED
    BY <1>2, <1>4, Zenon DEF Items

LEMMA ItemsAgree ==
    ASSUME NEW z, NEW w, NEW a \in Nat, NEW b \in Nat,
           \A k \in a .. b - 1 : w[k] = z[k], Items(z, a, b)
    PROVE  Items(w, a, b)
  <1>1. PICK o \in Int : o = 0
    OBVIOUS
  <1>2. a + o = a /\ b + o = b /\ \A k \in a .. b - 1 : w[k + o] = z[k]
    BY <1>1
  <1>3. Items(w, a + o, b + o)
    BY <1>2, ItemsShift
  <1> QED
    BY <1>2, <1>3

-----------------------------------------------------------------------------
(***************************************************************************)
(* The value of hexadecimal digits.                                        *)
(***************************************************************************)
HexStep(d, val, n) == IF n = 0 THEN 0 ELSE (val[n - 1] * 16 + HexValue(d[n])) % WordMod

HexValues(d, m, f) == f = [n \in 0 .. m |-> HexStep(d, f, n)]

LEMMA HexStepAgrees ==
    ASSUME NEW d, NEW e, NEW f, NEW g, NEW n \in Nat,
           n > 0 => f[n - 1] = g[n - 1] /\ d[n] = e[n]
    PROVE  HexStep(d, f, n) = HexStep(e, g, n)
  <1>1. n = 0 \/ n > 0
    OBVIOUS
  <1> QED
    BY <1>1, Zenon DEF HexStep

LEMMA HexValuesExist ==
    ASSUME NEW d, NEW m \in Nat
    PROVE  \E f : HexValues(d, m, f)
  <1> DEFINE T == {k \in Nat : ~\E f : HexValues(d, k, f)}
  <1>1. SUFFICES ASSUME T # {}
                 PROVE  FALSE
    OBVIOUS
  <1>2. PICK k \in T : \A l \in T : k <= l
    <2>1. T \in SUBSET Nat
      OBVIOUS
    <2> HIDE DEF T
    <2> QED
      BY <1>1, <2>1, LeastElement
  <1>3. k \in Nat /\ ~\E f : HexValues(d, k, f)
    OBVIOUS
  <1>4. CASE k = 0
    <2> DEFINE g == [n \in 0 .. 0 |-> 0]
    <2>1. \A n \in 0 .. 0 : n = 0
      OBVIOUS
    <2>2. HexValues(d, 0, g)
      BY <2>1, Zenon DEF HexValues, HexStep
    <2> QED
      BY <1>3, <1>4, <2>2, Zenon
  <1>5. CASE k # 0
    <2>1. k - 1 \in Nat /\ k \notin 0 .. k - 1 /\ \A n \in 0 .. k : n = k \/ n \in 0 .. k - 1
      BY <1>3, <1>5
    <2>2. k - 1 \notin T
      BY <1>2, <1>3, <2>1
    <2>3. PICK f : HexValues(d, k - 1, f)
      BY <2>1, <2>2, Zenon
    <2> DEFINE g == [n \in 0 .. k |-> IF n = k THEN HexStep(d, f, k) ELSE f[n]]
    <2>4. \A n \in 0 .. k - 1 : g[n] = f[n]
      BY <1>3
    <2>5. \A n \in 0 .. k - 1 : f[n] = HexStep(d, f, n)
      BY <2>3, Zenon DEF HexValues
    <2>6. g[k] = HexStep(d, f, k)
      BY <1>3
    <2>7. \A n \in 0 .. k : g[n] = HexStep(d, g, n)
      <3>1. ASSUME NEW n \in 0 .. k
            PROVE  HexStep(d, f, n) = HexStep(d, g, n)
        <4>1. n \in Nat /\ (n > 0 => n - 1 \in 0 .. k - 1)
          BY <1>3
        <4>2. n > 0 => f[n - 1] = g[n - 1]
          BY <2>4, <4>1, Zenon
        <4> HIDE DEF g
        <4> QED
          BY <4>1, <4>2, HexStepAgrees
      <3> HIDE DEF g
      <3> QED
        BY <2>1, <2>4, <2>5, <2>6, <3>1, Zenon
    <2>8. g = [n \in 0 .. k |-> g[n]]
      OBVIOUS
    <2> HIDE DEF g
    <2>9. HexValues(d, k, g)
      BY <2>7, <2>8, Zenon DEF HexValues
    <2> QED
      BY <1>3, <2>9, Zenon
  <1> QED
    BY <1>4, <1>5

LEMMA HexValuesAgree ==
    ASSUME NEW d, NEW e, NEW m \in Nat, NEW p \in Nat, m <= p,
           \A n \in 1 .. m : d[n] = e[n],
           NEW f, HexValues(d, m, f), NEW g, HexValues(e, p, g)
    PROVE  \A n \in 0 .. m : f[n] = g[n]
  <1> DEFINE T == {n \in 0 .. m : f[n] # g[n]}
  <1>1. SUFFICES ASSUME T # {}
                 PROVE  FALSE
    OBVIOUS
  <1>2. PICK k \in T : \A l \in T : k <= l
    <2>1. T \in SUBSET Nat
      OBVIOUS
    <2> HIDE DEF T
    <2> QED
      BY <1>1, <2>1, LeastElement
  <1>3. k \in 0 .. m /\ k \in 0 .. p /\ k \in Nat /\ f[k] # g[k]
    OBVIOUS
  <1>4. k > 0 => k - 1 \in 0 .. m /\ k - 1 \notin T /\ k \in 1 .. m
    BY <1>2, <1>3
  <1>5. k > 0 => f[k - 1] = g[k - 1] /\ d[k] = e[k]
    BY <1>4
  <1>6. HexStep(d, f, k) = HexStep(e, g, k)
    BY <1>3, <1>5, HexStepAgrees
  <1>7. f[k] = HexStep(d, f, k) /\ g[k] = HexStep(e, g, k)
    BY <1>3, Zenon DEF HexValues
  <1> QED
    BY <1>3, <1>6, <1>7

LEMMA HexNumberFacts ==
    ASSUME NEW d, NEW m \in Nat, Len(d) = m, NEW f, HexValues(d, m, f)
    PROVE  HexNumber(d) = f[m]
  <1> DEFINE F(n) == CHOOSE h : HexValues(d, n, h)
  <1>1. HexNumber(d) = F(Len(d))[Len(d)]
    BY Zenon DEF HexNumber, HexValues, HexStep
  <1>2. HexValues(d, m, F(m))
    BY Zenon
  <1> HIDE DEF F
  <1>3. \A n \in 0 .. m : f[n] = F(m)[n]
    <2>1. m <= m
      OBVIOUS
    <2> QED
      BY <1>2, <2>1, HexValuesAgree
  <1>4. m \in 0 .. m
    OBVIOUS
  <1> QED
    BY <1>1, <1>3, <1>4, Zenon

LEMMA HexEmpty ==
    ASSUME NEW d, Len(d) = 0
    PROVE  HexNumber(d) = 0
  <1>1. PICK f : HexValues(d, 0, f)
    BY HexValuesExist
  <1>2. HexNumber(d) = f[0]
    BY <1>1, HexNumberFacts
  <1>3. 0 \in 0 .. 0
    OBVIOUS
  <1> QED
    BY <1>1, <1>2, <1>3, Zenon DEF HexValues, HexStep

LEMMA HexLonger ==
    ASSUME NEW d, NEW e, NEW m \in Nat, Len(d) = m, Len(e) = m + 1,
           \A n \in 1 .. m : d[n] = e[n]
    PROVE  HexNumber(e) = (HexNumber(d) * 16 + HexValue(e[m + 1])) % WordMod
  <1>1. m + 1 \in Nat /\ m <= m + 1 /\ m \in 0 .. m /\ m + 1 \in 0 .. m + 1 /\ m + 1 # 0
        /\ (m + 1) - 1 = m
    OBVIOUS
  <1>2. PICK f : HexValues(d, m, f)
    BY HexValuesExist
  <1>3. PICK g : HexValues(e, m + 1, g)
    BY <1>1, HexValuesExist
  <1>4. f[m] = g[m]
    BY <1>1, <1>2, <1>3, HexValuesAgree
  <1>5. HexNumber(d) = f[m] /\ HexNumber(e) = g[m + 1]
    BY <1>1, <1>2, <1>3, HexNumberFacts
  <1>6. g[m + 1] = (g[m] * 16 + HexValue(e[m + 1])) % WordMod
    <2>1. g[m + 1] = HexStep(e, g, m + 1)
      BY <1>1, <1>3, Zenon DEF HexValues
    <2>2. HexStep(e, g, m + 1) = (g[(m + 1) - 1] * 16 + HexValue(e[m + 1])) % WordMod
      BY <1>1, Zenon DEF HexStep
    <2> QED
      BY <1>1, <2>1, <2>2
  <1> QED
    BY <1>4, <1>5, <1>6

\* One more digit, as lexer_handle_escape adds it.
LEMMA HexGrows ==
    ASSUME NEW z, NEW a \in Nat, NEW b \in Nat, a <= b + 1
    PROVE  HexNumber(SubSeq(z, a, b + 1))
           = (HexNumber(SubSeq(z, a, b)) * 16 + HexValue(z[b + 1])) % WordMod
  <1>1. PICK d, e, m : d = SubSeq(z, a, b) /\ e = SubSeq(z, a, b + 1) /\ m = b - a + 1
    OBVIOUS
  <1>2. m \in Nat
    BY <1>1
  <1>3. d = [k \in 1 .. m |-> z[a + k - 1]] /\ Len(d) = m
    <2>1. d = [k \in 1 .. 1 + b - a |-> z[a + k - 1]]
      BY <1>1
    <2>2. 1 + b - a = m
      BY <1>1
    <2> QED
      BY <1>2, <2>1, <2>2
  <1>4. e = [k \in 1 .. m + 1 |-> z[a + k - 1]] /\ Len(e) = m + 1
    <2>1. e = [k \in 1 .. 1 + (b + 1) - a |-> z[a + k - 1]]
      BY <1>1
    <2>2. 1 + (b + 1) - a = m + 1
      BY <1>1
    <2> QED
      BY <1>2, <2>1, <2>2
  <1>5. \A n \in 1 .. m : d[n] = e[n]
    BY <1>2, <1>3, <1>4
  <1>6. e[m + 1] = z[b + 1]
    <2>1. m + 1 \in 1 .. m + 1 /\ a + (m + 1) - 1 = b + 1
      BY <1>1, <1>2
    <2> QED
      BY <1>4, <2>1
  <1>7. HexNumber(e) = (HexNumber(d) * 16 + HexValue(e[m + 1])) % WordMod
    <2>1. Len(d) = m /\ Len(e) = m + 1
      BY <1>3, <1>4, Zenon
    <2> QED
      BY <1>2, <1>5, <2>1, HexLonger, Zenon
  <1> QED
    BY <1>1, <1>6, <1>7

LEMMA HexNumberIsNumber ==
    ASSUME NEW d, Len(d) \in Nat, \A n \in 1 .. Len(d) : HexValue(d[n]) \in Nat
    PROVE  HexNumber(d) \in Nat
  <1>1. PICK m \in Nat : m = Len(d)
    OBVIOUS
  <1>2. PICK f : HexValues(d, m, f)
    BY HexValuesExist
  <1>3. \A n \in 0 .. m : f[n] \in Nat
    <2> DEFINE T == {n \in 0 .. m : f[n] \notin Nat}
    <2>1. SUFFICES ASSUME T # {}
                   PROVE  FALSE
      OBVIOUS
    <2>2. PICK k \in T : \A l \in T : k <= l
      <3>1. T \in SUBSET Nat
        OBVIOUS
      <3> HIDE DEF T
      <3> QED
        BY <2>1, <3>1, LeastElement
    <2>3. k \in 0 .. m /\ f[k] \notin Nat
      OBVIOUS
    <2>4. f[k] = HexStep(d, f, k)
      BY <1>2, <2>3, Zenon DEF HexValues
    <2>5. k # 0
      BY <2>3, <2>4 DEF HexStep
    <2>6. f[k - 1] \in Nat
      BY <2>2, <2>3, <2>5
    <2>7. HexValue(d[k]) \in Nat
      BY <1>1, <2>3, <2>5
    <2>8. WordMod \in Nat /\ WordMod > 0
      BY LexerAssumption
    <2>9. ASSUME NEW x \in Nat, NEW y \in Nat
          PROVE  (x * 16 + y) % WordMod \in Nat
      BY <2>8, <2>9
    <2> QED
      BY <2>3, <2>4, <2>5, <2>6, <2>7, <2>9 DEF HexStep
  <1> QED
    BY <1>1, <1>2, <1>3, HexNumberFacts

-----------------------------------------------------------------------------
(***************************************************************************)
(* The two passes of parser_parse_string.                                  *)
(***************************************************************************)
LEMMA SimpleEscape ==
    ASSUME NEW s, NEW i \in Nat, s[i + 1] \in Simple
    PROVE  Escape(s, i).next = i + 2 /\ Escape(s, i).val \in Nat
  BY DEF Escape, Simple, DoubleQuote, SingleQuote, Backslash

LEMMA HexEscape ==
    ASSUME NEW s, NEW i \in Nat, s[i + 1] = 120
    PROVE  Escape(s, i) = [val |-> HexNumber(SubSeq(s, i + 2, i + 3)), next |-> i + 4]
  BY DEF Escape, Simple, DoubleQuote, SingleQuote, Backslash

LEMMA UnicodeEscape ==
    ASSUME NEW s, NEW i \in Nat, s[i + 1] = 117, Len(s) \in Nat,
           Closing(s, i + 3) # {}
    PROVE  \E end \in i + 3 .. Len(s) :
             /\ s[end] = RightCurly
             /\ \A m \in i + 3 .. end - 1 : s[m] # RightCurly
             /\ Escape(s, i) = [val |-> HexNumber(SubSeq(s, i + 3, end - 1)), next |-> end + 1]
  <1> DEFINE C == Closing(s, i + 3)
             end == CHOOSE n \in C : \A m \in C : n <= m
  <1>1. C \in SUBSET Nat /\ C # {}
    BY DEF Closing
  <1>2. \E n \in C : \A m \in C : n <= m
    <2> HIDE DEF C
    <2> QED
      BY <1>1, LeastElement
  <1>3. end \in C /\ \A m \in C : end <= m
    <2> HIDE DEF C
    <2> QED
      BY <1>2, Zenon
  <1>4. Escape(s, i) = [val |-> HexNumber(SubSeq(s, i + 3, end - 1)), next |-> end + 1]
    BY DEF Escape, Simple, DoubleQuote, SingleQuote, Backslash
  <1> HIDE DEF end
  <1>5. end \in i + 3 .. Len(s) /\ s[end] = RightCurly
    BY <1>3 DEF Closing
  <1>6. ASSUME NEW m \in i + 3 .. end - 1, s[m] = RightCurly
        PROVE  FALSE
    <2>1. m \in C /\ m < end
      BY <1>5, <1>6 DEF Closing
    <2> QED
      BY <1>3, <1>5, <2>1
  <1> QED
    BY <1>4, <1>5, <1>6, ZenonT(60)

LEMMA EscapeAdvances ==
    ASSUME NEW s, NEW i \in Nat, Len(s) \in Nat, i < Len(s), InBounds(s, i)
    PROVE  Escape(s, i).next \in i + 1 .. Len(s) + 4
  <1>1. CASE s[i + 1] = 117
    <2>1. Closing(s, i + 3) # {}
      BY <1>1 DEF InBounds
    <2>2. PICK end \in i + 3 .. Len(s) : Escape(s, i).next = end + 1
      BY <1>1, <2>1, UnicodeEscape
    <2> QED
      BY <2>2
  <1>2. CASE s[i + 1] = 120
    BY <1>2, HexEscape
  <1>3. CASE s[i + 1] # 117 /\ s[i + 1] # 120
    <2>1. s[i + 1] \in Simple
      BY <1>3 DEF InBounds
    <2> QED
      BY <2>1, SimpleEscape
  <1> QED
    BY <1>1, <1>2, <1>3

DecodeStep(s, n, rest, i) ==
    IF i >= n THEN [size |-> 0, bytes |-> <<>>, inside |-> i = n]
    ELSE IF s[i] # Backslash
    THEN [size   |-> rest[i + 1].size + 1,
          bytes  |-> <<s[i]>> \o rest[i + 1].bytes,
          inside |-> rest[i + 1].inside]
    ELSE IF ~InBounds(s, i) THEN [size |-> 0, bytes |-> <<>>, inside |-> FALSE]
    ELSE LET e == Escape(s, i) IN
         [size   |-> rest[e.next].size + CountedWidth(e.val),
          bytes  |-> Written(e.val) \o rest[e.next].bytes,
          inside |-> rest[e.next].inside]

LEMMA DecodeStepAgrees ==
    ASSUME NEW s, NEW n \in Nat, n = Len(s), NEW f, NEW g, NEW i \in 2 .. n + 4,
           \A k \in i + 1 .. n + 4 : f[k] = g[k]
    PROVE  DecodeStep(s, n, f, i) = DecodeStep(s, n, g, i)
  <1>1. CASE i >= n
    BY <1>1, Zenon DEF DecodeStep
  <1>2. CASE i < n
    <2>1. f[i + 1] = g[i + 1]
      <3>1. i + 1 \in i + 1 .. n + 4
        BY <1>2
      <3> QED
        BY <3>1, Zenon
    <2>2. InBounds(s, i) => f[Escape(s, i).next] = g[Escape(s, i).next]
      <3>1. i \in Nat /\ i < Len(s) /\ Len(s) \in Nat
        BY <1>2
      <3>2. InBounds(s, i) => Escape(s, i).next \in i + 1 .. Len(s) + 4
        BY <3>1, EscapeAdvances
      <3> QED
        BY <3>2, Zenon
    <2> QED
      BY <2>1, <2>2, Zenon DEF DecodeStep
  <1> QED
    BY <1>1, <1>2

LEMMA DecodeExists ==
    ASSUME NEW s, NEW n \in Nat, n = Len(s)
    PROVE  \E f : f = [i \in 2 .. n + 4 |-> DecodeStep(s, n, f, i)]
  <1> DEFINE Good(f, k) == \A i \in k .. n + 4 : f[i] = DecodeStep(s, n, f, i)
             T == {k \in 2 .. n + 5 : \E f : Good(f, k)}
  <1>1. n + 5 \in T
    <2>1. n + 5 \in 2 .. n + 5 /\ n + 5 .. n + 4 = {}
      OBVIOUS
    <2>2. Good(0, n + 5)
      BY <2>1, Zenon
    <2> HIDE DEF Good
    <2> QED
      BY <2>1, <2>2
  <1>2. PICK k \in T : \A l \in T : k <= l
    <2>1. T \in SUBSET Nat /\ T # {}
      BY <1>1
    <2> HIDE DEF T
    <2> QED
      BY <2>1, LeastElement
  <1>3. k \in 2 .. n + 5
    OBVIOUS
  <1>4. PICK f : Good(f, k)
    BY Zenon
  <1>5. k = 2
    <2>1. SUFFICES ASSUME k # 2
                   PROVE  FALSE
      OBVIOUS
    <2>2. PICK l \in 2 .. n + 4 : l + 1 = k
      <3>1. k - 1 \in 2 .. n + 4 /\ (k - 1) + 1 = k
        BY <1>3, <2>1
      <3> QED
        BY <3>1
    <2> DEFINE g == [x \in 2 .. n + 4 |-> IF x = l THEN DecodeStep(s, n, f, l) ELSE f[x]]
    <2>3. ASSUME NEW i \in l .. n + 4
          PROVE  g[i] = DecodeStep(s, n, g, i)
      <3>1. i \in 2 .. n + 4 /\ l \in 2 .. n + 4
        BY <2>2
      <3>2. g[i] = DecodeStep(s, n, f, i)
        <4>1. i = l \/ i \in k .. n + 4
          BY <1>3, <2>2
        <4> QED
          BY <1>4, <3>1, <4>1, Zenon
      <3>3. \A x \in i + 1 .. n + 4 : f[x] = g[x]
        <4>1. \A x \in i + 1 .. n + 4 : x \in 2 .. n + 4 /\ x # l
          BY <3>1
        <4> QED
          BY <4>1, Zenon
      <3> HIDE DEF g
      <3>4. DecodeStep(s, n, f, i) = DecodeStep(s, n, g, i)
        BY <3>1, <3>3, DecodeStepAgrees
      <3> QED
        BY <3>2, <3>4, Zenon
    <2> HIDE DEF g
    <2>4. Good(g, l)
      BY <2>3, Zenon
    <2> HIDE DEF Good
    <2>5. l \in T
      BY <2>2, <2>4
    <2> QED
      BY <1>2, <1>3, <2>2, <2>5
  <1> DEFINE h == [i \in 2 .. n + 4 |-> f[i]]
  <1>6. \A i \in 2 .. n + 4 : h[i] = f[i]
    OBVIOUS
  <1>7. \A i \in 2 .. n + 4 : f[i] = DecodeStep(s, n, f, i)
    BY <1>4, <1>5, Zenon
  <1>8. ASSUME NEW i \in 2 .. n + 4
        PROVE  DecodeStep(s, n, f, i) = DecodeStep(s, n, h, i)
    <2>1. \A x \in i + 1 .. n + 4 : x \in 2 .. n + 4
      OBVIOUS
    <2>2. \A x \in i + 1 .. n + 4 : f[x] = h[x]
      BY <1>6, <2>1, Zenon
    <2> HIDE DEF h
    <2> QED
      BY <2>2, DecodeStepAgrees
  <1>9. h = [i \in 2 .. n + 4 |-> DecodeStep(s, n, h, i)]
    <2> DEFINE H(i) == DecodeStep(s, n, h, i)
    <2>1. \A i \in 2 .. n + 4 : f[i] = H(i)
      <3> HIDE DEF h
      <3> QED
        BY <1>7, <1>8, Zenon
    <2> HIDE DEF H
    <2>2. h = [i \in 2 .. n + 4 |-> H(i)]
      BY <2>1, Zenon
    <2> QED
      BY <2>2 DEF H
  <1> HIDE DEF h
  <1> QED
    BY <1>9, Zenon

\* The first pass counts what the second one writes for a codepoint.
LEMMA WrittenFacts ==
    ASSUME NEW val \in Nat
    PROVE  Written(val) \in Seq(Int) /\ Len(Written(val)) = CountedWidth(val)
  <1>1. PICK w : w = CountedWidth(val)
    OBVIOUS
  <1>2. w \in Nat
    BY <1>1 DEF CountedWidth
  <1>3. PICK x : x = IF w = 1 THEN val ELSE (val \div 64) % 64
    OBVIOUS
  <1>4. x \in Int
    BY <1>3
  <1>5. Written(val) = [n \in 1 .. w |-> IF n > 1 THEN Unwritten ELSE x]
    BY <1>1, <1>3, SMT DEF Written, CountedWidth
  <1>6. Unwritten \in Int
    BY DEF Unwritten
  <1> QED
    BY <1>1, <1>2, <1>4, <1>5, <1>6

LEMMA HexInText ==
    ASSUME NEW z, NEW a \in Nat, NEW b \in Nat, a <= b + 1,
           \A k \in a .. b : IsHexDigit(z[k])
    PROVE  HexNumber(SubSeq(z, a, b)) \in Nat
  <1>1. PICK d, m : d = SubSeq(z, a, b) /\ m = b - a + 1
    OBVIOUS
  <1>2. d = [k \in 1 .. m |-> z[a + k - 1]] /\ Len(d) = m /\ m \in Nat
    <2>1. d = [k \in 1 .. 1 + b - a |-> z[a + k - 1]]
      BY <1>1
    <2>2. 1 + b - a = m /\ m \in Nat
      BY <1>1
    <2> QED
      BY <2>1, <2>2
  <1>3. ASSUME NEW n \in 1 .. m
        PROVE  HexValue(d[n]) \in Nat
    <2>1. a + n - 1 \in a .. b /\ d[n] = z[a + n - 1]
      BY <1>1, <1>2
    <2>2. HexValue(z[a + n - 1]) \in 0 .. 15
      BY <2>1, HexFacts
    <2> QED
      BY <2>1, <2>2
  <1>4. HexNumber(d) \in Nat
    BY <1>2, <1>3, HexNumberIsNumber
  <1> QED
    BY <1>1, <1>4

HasLength(s, n) == n = Len(s)

\* Both passes over a string literal end at its closing quotation mark and advance over
\* the same number of places.
LEMMA DecodedFacts ==
    ASSUME NEW s, NEW n \in Nat, HasLength(s, n), \A k \in 1 .. n : s[k] \in 0 .. 255,
           n > 1, Items(s, 2, n)
    PROVE  Decoded(s).inside = TRUE /\ Decoded(s).size = Len(Decoded(s).bytes)
  <1> DEFINE F(m) == CHOOSE h : h = [i \in 2 .. m + 4 |-> DecodeStep(s, m, h, i)]
             f == F(n)
  <1>1. f = [i \in 2 .. n + 4 |-> DecodeStep(s, n, f, i)]
    <2>1. \E h : h = [i \in 2 .. n + 4 |-> DecodeStep(s, n, h, i)]
      BY DecodeExists, Zenon DEF HasLength
    <2> QED
      BY <2>1, Zenon
  <1>2. Decoded(s) = f[2]
    <2>1. Decoded(s) = F(Len(s))[2]
      BY Zenon DEF Decoded, DecodeStep
    <2> HIDE DEF F
    <2> QED
      BY <2>1, Zenon DEF HasLength
  <1> HIDE DEF F, f
  <1>3. \A i \in 2 .. n + 4 : f[i] = DecodeStep(s, n, f, i)
    BY <1>1, Zenon
  <1> DEFINE Fine(r) == r.inside = TRUE /\ r.bytes \in Seq(Int) /\ r.size = Len(r.bytes)
  <1>4. ASSUME NEW r, Fine(r), NEW bytes \in Seq(Int), NEW size, size = Len(bytes)
        PROVE  Fine([size |-> r.size + size, bytes |-> bytes \o r.bytes, inside |-> r.inside])
    <2>1. bytes \o r.bytes \in Seq(Int) /\ Len(bytes \o r.bytes) = Len(bytes) + Len(r.bytes)
      BY <1>4, ConcatProperties
    <2>2. Len(bytes) \in Nat /\ Len(r.bytes) \in Nat
      BY <1>4, LenProperties
    <2> QED
      BY <1>4, <2>1, <2>2
  <1> HIDE DEF Fine
  <1>5. ASSUME NEW i \in 2 .. n - 1, s[i] # Backslash, Fine(f[i + 1])
        PROVE  Fine(f[i])
    <2>1. i \in 2 .. n + 4 /\ ~(i >= n) /\ s[i] \in Int
      OBVIOUS
    <2>2. f[i] = [size   |-> f[i + 1].size + 1,
                  bytes  |-> <<s[i]>> \o f[i + 1].bytes,
                  inside |-> f[i + 1].inside]
      <3>1. f[i] = DecodeStep(s, n, f, i)
        BY <1>3, <2>1, Zenon
      <3> QED
        BY <1>5, <2>1, <3>1, Zenon DEF DecodeStep
    <2>3. <<s[i]>> \in Seq(Int) /\ Len(<<s[i]>>) = 1
      BY <2>1
    <2> QED
      BY <1>4, <1>5, <2>2, <2>3, Zenon
  <1>6. ASSUME NEW i \in 2 .. n - 1, s[i] = Backslash, InBounds(s, i),
               NEW e, e = Escape(s, i), e.val \in Nat, Fine(f[e.next])
        PROVE  Fine(f[i])
    <2>1. i \in 2 .. n + 4 /\ ~(i >= n)
      OBVIOUS
    <2>2. f[i] = [size   |-> f[e.next].size + CountedWidth(e.val),
                  bytes  |-> Written(e.val) \o f[e.next].bytes,
                  inside |-> f[e.next].inside]
      <3>1. f[i] = DecodeStep(s, n, f, i)
        BY <1>3, <2>1, Zenon
      <3> QED
        BY <1>6, <2>1, <3>1, Zenon DEF DecodeStep
    <2>3. Written(e.val) \in Seq(Int) /\ Len(Written(e.val)) = CountedWidth(e.val)
      BY <1>6, WrittenFacts
    <2> QED
      BY <1>4, <1>6, <2>2, <2>3, Zenon
  <1>7. Fine(f[n])
    <2>1. n \in 2 .. n + 4 /\ n >= n
      OBVIOUS
    <2>2. f[n] = [size |-> 0, bytes |-> <<>>, inside |-> TRUE]
      <3>1. f[n] = DecodeStep(s, n, f, n)
        BY <1>3, <2>1, Zenon
      <3> QED
        BY <2>1, <3>1, Zenon DEF DecodeStep
    <2> QED
      BY <2>2 DEF Fine
  <1>8. ASSUME NEW i \in 2 .. n - 1, NEW j \in i + 1 .. n, Item(s, i, j), Fine(f[j])
        PROVE  Fine(f[i])
    <2>1. i \in Nat /\ i + 1 \in 1 .. n /\ s[i] \in 0 .. 255 /\ s[i + 1] \in 0 .. 255
      OBVIOUS
    <2>2. CASE j = i + 1 /\ s[i] # Backslash
      BY <1>5, <1>8, <2>2
    <2>3. CASE j = i + 2 /\ Lead(s[i]) /\ Trail(s[i + 1])
      <3>1. s[i] # Backslash /\ s[i + 1] # Backslash
        BY <2>3 DEF Lead, Trail, Backslash
      <3>2. i + 1 \in 2 .. n - 1 /\ (i + 1) + 1 = j
        BY <2>3
      <3>3. Fine(f[i + 1])
        BY <1>5, <1>8, <3>1, <3>2
      <3> QED
        BY <1>5, <3>1, <3>3
    <2>4. CASE Escaping(s, i, j)
      <3>1. s[i] = Backslash
        BY <2>4, Zenon DEF Escaping
      <3>2. CASE j = i + 2 /\ s[i + 1] \in Simple
        <4>1. InBounds(s, i)
          BY <2>1, <3>2, SimpleFacts DEF InBounds, HasLength
        <4>2. Escape(s, i).next = j /\ Escape(s, i).val \in Nat
          BY <2>1, <3>2, SimpleEscape
        <4> QED
          BY <1>6, <1>8, <3>1, <4>1, <4>2
      <3>3. CASE j = i + 4 /\ s[i + 1] = 120 /\ IsHexDigit(s[i + 2]) /\ IsHexDigit(s[i + 3])
        <4>1. InBounds(s, i)
          BY <2>1, <3>3 DEF InBounds, HasLength
        <4>2. Escape(s, i) = [val |-> HexNumber(SubSeq(s, i + 2, i + 3)), next |-> i + 4]
          BY <2>1, <3>3, HexEscape
        <4>3. HexNumber(SubSeq(s, i + 2, i + 3)) \in Nat
          <5>1. \A k \in i + 2 .. i + 3 : IsHexDigit(s[k])
            BY <2>1, <3>3
          <5> QED
            BY <2>1, <5>1, HexInText
        <4> QED
          BY <1>6, <1>8, <3>1, <3>3, <4>1, <4>2, <4>3
      <3>4. CASE /\ i + 4 <= j /\ s[i + 1] = 117
                 /\ s[j - 1] = RightCurly /\ ProperUnicode(s, i, j - 1)
        <4>1. PICK m \in Nat : m = j - 1
          BY <3>4
        <4>2. i + 3 <= m /\ m <= n /\ s[m] = RightCurly /\ ProperUnicode(s, i, m)
          BY <3>4, <4>1
        <4>3. \A k \in i + 3 .. m - 1 : IsHexDigit(s[k])
          BY <2>1, <4>2, UnicodeDigits
        <4>4. Closing(s, i + 3) # {}
          BY <2>1, <4>2 DEF Closing, HasLength
        <4>5. InBounds(s, i)
          BY <2>1, <3>4, <4>4 DEF InBounds, HasLength
        <4>6. PICK end \in i + 3 .. n :
                /\ s[end] = RightCurly
                /\ \A k \in i + 3 .. end - 1 : s[k] # RightCurly
                /\ Escape(s, i) = [val |-> HexNumber(SubSeq(s, i + 3, end - 1)),
                                   next |-> end + 1]
          <5>1. Len(s) \in Nat
            BY DEF HasLength
          <5>2. \E end \in i + 3 .. Len(s) :
                  /\ s[end] = RightCurly
                  /\ \A k \in i + 3 .. end - 1 : s[k] # RightCurly
                  /\ Escape(s, i) = [val |-> HexNumber(SubSeq(s, i + 3, end - 1)),
                                     next |-> end + 1]
            <6>1. i \in Nat /\ s[i + 1] = 117
              BY <2>1, <3>4
            <6> QED
              BY <4>4, <5>1, <6>1, UnicodeEscape, SMT
          <5> QED
            BY <5>2, Zenon DEF HasLength
        <4>7. end = m
          <5>1. ~(end < m)
            <6>1. end < m => end \in i + 3 .. m - 1
              OBVIOUS
            <6> QED
              BY <4>3, <4>6, <6>1, HexFacts
          <5>2. ~(m < end)
            <6>1. m < end => m \in i + 3 .. end - 1
              BY <4>2
            <6> QED
              BY <4>2, <4>6, <6>1
          <5> QED
            BY <5>1, <5>2
        <4>8. HexNumber(SubSeq(s, i + 3, end - 1)) \in Nat
          <5>1. i + 3 \in Nat /\ end - 1 \in Nat /\ i + 3 <= (end - 1) + 1
            BY <4>2, <4>7
          <5> QED
            BY <4>3, <4>7, <5>1, HexInText
        <4> QED
          BY <1>6, <1>8, <3>1, <4>1, <4>5, <4>6, <4>7, <4>8
      <3> QED
        BY <2>4, <3>2, <3>3, <3>4, Zenon DEF Escaping
    <2> QED
      BY <1>8, <2>2, <2>3, <2>4 DEF Item, Character
  <1>9. \A i \in 2 .. n : Items(s, i, n) => Fine(f[i])
    <2> DEFINE T == {i \in 2 .. n : Items(s, i, n) /\ ~Fine(f[i])}
    <2>1. SUFFICES ASSUME T # {}
                   PROVE  FALSE
      OBVIOUS
    <2>2. PICK i \in T : \A k \in T : k <= i
      <3>1. T \in SUBSET (0 .. n)
        OBVIOUS
      <3> HIDE DEF T
      <3> QED
        BY <2>1, <3>1, GreatestElement, Zenon
    <2>3. i \in 2 .. n /\ Items(s, i, n) /\ ~Fine(f[i])
      OBVIOUS
    <2>4. i \in Nat /\ i < n /\ i \in 2 .. n - 1
      BY <1>7, <2>3
    <2>5. PICK j \in i + 1 .. n : Item(s, i, j) /\ Items(s, j, n)
      BY <2>3, <2>4, ItemsStep
    <2>6. j \in 2 .. n /\ j \notin T
      BY <2>2, <2>4
    <2>7. Fine(f[j])
      BY <2>5, <2>6
    <2> QED
      BY <1>8, <2>3, <2>4, <2>5, <2>7
  <1>10. Fine(f[2])
    BY <1>9
  <1> QED
    BY <1>2, <1>10 DEF Fine

-----------------------------------------------------------------------------
(***************************************************************************)
(* What the input may become.                                              *)
(***************************************************************************)
LEMMA BecomesItself ==
    ASSUME NEW w \in Seq(Bytes), NEW more
    PROVE  Becomes(w, more, w)
  BY DEF Becomes

LEMMA BytesOf ==
    ASSUME NEW v \in Seq(Bytes)
    PROVE  Len(v) \in Nat /\ \A k \in 1 .. Len(v) : v[k] \in 0 .. 255
  <1>1. Len(v) \in Nat /\ \A k \in 1 .. Len(v) : v[k] \in Bytes
    BY ElementOfSeq, LenProperties
  <1> QED
    BY <1>1, Zenon DEF Bytes

LEMMA BecomesFacts ==
    ASSUME NEW w \in Seq(Bytes), NEW more, NEW z, Becomes(w, more, z)
    PROVE  /\ Len(w) \in Nat /\ Len(z) \in Nat /\ Len(w) <= Len(z)
           /\ \A k \in 1 .. Len(w) : z[k] = w[k] /\ z[k] \in 0 .. 255
           /\ \A k \in 1 .. Len(z) : z[k] \in 0 .. 255
           /\ ~more => z = w
  <1>1. /\ z \in Seq(Bytes) /\ Len(w) <= Len(z) /\ \A k \in 1 .. Len(w) : z[k] = w[k]
        /\ more \/ z = w
    BY Zenon DEF Becomes
  <1>2. /\ Len(w) \in Nat /\ \A k \in 1 .. Len(w) : w[k] \in 0 .. 255
        /\ Len(z) \in Nat /\ \A k \in 1 .. Len(z) : z[k] \in 0 .. 255
    BY <1>1, BytesOf
  <1> QED
    BY <1>1, <1>2, Zenon

LEMMA LiteralNow ==
    ASSUME NEW w \in Seq(Bytes), NEW more, NEW k, NoLiteral(w, more, k), NEW n \in 1 .. Len(w)
    PROVE  ~Literal(w, k, n)
  BY BecomesItself, Zenon DEF NoLiteral

LEMMA SymbolNow ==
    ASSUME NEW w \in Seq(Bytes), NEW more, NEW k, NEW j, NoSymbol(w, more, k, j),
           NEW n \in j .. Len(w)
    PROVE  ~Valid(w, k, n)
  BY BecomesItself, Zenon DEF NoSymbol

LEMMA SymbolLater ==
    ASSUME NEW w \in Seq(Bytes), NEW more, NEW k, NEW i \in Int, NEW j \in Int, i <= j,
           NoSymbol(w, more, k, i)
    PROVE  NoSymbol(w, more, k, j)
  <1>1. SUFFICES ASSUME NEW z, Becomes(w, more, z), NEW n \in j .. Len(z)
                 PROVE  ~Valid(z, k, n)
    BY Zenon DEF NoSymbol
  <1>2. Len(z) \in Nat
    BY <1>1, BecomesFacts
  <1>3. n \in i .. Len(z)
    BY <1>2
  <1> QED
    BY <1>1, <1>3, Zenon DEF NoSymbol

\* A position that can be reached, and from which none can, is the end of all strings.
LEMMA Blocked ==
    ASSUME NEW w \in Seq(Bytes), NEW more, NEW k \in Nat, NEW p \in Nat, p <= Len(w) + 1,
           Items(w, k + 1, p),
           \A z : Becomes(w, more, z) =>
               /\ p <= Len(z) => z[p] # DoubleQuote
               /\ \A j \in p + 1 .. Len(z) : ~Item(z, p, j)
    PROVE  NoLiteral(w, more, k)
  <1>1. SUFFICES ASSUME NEW z, Becomes(w, more, z), NEW n \in 1 .. Len(z), Literal(z, k, n)
                 PROVE  FALSE
    BY Zenon DEF NoLiteral
  <1>2. PICK lw, lz : lw = Len(w) /\ lz = Len(z)
    OBVIOUS
  <1>3. /\ lw \in Nat /\ lz \in Nat /\ lw <= lz /\ p <= lw + 1
        /\ \A m \in 1 .. lw : z[m] = w[m]
    BY <1>1, <1>2, BecomesFacts
  <1>4. n \in 1 .. lz
    BY <1>2
  <1>5. \A m \in k + 1 .. p - 1 : m \in 1 .. lw
    BY <1>3
  <1>6. \A m \in k + 1 .. p - 1 : z[m] = w[m]
    BY <1>3, <1>5, Zenon
  <1>7. Items(z, k + 1, p)
    <2>1. k + 1 \in Nat
      OBVIOUS
    <2> QED
      BY <1>6, <2>1, ItemsAgree
  <1>8. Items(z, k + 1, n) /\ z[n] = DoubleQuote
    BY <1>1, Zenon DEF Literal
  <1>9. p = n \/ \E j \in p + 1 .. n : Item(z, p, j)
    <2>1. k + 1 \in Nat /\ n \in Nat
      BY <1>4
    <2> QED
      BY <1>7, <1>8, <2>1, ItemsFollow
  <1>10. /\ p <= lz => z[p] # DoubleQuote
         /\ \A j \in p + 1 .. lz : ~Item(z, p, j)
    BY <1>1, <1>2, Zenon
  <1>11. p = n => p <= lz
    BY <1>4
  <1>12. \A j \in p + 1 .. n : j \in p + 1 .. lz
    BY <1>3, <1>4
  <1> QED
    BY <1>8, <1>9, <1>10, <1>11, <1>12, Zenon

-----------------------------------------------------------------------------
(***************************************************************************)
(* Escapes that may go on.                                                 *)
(***************************************************************************)
LEMMA UnfinishedAgree ==
    ASSUME NEW w, NEW z, NEW i \in Nat, NEW q \in Nat, \A k \in i .. q - 1 : z[k] = w[k],
           Unfinished(w, i, q)
    PROVE  Unfinished(z, i, q) /\ i < q
  <1>1. i < q
    BY DEF Unfinished
  <1>2. z[i] = w[i]
    BY <1>1
  <1>3. i + 2 <= q => z[i + 1] = w[i + 1]
    OBVIOUS
  <1>4. i + 3 <= q => z[i + 2] = w[i + 2]
    OBVIOUS
  <1>5. \A n \in i + 3 .. q - 1 : z[n] = w[n]
    OBVIOUS
  <1>6. \A n \in i + 2 .. q - 1 : z[n] = w[n]
    OBVIOUS
  <1>7. /\ i + 3 <= q => i + 2 <= q
        /\ q = i + 2 => i + 2 <= q
        /\ q \in {i + 2, i + 3} => i + 2 <= q
    OBVIOUS
  <1> QED
    BY <1>1, <1>2, <1>3, <1>4, <1>5, <1>6, <1>7, ZenonT(60) DEF Unfinished

\* The byte at q cannot follow in the escape at i.
Wrong(w, i, q) ==
    /\ q = i + 1 => w[q] \notin Simple \cup {117, 120}
    /\ q = i + 2 /\ w[i + 1] = 117 => w[q] # LeftCurly
    /\ i + 3 <= q /\ w[i + 1] = 117 =>
         ~IsHexDigit(w[q]) /\ ~(w[q] = RightCurly /\ ProperUnicode(w, i, q))
    /\ q \in {i + 2, i + 3} /\ w[i + 1] = 120 => ~IsHexDigit(w[q])

LEMMA HighIsWrong ==
    ASSUME NEW w, NEW i, NEW q, w[q] \in 128 .. 255
    PROVE  Wrong(w, i, q)
  <1>1. w[q] \notin Simple /\ w[q] # 117 /\ w[q] # 120
    BY DEF Simple, DoubleQuote, SingleQuote, Backslash
  <1>2. w[q] # LeftCurly /\ w[q] # RightCurly /\ ~IsHexDigit(w[q])
    BY DEF LeftCurly, RightCurly, IsHexDigit, IsDigit
  <1> QED
    BY <1>1, <1>2, SMT DEF Wrong

\* An escape that goes on beyond q.
LEMMA UnfinishedFacts ==
    ASSUME NEW z, NEW i \in Nat, NEW q \in Nat, Unfinished(z, i, q),
           NEW j \in Nat, Escaping(z, i, j)
    PROVE  q < j /\ ~Wrong(z, i, q)
  <1>1. i < q /\ i + 2 <= j
    BY DEF Unfinished, Escaping
  <1>2. CASE z[i + 1] \in Simple
    <2>1. z[i + 1] # 117 /\ z[i + 1] # 120
      BY <1>2, SimpleFacts
    <2>2. q = i + 1
      BY <2>1, Zenon DEF Unfinished
    <2>3. q < j
      BY <1>1, <2>2
    <2> QED
      BY <1>2, <2>2, <2>3, Zenon DEF Wrong
  <1>3. CASE z[i + 1] = 120
    <2>1. z[i + 1] # 117 /\ z[i + 1] \notin Simple
      BY <1>3, SimpleFacts
    <2>2. j = i + 4 /\ IsHexDigit(z[i + 2]) /\ IsHexDigit(z[i + 3])
      BY <2>1, Zenon DEF Escaping
    <2>3. q = i + 1 \/ q \in {i + 2, i + 3}
      BY <2>1, Zenon DEF Unfinished
    <2>4. q < j
      BY <2>2, <2>3
    <2> QED
      BY <1>3, <2>2, <2>3, <2>4, SMT DEF Wrong
  <1>4. CASE z[i + 1] = 117
    <2>1. z[i + 1] # 120 /\ z[i + 1] \notin Simple
      BY <1>4, SimpleFacts
    <2>2. i + 4 <= j /\ z[j - 1] = RightCurly /\ ProperUnicode(z, i, j - 1)
      BY <2>1, Zenon DEF Escaping
    <2>3. CASE q = i + 1
      BY <1>4, <2>2, <2>3, SMT DEF Wrong
    <2>4. PICK m \in Nat : m = j - 1 /\ i + 3 <= m
      BY <2>2
    <2>5. z[i + 2] = LeftCurly /\ \A n \in i + 3 .. m - 1 : IsHexDigit(z[n])
      BY <2>2, <2>4, UnicodeDigits
    <2>6. CASE q = i + 2
      BY <1>4, <2>2, <2>5, <2>6, SMT DEF Wrong
    <2>7. CASE q # i + 1 /\ q # i + 2
      <3>1. i + 3 <= q /\ \A n \in i + 3 .. q - 1 : IsHexDigit(z[n])
        BY <2>1, <2>7, SMT DEF Unfinished
      <3>2. q <= m
        <4>1. m < q => m \in i + 3 .. q - 1
          BY <2>4
        <4>2. ~IsHexDigit(z[m])
          BY <2>2, <2>4, HexFacts
        <4> QED
          BY <3>1, <4>1, <4>2
      <3>3. q < m => IsHexDigit(z[q])
        BY <2>5, <3>1
      <3>4. q = m => z[q] = RightCurly /\ ProperUnicode(z, i, q)
        BY <2>2, <2>4
      <3>5. q < j /\ (q = m \/ q < m)
        BY <2>4, <3>2
      <3> QED
        BY <1>4, <3>1, <3>3, <3>4, <3>5, Zenon DEF Wrong
    <2> QED
      BY <2>3, <2>6, <2>7
  <1> QED
    BY <1>2, <1>3, <1>4, Zenon DEF Escaping

\* An escape that cannot go on ends all strings.
LEMMA EscapeBroken ==
    ASSUME NEW w \in Seq(Bytes), NEW more, NEW k \in Nat, NEW i \in Nat, NEW q \in Nat,
           k < i, Items(w, k + 1, i), Unfinished(w, i, q), q <= Len(w) + 1,
           q <= Len(w) => Wrong(w, i, q),
           q > Len(w) => ~more
    PROVE  NoLiteral(w, more, k)
  <1>1. PICK lw \in Nat : lw = Len(w)
    OBVIOUS
  <1>2. i < q /\ w[i] = Backslash
    BY DEF Unfinished
  <1>3. ASSUME NEW z, Becomes(w, more, z)
        PROVE  /\ z[i] = Backslash
               /\ \A j \in i + 1 .. Len(z) : ~Item(z, i, j)
    <2>1. PICK lz : lz = Len(z)
      OBVIOUS
    <2>2. lz \in Nat /\ lw <= lz /\ \A m \in 1 .. lw : z[m] = w[m]
      BY <1>1, <1>3, <2>1, BecomesFacts
    <2>3. \A m \in i .. q - 1 : z[m] = w[m]
      <3>1. \A m \in i .. q - 1 : m \in 1 .. lw
        BY <1>1
      <3> QED
        BY <2>2, <3>1, Zenon
    <2>4. Unfinished(z, i, q)
      BY <2>3, UnfinishedAgree
    <2>5. z[i] = Backslash
      BY <2>4, Zenon DEF Unfinished
    <2>6. ASSUME NEW j \in i + 1 .. lz, Item(z, i, j)
          PROVE  FALSE
      <3>1. Escaping(z, i, j) /\ j \in Nat /\ j <= lz
        <4>1. ~Character(z, i, j)
          BY <2>5 DEF Character, Lead, Backslash
        <4> QED
          BY <2>2, <2>6, <4>1 DEF Item
      <3>2. q < j /\ ~Wrong(z, i, q)
        BY <2>4, <3>1, UnfinishedFacts
      <3>3. q <= lw
        <4>1. q > lw => lz = lw
          BY <1>1, <1>3, <2>1, BecomesFacts
        <4> QED
          BY <3>1, <3>2, <4>1
      <3>4. \A m \in i .. q : z[m] = w[m]
        <4>1. \A m \in i .. q : m \in 1 .. lw
          BY <3>3
        <4> QED
          BY <2>2, <4>1, Zenon
      <3>5. Wrong(w, i, q)
        BY <1>1, <3>3
      <3>6. z[q] = w[q] /\ (i + 2 <= q => z[i + 1] = w[i + 1])
        BY <1>2, <3>4
      <3>7. i + 3 <= q /\ z[i + 1] = 117 /\ z[q] = RightCurly /\ ProperUnicode(z, i, q)
            => ProperUnicode(w, i, q)
        <4>1. SUFFICES ASSUME i + 3 <= q, z[i + 1] = 117, z[q] = RightCurly,
                              ProperUnicode(z, i, q)
                       PROVE  ProperUnicode(w, i, q)
          BY Zenon
        <4>2. PICK n \in Nat : n = q + 1 /\ n - 1 = q
          OBVIOUS
        <4>3. i + 4 <= n /\ i + 2 <= n
          BY <4>1, <4>2
        <4>4. Item(z, i, n)
          BY <2>5, <4>1, <4>2, <4>3, Zenon DEF Item, Escaping
        <4>5. PICK o \in Int : o = 0 /\ i + o = i /\ n + o = n
          OBVIOUS
        <4>6. \A m \in i .. n - 1 : w[m + o] = z[m]
          BY <3>4, <4>2, <4>5
        <4>7. Item(w, i, n)
          <5>1. i + o \in Nat
            BY <4>5
          <5>2. Item(w, i + o, n + o)
            BY <4>4, <4>6, <5>1, ItemShift
          <5> QED
            BY <4>5, <5>2
        <4>8. w[i + 1] = 117
          BY <3>6, <4>1
        <4>9. w[i + 1] \notin Simple /\ w[i + 1] # 120
          BY <4>8, SimpleFacts
        <4>10. Escaping(w, i, n)
          BY <1>2, <4>7 DEF Item, Character, Lead, Backslash
        <4> QED
          BY <4>2, <4>9, <4>10, ZenonT(60) DEF Escaping
      <3>8. /\ q = i + 2 => i + 2 <= q
            /\ i + 3 <= q => i + 2 <= q
            /\ q \in {i + 2, i + 3} => i + 2 <= q
        OBVIOUS
      <3>9. Wrong(z, i, q)
        <4>1. /\ q = i + 1 => z[q] \notin Simple \cup {117, 120}
              /\ q = i + 2 /\ z[i + 1] = 117 => z[q] # LeftCurly
              /\ q \in {i + 2, i + 3} /\ z[i + 1] = 120 => ~IsHexDigit(z[q])
          BY <3>5, <3>6, <3>8 DEF Wrong
        <4>2. i + 3 <= q /\ z[i + 1] = 117 =>
                ~IsHexDigit(z[q]) /\ ~(z[q] = RightCurly /\ ProperUnicode(z, i, q))
          BY <3>5, <3>6, <3>7, <3>8, ZenonT(60) DEF Wrong
        <4> QED
          BY <4>1, <4>2, Zenon DEF Wrong
      <3> QED
        BY <3>2, <3>9
    <2> QED
      BY <2>1, <2>5, <2>6, Zenon
  <1>4. Backslash # DoubleQuote
    BY DEF Backslash, DoubleQuote
  <1>5. i <= Len(w) + 1
    BY <1>1, <1>2
  <1> QED
    BY <1>3, <1>4, <1>5, Blocked, Zenon

-----------------------------------------------------------------------------
(***************************************************************************)
(* Bytes that are no character, and characters.                            *)
(***************************************************************************)
\* With the byte at p no character goes on, in the m bytes of z.
Broken(z, m, p) ==
    /\ z[p] \in 128 .. 255
    /\ ~(p + 1 <= m /\ Lead(z[p]) /\ Trail(z[p + 1]))

LEMMA DivFacts ==
    ASSUME NEW b \in 0 .. 255
    PROVE  /\ b \div 64 = 2 <=> Trail(b)
           /\ CodepointWidth(b) = 2 <=> Lead(b)
  <1>1. b \div 64 = 2 <=> Trail(b)
    BY DEF Trail
  <1> QED
    BY <1>1, WidthFacts, SMT DEF Lead

\* What lexer_codepoint_at_offset refuses.
NoCodepoint(val) == val > 1114111 \/ IsSurrogate(val)

LEMMA PairFits ==
    ASSUME NEW u \in 64 .. 95, NEW v \in 0 .. 63
    PROVE  ~NoCodepoint((u * 64) + v)
  <1>1. PICK x \in 0 .. 6143 : x = (u * 64) + v
    OBVIOUS
  <1>2. ~NoCodepoint(x)
    BY SMT DEF NoCodepoint, IsSurrogate
  <1> QED
    BY <1>1, <1>2

\* A lead byte and the one that continues it are a character.
LEMMA PairIsChar ==
    ASSUME NEW i, Lead(Byte(i)), Trail(Byte(i + 1))
    PROVE  ~NoCodepoint(Codepoint(i, 2))
  <1>1. \A b : Lead(b) => b % 128 \in 64 .. 95
    BY DEF Lead
  <1>2. \A c : Trail(c) => c % 64 \in 0 .. 63
    BY DEF Trail
  <1>3. PICK u \in 64 .. 95 : u = Byte(i) % 128
    BY <1>1, Zenon
  <1>4. PICK v \in 0 .. 63 : v = Byte(i + 1) % 64
    BY <1>2, Zenon
  <1>5. Codepoint(i, 2) = (u * 64) + v
    <2>1. 2 \in 1 .. 2 /\ 1 # 2
      OBVIOUS
    <2> QED
      BY <1>3, <1>4, <2>1, CodepointFacts, Zenon
  <1> QED
    BY <1>5, PairFits, Zenon

LEMMA BadByte ==
    ASSUME IInv, Peek = BadUtf8, ~(open /\ NeedsInput(index)), NEW p \in Nat, p = index + 1
    PROVE  /\ p <= Len(input) /\ input[p] \in 128 .. 255
           /\ \A z : Becomes(input, open, z) => Broken(z, Len(z), p)
  <1>1. PICK n : n = Len(input)
    OBVIOUS
  <1>2. /\ input \in Seq(Bytes) /\ n \in Nat /\ index \in Nat /\ index < n
        /\ ~(index >= Len(input)) /\ ~IsChar
    BY <1>1, PositionFacts DEF IInv, BufferInv
  <1>3. Byte(index) = input[p] /\ input[p] \in 128 .. 255
    BY BadFacts DEF Byte
  <1>4. ASSUME Lead(input[p])
        PROVE  p + 1 <= n => ~Trail(input[p + 1])
    <2>1. SUFFICES ASSUME p + 1 <= n, Trail(input[p + 1])
                   PROVE  FALSE
      OBVIOUS
    <2>2. CodepointWidth(Byte(index)) = 2
      <3>1. input[p] \in 0 .. 255
        BY <1>3
      <3> QED
        BY <1>3, <1>4, <3>1, DivFacts
    <2>3. Byte(index + 1) = input[p + 1] /\ index + 1 < n
      BY <1>2, <2>1 DEF Byte
    <2>4. Byte(index + 1) \div 64 = 2
      <3>1. input[p + 1] \in 0 .. 255
        BY <2>1 DEF Trail
      <3> QED
        BY <2>1, <2>3, <3>1, DivFacts
    <2>5. Continues(index, 2 - 1)
      <3>1. \A k \in 1 .. 2 - 1 : k = 1
        OBVIOUS
      <3> QED
        BY <1>1, <2>3, <2>4, <3>1 DEF Continues
    <2>6. ~NoCodepoint(Codepoint(index, 2))
      BY <1>3, <1>4, <2>1, <2>3, PairIsChar
    <2>7. Peek = Char(Codepoint(index, 2), 2)
      <3>1. 2 # 0
        OBVIOUS
      <3> QED
        BY <1>2, <2>2, <2>5, <2>6, <3>1, SMT DEF Peek, CodepointAt, NoCodepoint
    <2> QED
      BY <1>2, <2>7 DEF IsChar, Char
  <1>5. Lead(input[p]) /\ p = n => ~open
    <2>1. SUFFICES ASSUME Lead(input[p]), p = n
                   PROVE  NeedsInput(index)
      BY Zenon
    <2>2. CodepointWidth(Byte(index)) = 2
      <3>1. input[p] \in 0 .. 255
        BY <1>3
      <3> QED
        BY <1>3, <2>1, <3>1, DivFacts
    <2>3. Continues(index, 1 - 1)
      BY DEF Continues
    <2>4. 1 \in 1 .. 2 - 1
      OBVIOUS
    <2>5. index + 1 = Len(input) /\ index < Len(input)
      BY <1>1, <1>2, <2>1
    <2>6. index < Len(input) /\ \E m \in 1 .. CodepointWidth(Byte(index)) - 1 :
                                   index + m = Len(input) /\ Continues(index, m - 1)
      BY <2>2, <2>3, <2>4, <2>5, Zenon
    <2> QED
      BY <2>6, Zenon DEF NeedsInput
  <1>6. ASSUME NEW z, Becomes(input, open, z)
        PROVE  Broken(z, Len(z), p)
    <2>1. PICK m : m = Len(z)
      OBVIOUS
    <2>2. /\ m \in Nat /\ n <= m /\ \A k \in 1 .. n : z[k] = input[k]
          /\ ~open => m = n
      BY <1>1, <1>2, <1>6, <2>1, BecomesFacts
    <2>3. p \in 1 .. n
      BY <1>2
    <2>4. z[p] = input[p]
      BY <2>2, <2>3, Zenon
    <2>5. ASSUME p + 1 <= m, Lead(z[p]), Trail(z[p + 1])
          PROVE  FALSE
      <3>1. p + 1 <= n
        <4>1. p = n => m = n
          BY <1>5, <2>2, <2>4, <2>5, Zenon
        <4>2. p <= n
          BY <1>1, <2>3
        <4> QED
          BY <1>2, <2>2, <2>5, <4>1, <4>2
      <3>2. z[p + 1] = input[p + 1]
        BY <2>2, <3>1
      <3> QED
        BY <1>4, <2>4, <2>5, <3>1, <3>2
    <2> QED
      BY <1>3, <2>1, <2>4, <2>5, Zenon DEF Broken
  <1>7. p <= Len(input)
    BY <1>1, <1>2
  <1> QED
    BY <1>3, <1>6, <1>7

\* It cannot go on in a string, in an escape, or in a symbol.
LEMMA BrokenItem ==
    ASSUME NEW z, NEW m \in Nat, NEW p \in Nat, Broken(z, m, p), NEW j \in Nat, j <= m
    PROVE  z[p] # DoubleQuote /\ ~Item(z, p, j)
  <1>1. z[p] # DoubleQuote /\ z[p] # Backslash /\ ~(z[p] < 128)
    BY DEF Broken, DoubleQuote, Backslash
  <1>2. j = p + 2 => p + 1 <= m
    OBVIOUS
  <1>3. ~Character(z, p, j)
    BY <1>1, <1>2, Zenon DEF Broken, Character
  <1> QED
    BY <1>1, <1>3, Zenon DEF Item, Escaping

LEMMA BrokenSymbol ==
    ASSUME NEW z, NEW m \in Nat, NEW k \in Nat, NEW p \in Nat, k <= p, Broken(z, m, p),
           Valid(z, k, p - 1),
           NEW n \in Nat, p <= n, n <= m
    PROVE  ~Valid(z, k, n)
  <1>1. SUFFICES ASSUME Valid(z, k, n)
                 PROVE  FALSE
    OBVIOUS
  <1>2. p \in k .. n /\ ~(z[p] < 128)
    BY DEF Broken
  <1>3. p + 1 <= n => p + 1 <= m
    OBVIOUS
  <1>4. k <= p - 1 /\ Lead(z[p - 1]) /\ Trail(z[p])
    BY <1>1, <1>2, <1>3, Zenon DEF Valid, Broken
  <1>5. p - 1 \in k .. p - 1 /\ ~((p - 1) + 1 <= p - 1)
    BY <1>4
  <1>6. z[p - 1] < 128 \/ Trail(z[p - 1])
    BY <1>5, Zenon DEF Valid
  <1> QED
    BY <1>4, <1>6, SMT DEF Lead, Trail

-----------------------------------------------------------------------------
(***************************************************************************)
(* The steps in a string.                                                  *)
(***************************************************************************)
\* The character that was peeked, in the bytes of the input.
LEMMA CharItem ==
    ASSUME IInv, IsChar, NEW j, j = index + Peek.width, NEW p, p = index + 1
    PROVE  /\ j \in Nat /\ index < j /\ p <= j /\ j <= Len(input) /\ Peek.c \in Nat
           /\ p \in Nat /\ p \in 1 .. Len(input)
           /\ \/ j = p /\ input[p] = Peek.c /\ Peek.c < 128
              \/ j = p + 1 /\ Peek.c >= 128 /\ Lead(input[p]) /\ Trail(input[p + 1])
           /\ Peek.c \notin {DoubleQuote, Backslash} => Item(input, p, j + 1)
  <1>1. /\ j \in Nat /\ index < j /\ j <= Len(input)
        /\ Peek.c \in Nat
        /\ \/ j = index + 1 /\ Byte(index) = Peek.c /\ Peek.c < 128
           \/ /\ j = index + 2 /\ Peek.c >= 128
              /\ Lead(Byte(index)) /\ Trail(Byte(index + 1))
    BY CharBytes
  <1>2. index \in Nat /\ Len(input) \in Nat
    BY PositionFacts
  <1>3. Byte(index) = input[p]
    BY DEF Byte
  <1>4. Byte(index + 1) = input[p + 1]
    BY DEF Byte
  <1>5. \/ j = p /\ input[p] = Peek.c /\ Peek.c < 128
        \/ j = p + 1 /\ Peek.c >= 128 /\ Lead(input[p]) /\ Trail(input[p + 1])
    BY <1>1, <1>2, <1>3, <1>4
  <1>6. p \in Nat /\ p <= j /\ p \in 1 .. Len(input)
    BY <1>1, <1>2
  <1>7. Peek.c \notin {DoubleQuote, Backslash} => Item(input, p, j + 1)
    <2>1. j = p + 1 => j + 1 = p + 2
      BY <1>6
    <2> QED
      BY <1>5, <2>1, Zenon DEF Item, Character
  <1> QED
    BY <1>1, <1>5, <1>6, <1>7

LEMMA SequenceLonger ==
    ASSUME NEW S, NEW s \in Seq(S), NEW x, NEW y
    PROVE  /\ Len(s) \in Nat
           /\ Len(s \o <<>>) = Len(s)
           /\ Len(s \o <<x>>) = Len(s) + 1
           /\ Len(s \o <<x, y>>) = Len(s) + 2
  <1> DEFINE T == S \cup {x, y}
  <1>1. s \in Seq(T)
    OBVIOUS
  <1>2. <<>> \in Seq(T) /\ <<x>> \in Seq(T) /\ <<x, y>> \in Seq(T)
    OBVIOUS
  <1>3. Len(<<>>) = 0 /\ Len(<<x>>) = 1 /\ Len(<<x, y>>) = 2
    OBVIOUS
  <1>4. Len(s) \in Nat
    BY LenProperties
  <1> HIDE DEF T
  <1>5. /\ Len(s \o <<>>) = Len(s) + Len(<<>>)
        /\ Len(s \o <<x>>) = Len(s) + Len(<<x>>)
        /\ Len(s \o <<x, y>>) = Len(s) + Len(<<x, y>>)
    BY <1>1, <1>2, ConcatProperties, Zenon
  <1> QED
    BY <1>3, <1>4, <1>5

\* The number of errors grows by those that are added.
LEMMA MoreErrors ==
    ASSUME IInv, NEW x, NEW y, NEW errors \in {<<>>, <<x>>, <<x, y>>}, AddErrors(errors)
    PROVE  /\ Len(context) \in Nat /\ Len(context') \in Nat /\ Len(context) <= Len(context')
           /\ errors = <<>> <=> Len(context') = Len(context)
  <1>1. PICK c \in Seq(Errors) : c = context
    BY DEF IInv, ContextInv
  <1>2. /\ Len(c) \in Nat
        /\ Len(c \o <<>>) = Len(c)
        /\ Len(c \o <<x>>) = Len(c) + 1
        /\ Len(c \o <<x, y>>) = Len(c) + 2
    BY SequenceLonger
  <1>3. context' = c \o errors
    BY <1>1 DEF AddErrors
  <1>4. <<x>> # <<>> /\ <<x, y>> # <<>>
    OBVIOUS
  <1>5. CASE errors = <<>>
    BY <1>1, <1>2, <1>3, <1>5
  <1>6. CASE errors = <<x>>
    BY <1>1, <1>2, <1>3, <1>4, <1>6
  <1>7. CASE errors = <<x, y>>
    BY <1>1, <1>2, <1>3, <1>4, <1>7
  <1> QED
    BY <1>5, <1>6, <1>7

LEMMA NoMoreErrors ==
    ASSUME IInv, UNCHANGED context
    PROVE  /\ Len(context) \in Nat /\ Len(context') \in Nat /\ Len(context') = Len(context)
  <1>1. PICK c \in Seq(Errors) : c = context
    BY DEF IInv, ContextInv
  <1>2. Len(c) \in Nat
    BY LenProperties
  <1> QED
    BY <1>1, <1>2

\* What is known in a string.
LEMMA FlawsInString ==
    ASSUME IInv, TextInv, FlawInv, NEW pc \in InString, At(pc)
    PROVE  /\ StringOK(input, open, lex, index, Len(context))
           /\ input \in Seq(Bytes) /\ lex.start \in Nat /\ index \in Nat
           /\ lex.start < index /\ index <= Len(input) /\ Len(input) \in Nat
           /\ lex.escape \in Nat /\ lex.pc = pc /\ IsLex(lex)
           /\ Len(context) \in Nat
  <1>1. /\ lex.pc = pc /\ lex.start \in Nat /\ lex.start < index /\ index \in Nat
        /\ index <= Len(input) /\ Len(input) \in Nat /\ lex.escape \in Nat /\ IsLex(lex)
    BY StringFacts
  <1>2. IsString(lex)
    BY <1>1 DEF IsString
  <1>3. StringOK(input, open, lex, index, Len(context))
    BY <1>2, Zenon DEF FlawInv, StringInv
  <1>4. Len(context) \in Nat /\ input \in Seq(Bytes)
    BY DEF IInv, ContextInv, BufferInv
  <1> QED
    BY <1>1, <1>3, <1>4, Zenon

\* A string goes on.
LEMMA StringGoesOn ==
    ASSUME IInv, TextInv, FlawInv, NEW pc \in InString, At(pc), UNCHANGED buffer,
           NEW n \in Nat, n = Len(context'), Len(context) <= n,
           NEW l, lex' = l, l.start = lex.start, l.errors = lex.errors,
           NEW j \in Nat, j = index', IsString(l), l.pc = "skip" => l.bad = j,
           StringSoFar(input, lex, index) /\ n = Len(context) => StringSoFar(input, l, j),
           StringSoFar(input, lex, index) /\ Len(context) < n =>
               NoLiteral(input, open, lex.start + 1)
    PROVE  FlawInv'
  <1>1. PICK m \in Nat : m = Len(context)
    BY FlawsInString
  <1>2. /\ input[lex.start + 1] = DoubleQuote
        /\ lex.errors \in Nat /\ lex.errors <= m
        /\ lex.errors = m => StringSoFar(input, lex, index)
        /\ lex.errors < m => NoLiteral(input, open, lex.start + 1)
    BY <1>1, FlawsInString, Zenon DEF StringOK
  <1>3. ~(l.pc = "skip" /\ l.bad < j)
    OBVIOUS
  <1>4. lex.errors = n => StringSoFar(input, l, j)
    <2>1. lex.errors = n => lex.errors = m /\ n = m
      BY <1>1, <1>2
    <2> QED
      BY <1>1, <1>2, <2>1, Zenon
  <1>5. lex.errors < n => NoLiteral(input, open, lex.start + 1)
    <2>1. lex.errors < n => lex.errors < m \/ (lex.errors = m /\ m < n)
      BY <1>1, <1>2
    <2> QED
      BY <1>1, <1>2, <2>1, Zenon
  <1>6. lex.errors <= n
    BY <1>1, <1>2
  <1>7. StringOK(input, open, l, j, n)
    BY <1>2, <1>3, <1>4, <1>5, <1>6, Zenon DEF StringOK
  <1>8. StringInv'
    <2>1. input' = input /\ open' = open
      BY DEF buffer
    <2> QED
      BY <1>7, <2>1, Zenon DEF StringInv
  <1>9. ~IsSymbol(l) /\ l.pc # "done"
    BY SMT DEF IsString, IsSymbol, InString, Inside
  <1> QED
    BY <1>8, <1>9, Zenon DEF FlawInv, SymbolInv, FlagInv

\* A string is returned.
LEMMA StringFlagged ==
    ASSUME IInv, TextInv, FlawInv, NEW pc \in InString, At(pc), UNCHANGED buffer,
           index' = index,
           NEW n \in Nat, n = Len(context'), Len(context) <= n,
           ReturnToken("STRING", lex.start, lex.errors),
           StringSoFar(input, lex, index) =>
               (n = Len(context) <=> Literal(input, lex.start + 1, index) /\ Delimited)
    PROVE  FlawInv'
  <1>1. PICK m \in Nat : m = Len(context)
    BY FlawsInString
  <1>2. /\ input[lex.start + 1] = DoubleQuote
        /\ lex.errors \in Nat /\ lex.errors <= m
        /\ lex.errors = m => StringSoFar(input, lex, index)
        /\ lex.errors < m => NoLiteral(input, open, lex.start + 1)
    BY <1>1, FlawsInString, Zenon DEF StringOK
  <1>3. /\ lex.start \in Nat /\ index \in Nat /\ lex.start < index /\ index \in 1 .. Len(input)
        /\ input \in Seq(Bytes)
    BY FlawsInString
  <1>4. PICK s \in Nat : s = lex.start
    BY <1>3
  <1>5. PICK t : /\ t = token'
                 /\ t.type = "STRING" /\ t.index = s /\ t.index + t.length = index
                 /\ t.had_error <=> n # lex.errors
    <2>1. token' = [type |-> "STRING", index |-> s, length |-> index - s,
                    had_error |-> n # lex.errors]
      BY <1>4 DEF ReturnToken
    <2>2. s + (index - s) = index
      BY <1>3, <1>4
    <2>3. token'.type = "STRING" /\ token'.index = s /\ token'.length = index - s
      BY <2>1
    <2>4. token'.had_error <=> n # lex.errors
      BY <2>1, Zenon
    <2>5. token'.index + token'.length = index
      BY <2>2, <2>3
    <2> QED
      BY <2>3, <2>4, <2>5, Zenon
  <1>6. lex'.pc = "done"
    BY DEF ReturnToken, Idle
  <1>7. n # lex.errors <=> ~(Literal(input, s + 1, index) /\ Delimited)
    <2>1. CASE lex.errors = m
      BY <1>1, <1>2, <1>4, <2>1
    <2>2. CASE lex.errors < m
      <3>1. ~Literal(input, s + 1, index)
        BY <1>2, <1>3, <1>4, <2>2, LiteralNow
      <3> QED
        BY <1>1, <1>2, <2>2, <3>1
    <2> QED
      BY <1>1, <1>2, <2>1, <2>2
  <1>8. FlagInv'
    <2>1. input' = input /\ open' = open /\ index' = index
      BY DEF buffer
    <2>2. Delimited' <=> Delimited
      BY <2>1 DEF Delimited, AtTheEnd, Byte
    <2>3. t.type \notin {"SYMBOL", "NUMBER"}
      BY <1>5
    <2>4. t.had_error <=> Deserved(t)'
      BY <1>5, <1>7, <2>1, <2>2, <2>3, Zenon DEF Deserved
    <2>5. token'.had_error <=> Deserved(token)'
      BY <1>5, <2>4 DEF Deserved
    <2>6. input'[token'.index + 1] = DoubleQuote
      BY <1>2, <1>4, <1>5, <2>1
    <2> QED
      BY <2>5, <2>6, Zenon DEF FlagInv
  <1>9. ~IsString(lex)' /\ ~IsSymbol(lex)'
    BY <1>6, SMT DEF IsString, IsSymbol, InString, Inside
  <1> QED
    BY <1>8, <1>9, Zenon DEF FlawInv, StringInv, SymbolInv

\* Nothing of a string remains to be read.
LEMMA StringAtEnd ==
    ASSUME NEW w, NEW i \in Nat, NEW j \in Nat, Items(w, i, j + 1)
    PROVE  ~(Items(w, i, j) /\ w[j] = DoubleQuote)
  <1>1. SUFFICES ASSUME Items(w, i, j), w[j] = DoubleQuote
                 PROVE  FALSE
    OBVIOUS
  <1>2. j + 1 \in Nat /\ j + 1 # j /\ (j + 1) + 1 .. j = {}
    OBVIOUS
  <1> QED
    BY <1>1, <1>2, ItemsFollow, Zenon

LEMMA LexStringFlaws ==
    ASSUME IInv, TextInv, FlawInv, LexString
    PROVE  FlawInv'
  <1>1. At("string") /\ UNCHANGED buffer /\ "string" \in InString
    BY DEF LexString, InString
  <1>2. /\ input \in Seq(Bytes) /\ lex.start \in Nat /\ index \in Nat
        /\ lex.start < index /\ index <= Len(input) /\ Len(input) \in Nat
        /\ lex.escape \in Nat /\ lex.pc = "string" /\ IsLex(lex) /\ Len(context) \in Nat
    BY <1>1, FlawsInString
  <1>3. StringSoFar(input, lex, index) => Items(input, lex.start + 2, index + 1)
    BY <1>2, Zenon DEF StringSoFar
  <1>4. PICK p \in Nat : p = index + 1
    BY <1>2
  <1>5. PICK a \in Nat : a = lex.start + 2
    BY <1>2
  <1>6. PICK n \in Nat : n = Len(context)
    BY <1>2
  <1>7. CASE /\ IsChar
             /\ Take(CASE Peek.c = Backslash ->
                            [lex EXCEPT !.pc = "escape", !.c = Peek.c, !.escape = index]
                       [] Peek.c = DoubleQuote ->
                            [lex EXCEPT !.pc = "suffix", !.c = Peek.c]
                       [] OTHER -> [lex EXCEPT !.c = Peek.c])
             /\ NoError /\ UNCHANGED token
    <2>1. n = Len(context') /\ Len(context) <= n
      BY <1>6, <1>7, NoMoreErrors DEF NoError
    <2>2. PICK j : j = index + Peek.width /\ j = index'
      BY <1>7 DEF Take
    <2>3. /\ j \in Nat /\ p \in Nat /\ Peek.c \in Nat
          /\ \/ j = p /\ input[p] = Peek.c /\ Peek.c < 128
             \/ j = p + 1 /\ Peek.c >= 128 /\ Lead(input[p]) /\ Trail(input[p + 1])
          /\ Peek.c \notin {DoubleQuote, Backslash} => Item(input, p, j + 1)
      BY <1>4, <1>7, <2>2, CharItem
    <2>4. PICK l : l = lex'
      OBVIOUS
    <2>5. Peek.c \in {DoubleQuote, Backslash} => j = p /\ input[p] = Peek.c
      BY <2>3 DEF DoubleQuote, Backslash
    <2>6. CASE Peek.c = Backslash
      <3>1. l = [lex EXCEPT !.pc = "escape", !.c = Peek.c, !.escape = index]
        BY <1>7, <2>4, <2>6 DEF Take, Backslash, DoubleQuote
      <3>2. /\ l.pc = "escape" /\ l.start = lex.start /\ l.errors = lex.errors
            /\ l.escape = index
        BY <1>2, <3>1 DEF IsLex
      <3>3. ASSUME Items(input, a, p)
            PROVE  StringSoFar(input, l, j)
        <4>1. Unfinished(input, p, j + 1)
          <5>1. j + 1 = p + 1 /\ input[p] = Backslash
            BY <2>5, <2>6
          <5> QED
            BY <5>1, Zenon DEF Unfinished
        <4>2. l.start + 2 = a /\ l.escape + 1 = p /\ j = l.escape + 1
          BY <1>4, <1>5, <2>5, <2>6, <3>2
        <4>3. EscapeSoFar(input, l, j)
          BY <3>2, <3>3, <4>1, <4>2, Zenon DEF EscapeSoFar, EscapeTo
        <4> QED
          BY <3>2, <4>3, Zenon DEF StringSoFar
      <3>4. IsString(l) /\ l.pc # "skip"
        BY <3>2 DEF IsString, InString, Inside
      <3> QED
        BY <1>1, <1>3, <1>4, <1>5, <1>6, <2>1, <2>2, <2>3, <2>4, <3>2, <3>3, <3>4,
           StringGoesOn
    <2>7. CASE Peek.c = DoubleQuote
      <3>1. l = [lex EXCEPT !.pc = "suffix", !.c = Peek.c]
        BY <1>7, <2>4, <2>7 DEF Take, Backslash, DoubleQuote
      <3>2. l.pc = "suffix" /\ l.start = lex.start /\ l.errors = lex.errors
        BY <1>2, <3>1 DEF IsLex
      <3>3. ASSUME Items(input, a, p)
            PROVE  StringSoFar(input, l, j)
        <4>1. input[lex.start + 1] = DoubleQuote
          BY <1>1, FlawsInString DEF StringOK
        <4>2. (l.start + 1) + 1 = a /\ j = p /\ input[p] = DoubleQuote
              /\ l.start + 1 < j /\ l.start + 1 = lex.start + 1
          BY <1>2, <1>4, <1>5, <2>5, <2>7, <3>2
        <4>3. Literal(input, l.start + 1, j)
          BY <3>3, <4>1, <4>2, Zenon DEF Literal
        <4> QED
          BY <3>2, <4>3, SMT DEF StringSoFar, Inside
      <3>4. IsString(l) /\ l.pc # "skip"
        BY <3>2 DEF IsString, InString
      <3> QED
        BY <1>1, <1>3, <1>4, <1>5, <1>6, <2>1, <2>2, <2>3, <2>4, <3>2, <3>3, <3>4,
           StringGoesOn
    <2>8. CASE Peek.c \notin {DoubleQuote, Backslash}
      <3>1. l = [lex EXCEPT !.c = Peek.c]
        BY <1>7, <2>4, <2>8 DEF Take
      <3>2. l.pc = "string" /\ l.start = lex.start /\ l.errors = lex.errors
        BY <1>2, <3>1 DEF IsLex
      <3>3. ASSUME Items(input, a, p)
            PROVE  StringSoFar(input, l, j)
        <4>1. Items(input, a, j + 1)
          <5>1. j + 1 \in Nat
            BY <2>3
          <5> QED
            BY <2>3, <2>8, <3>3, <5>1, ItemsExtend
        <4>2. l.start + 2 = a
          BY <1>5, <3>2
        <4> QED
          BY <3>2, <4>1, <4>2, SMT DEF StringSoFar, Inside
      <3>4. IsString(l) /\ l.pc # "skip"
        BY <3>2 DEF IsString, InString
      <3> QED
        BY <1>1, <1>3, <1>4, <1>5, <1>6, <2>1, <2>2, <2>3, <2>4, <3>2, <3>3, <3>4,
           StringGoesOn
    <2> QED
      BY <2>6, <2>7, <2>8
  <1>8. CASE SkipThen(IF lex.c = DoubleQuote THEN "suffix" ELSE "string", lex)
    <2>1. PICK resume \in {"suffix", "string"} : SkipThen(resume, lex)
      BY <1>8, Zenon
    <2>2. /\ index' = index /\ context' = context
          /\ lex' = [lex EXCEPT !.pc = "skip", !.bad = index, !.resume = resume]
      BY <2>1 DEF SkipThen, Stay, NoError
    <2>3. n = Len(context') /\ Len(context) <= n
      BY <1>6, <2>2
    <2>4. PICK l, j : l = lex' /\ j = index'
      OBVIOUS
    <2>5. /\ l.pc = "skip" /\ l.start = lex.start /\ l.errors = lex.errors
          /\ l.bad = j /\ l.resume = resume /\ j \in Nat /\ j + 1 = p
      BY <1>4, <1>2, <2>2, <2>4 DEF IsLex
    <2>6. ASSUME Items(input, a, p)
          PROVE  StringSoFar(input, l, j)
      <3>1. l.start + 2 = a /\ l.bad + 1 = p /\ l.resume # "escape" /\ l.pc \notin Inside
        BY <1>4, <1>5, <2>1, <2>5 DEF Inside
      <3> QED
        BY <2>5, <2>6, <3>1, SMT DEF StringSoFar
    <2>7. IsString(l)
      BY <2>1, <2>5 DEF IsString, InString
    <2>8. StringSoFar(input, lex, index) => StringSoFar(input, l, j)
      BY <1>3, <1>4, <1>5, <2>6, Zenon
    <2>9. ~(Len(context) < n)
      BY <1>6
    <2> QED
      BY <1>1, <2>2, <2>3, <2>4, <2>5, <2>7, <2>8, <2>9, StringGoesOn, Zenon
  <1>9. CASE /\ Peek = EndOfInput
             /\ UNCHANGED index
             /\ AddErrors(<<Error("UNTERMINATED_STRING", lex.start, index)>>)
             /\ ReturnToken("STRING", lex.start, lex.errors)
    <2>1. PICK x : AddErrors(<<x>>)
      BY <1>9
    <2>2. <<x>> # <<>>
      OBVIOUS
    <2>3. PICK m \in Nat : m = Len(context') /\ Len(context) <= m /\ m # Len(context)
      BY <2>1, <2>2, MoreErrors
    <2>4. StringSoFar(input, lex, index) => ~Literal(input, lex.start + 1, index)
      <3>1. (lex.start + 1) + 1 = a
        BY <1>5, <1>2
      <3>2. Items(input, a, index + 1) => ~(Items(input, a, index) /\ input[index] = DoubleQuote)
        BY <1>2, StringAtEnd
      <3> QED
        BY <1>3, <1>5, <3>1, <3>2, Zenon DEF Literal
    <2> QED
      BY <1>1, <1>9, <2>3, <2>4, StringFlagged, Zenon
  <1> QED
    BY <1>1, <1>7, <1>8, <1>9, Zenon DEF LexString

\* What the lexer peeks after a token tells whether it is delimited.
LEMMA DelimitedNext ==
    ASSUME IInv, NEW pc, At(pc)
    PROVE  Delimited <=> Peek = EndOfInput \/ (IsChar /\ IsDelimiter(Peek.c))
  <1>1. /\ index \in Nat /\ Len(input) \in Nat /\ index <= Len(input)
        /\ Peek = EndOfInput \/ Peek = BadUtf8 \/ IsChar
        /\ Peek = EndOfInput => index = Len(input)
        /\ Peek = BadUtf8 => index < Len(input) /\ Peek # EndOfInput /\ ~IsChar
        /\ IsChar => index < Len(input) /\ Peek # EndOfInput
    BY PositionFacts
  <1>2. CASE Peek = EndOfInput
    <2>1. input \in Seq(Bytes) /\ index \in 0 .. Len(input)
      BY DEF IInv, BufferInv, LexInv
    <2> QED
      BY <1>2, <2>1, EndFacts DEF Delimited
  <1>3. CASE Peek = BadUtf8
    <2>1. Byte(index) \in 128 .. 255
      BY <1>3, BadFacts
    <2>2. ~IsDelimiter(Byte(index))
      BY <2>1, HighFacts
    <2>3. ~AtTheEnd
      BY <1>1, <1>3 DEF AtTheEnd
    <2> QED
      BY <1>1, <1>3, <2>2, <2>3, Zenon DEF Delimited
  <1>4. CASE IsChar
    <2>1. ~AtTheEnd
      BY <1>1, <1>4 DEF AtTheEnd
    <2>2. PICK c \in Nat : c = Peek.c /\ (Byte(index) = c \/ (c >= 128 /\ Byte(index) >= 128))
      <3>1. PICK j : j = index + Peek.width
        OBVIOUS
      <3>2. /\ j \in Nat /\ index < j /\ Peek.c \in Nat
            /\ \/ j = index + 1 /\ Byte(index) = Peek.c /\ Peek.c < 128
               \/ Peek.c >= 128 /\ \A p \in index .. j - 1 : Byte(p) >= 128
        BY <1>4, <3>1, CharFacts
      <3>3. index \in index .. j - 1
        BY <1>1, <3>2
      <3> QED
        BY <3>2, <3>3
    <2>3. Byte(index) \in Nat
      <3>1. Byte(index) \in 0 .. 255
        BY <1>1, <1>4, ByteFacts
      <3> QED
        BY <3>1
    <2>4. IsDelimiter(Byte(index)) <=> IsDelimiter(c)
      BY <2>2, <2>3, HighFacts, Zenon
    <2> QED
      BY <1>1, <1>4, <2>1, <2>2, <2>4, Zenon DEF Delimited
  <1> QED
    BY <1>1, <1>2, <1>3, <1>4

LEMMA LexSuffixFlaws ==
    ASSUME IInv, TextInv, FlawInv, LexSuffix
    PROVE  FlawInv'
  <1>1. /\ At("suffix") /\ UNCHANGED buffer /\ index' = index /\ "suffix" \in InString
        /\ ReturnToken("STRING", lex.start, lex.errors)
    BY DEF LexSuffix, InString
  <1>2. lex.pc = "suffix" /\ lex.start \in Nat
    BY <1>1, FlawsInString
  <1>3. StringSoFar(input, lex, index) => Literal(input, lex.start + 1, index)
    BY <1>2, Zenon DEF StringSoFar
  <1>4. PICK x, errors : /\ errors = IF Delimited THEN <<>> ELSE <<x>>
                         /\ AddErrors(errors)
    BY <1>1, DelimitedNext, Zenon DEF LexSuffix
  <1>5. <<x>> # <<>>
    OBVIOUS
  <1>6. errors \in {<<>>, <<x>>, <<x, x>>} /\ (errors = <<>> <=> Delimited)
    BY <1>4, <1>5
  <1>7. PICK n \in Nat : /\ n = Len(context') /\ Len(context) <= n
                         /\ n = Len(context) <=> Delimited
    BY <1>4, <1>6, MoreErrors
  <1> QED
    BY <1>1, <1>3, <1>7, StringFlagged, Zenon

-----------------------------------------------------------------------------
(***************************************************************************)
(* The steps in an escape.                                                 *)
(***************************************************************************)
LEMMA FlawsInEscape ==
    ASSUME IInv, TextInv, FlawInv, NEW pc \in Inside, At(pc)
    PROVE  /\ pc \in InString /\ input \in Seq(Bytes) /\ lex.start \in Nat /\ index \in Nat
           /\ index <= Len(input) /\ Len(input) \in Nat
           /\ lex.escape \in Nat /\ lex.escape < index
           /\ lex.pc = pc /\ IsLex(lex) /\ Len(context) \in Nat
           /\ StringSoFar(input, lex, index) => EscapeSoFar(input, lex, index)
           /\ EscapeSoFar(input, lex, index) =>
                /\ Items(input, lex.start + 2, lex.escape + 1)
                /\ Unfinished(input, lex.escape + 1, index + 1)
                /\ lex.start + 1 < lex.escape + 1
  <1>1. pc \in InString
    BY DEF InString
  <1>2. /\ input \in Seq(Bytes) /\ lex.start \in Nat /\ index \in Nat
        /\ index <= Len(input) /\ Len(input) \in Nat
        /\ lex.escape \in Nat /\ lex.pc = pc /\ IsLex(lex) /\ Len(context) \in Nat
    BY <1>1, FlawsInString
  <1>3. lex.escape < index
    BY <1>1, StringFacts
  <1>4. StringSoFar(input, lex, index) => EscapeSoFar(input, lex, index)
    BY <1>2, Zenon DEF StringSoFar
  <1>5. ASSUME EscapeSoFar(input, lex, index)
        PROVE  /\ Items(input, lex.start + 2, lex.escape + 1)
               /\ Unfinished(input, lex.escape + 1, index + 1)
    BY <1>5, Zenon DEF EscapeSoFar, EscapeTo
  <1>6. Items(input, lex.start + 2, lex.escape + 1) => lex.start + 1 < lex.escape + 1
    <2>1. PICK a, b \in Nat : a = lex.start + 2 /\ b = lex.escape + 1
      BY <1>2
    <2>2. Items(input, a, b) => a \in a .. b
      BY Zenon DEF Items
    <2> QED
      BY <1>2, <2>1, <2>2
  <1> QED
    BY <1>1, <1>2, <1>3, <1>4, <1>5, <1>6

\* Nothing may follow what is read of an escape.
Stuck ==
    /\ index + 1 <= Len(input) => Wrong(input, lex.escape + 1, index + 1)
    /\ index + 1 > Len(input) => ~open

LEMMA StuckEscape ==
    ASSUME IInv, TextInv, FlawInv, NEW pc \in Inside, At(pc), Stuck,
           EscapeSoFar(input, lex, index)
    PROVE  NoLiteral(input, open, lex.start + 1)
  <1>1. PICK k \in Nat, i \in Nat, q \in Nat :
          k = lex.start + 1 /\ i = lex.escape + 1 /\ q = index + 1
    BY FlawsInEscape
  <1>2. /\ input \in Seq(Bytes) /\ q <= Len(input) + 1
        /\ k < i /\ lex.start + 2 = k + 1 /\ Unfinished(input, i, q)
    BY <1>1, FlawsInEscape
  <1>3. Items(input, k + 1, i)
    BY <1>1, <1>2, FlawsInEscape
  <1>4. /\ q <= Len(input) => Wrong(input, i, q)
        /\ q > Len(input) => ~open
    BY <1>1, Zenon DEF Stuck
  <1>5. NoLiteral(input, open, k)
    BY <1>2, <1>3, <1>4, EscapeBroken
  <1> QED
    BY <1>1, <1>5, Zenon

LEMMA NextPosition ==
    ASSUME NEW j \in Nat
    PROVE  j + 1 \in Nat
  OBVIOUS

\* lexer_handle_escape returns.
LEMMA EscapedFlaws ==
    ASSUME IInv, TextInv, FlawInv, NEW pc \in Inside, At(pc), UNCHANGED buffer,
           NEW x, NEW errors \in {<<>>, <<x>>}, Escaped(errors),
           NEW j \in Nat, j = index',
           EscapeSoFar(input, lex, index) /\ errors = <<>> => Item(input, lex.escape + 1, j + 1),
           EscapeSoFar(input, lex, index) /\ errors # <<>> => Stuck
    PROVE  FlawInv'
  <1>1. PICK a \in Nat, i \in Nat : a = lex.start + 2 /\ i = lex.escape + 1
    BY FlawsInEscape
  <1>2. PICK l : l = lex' /\ l = [lex EXCEPT !.pc = "string"]
    BY DEF Escaped
  <1>3. l.pc = "string" /\ l.start = lex.start /\ l.errors = lex.errors
    BY <1>2, FlawsInEscape DEF IsLex
  <1>4. PICK n \in Nat : /\ n = Len(context') /\ Len(context) <= n
                         /\ errors = <<>> <=> n = Len(context)
    <2>1. errors \in {<<>>, <<x>>, <<x, x>>} /\ AddErrors(errors)
      BY DEF Escaped
    <2> QED
      BY <2>1, MoreErrors
  <1>5. StringSoFar(input, lex, index) /\ n = Len(context) => StringSoFar(input, l, j)
    <2>1. SUFFICES ASSUME StringSoFar(input, lex, index), n = Len(context)
                   PROVE  StringSoFar(input, l, j)
      OBVIOUS
    <2>2. EscapeSoFar(input, lex, index) /\ errors = <<>>
      BY <1>4, <2>1, FlawsInEscape
    <2>3. Items(input, a, i) /\ Item(input, i, j + 1)
      BY <1>1, <2>2, FlawsInEscape
    <2>4. Items(input, a, j + 1)
      <3>1. j + 1 \in Nat
        BY NextPosition, Zenon
      <3> QED
        BY <2>3, <3>1, ItemsExtend
    <2> QED
      BY <1>1, <1>3, <2>4, SMT DEF StringSoFar, Inside
  <1>6. StringSoFar(input, lex, index) /\ Len(context) < n =>
          NoLiteral(input, open, lex.start + 1)
    <2>1. SUFFICES ASSUME StringSoFar(input, lex, index), Len(context) < n
                   PROVE  NoLiteral(input, open, lex.start + 1)
      OBVIOUS
    <2>2. EscapeSoFar(input, lex, index) /\ errors # <<>>
      BY <1>4, <2>1, FlawsInEscape
    <2> QED
      BY <2>2, StuckEscape
  <1>7. IsString(l) /\ l.pc # "skip" /\ pc \in InString
    BY <1>3 DEF IsString, InString
  <1> QED
    BY <1>2, <1>3, <1>4, <1>5, <1>6, <1>7, StringGoesOn, Zenon

LEMMA PeekErrorFlaws ==
    ASSUME IInv, TextInv, FlawInv, NEW pc \in Inside, At(pc), UNCHANGED buffer, PeekError
    PROVE  FlawInv'
  <1>1. CASE SkipThen("escape", lex)
    <2>1. PICK l, j : /\ l = lex' /\ j = index' /\ j = index /\ context' = context
                      /\ l = [lex EXCEPT !.pc = "skip", !.bad = index, !.resume = "escape"]
      BY <1>1 DEF SkipThen, Stay, NoError
    <2>2. /\ l.pc = "skip" /\ l.start = lex.start /\ l.errors = lex.errors
          /\ l.bad = j /\ l.resume = "escape" /\ l.escape = lex.escape /\ j \in Nat
      BY <2>1, FlawsInEscape DEF IsLex
    <2>3. PICK n \in Nat : n = Len(context') /\ Len(context) <= n /\ ~(Len(context) < n)
      BY <2>1, FlawsInEscape
    <2>4. StringSoFar(input, lex, index) => StringSoFar(input, l, j)
      <3>1. SUFFICES ASSUME EscapeSoFar(input, lex, index)
                     PROVE  StringSoFar(input, l, j)
        BY FlawsInEscape
      <3>2. EscapeTo(input, l, l.bad + 1)
        BY <2>1, <2>2, <3>1 DEF EscapeSoFar, EscapeTo
      <3> QED
        BY <2>2, <3>2, SMT DEF StringSoFar, Inside
    <2>5. IsString(l) /\ pc \in InString
      BY <2>2 DEF IsString, InString, Inside
    <2> QED
      BY <2>1, <2>2, <2>3, <2>4, <2>5, StringGoesOn, Zenon
  <1>2. CASE Peek = EndOfInput /\ index' = index /\ Escaped(InvalidEscape(index))
    <2>1. PICK x : Escaped(<<x>>)
      BY <1>2 DEF InvalidEscape
    <2>2. <<x>> # <<>> /\ <<x>> \in {<<>>, <<x>>}
      OBVIOUS
    <2>3. Stuck
      <3>1. input \in Seq(Bytes) /\ index \in 0 .. Len(input)
        BY DEF IInv, BufferInv, LexInv
      <3>2. AtTheEnd
        BY <1>2, <3>1, EndFacts
      <3> QED
        BY <3>1, <3>2 DEF AtTheEnd, Stuck
    <2>4. PICK j \in Nat : j = index'
      BY <1>2, FlawsInEscape
    <2> QED
      BY <2>1, <2>2, <2>3, <2>4, EscapedFlaws, Zenon
  <1> QED
    BY <1>1, <1>2 DEF PeekError

\* The escape goes on.
LEMMA EscapeTaken ==
    ASSUME IInv, TextInv, FlawInv, NEW pc \in Inside, At(pc), UNCHANGED buffer, NoError,
           NEW l, lex' = l, l.pc \in {"string"} \cup Inside,
           l.start = lex.start, l.errors = lex.errors,
           NEW j \in Nat, j = index',
           EscapeSoFar(input, lex, index) /\ l.pc = "string" =>
               Item(input, lex.escape + 1, j + 1),
           EscapeSoFar(input, lex, index) /\ l.pc \in Inside => EscapeSoFar(input, l, j)
    PROVE  FlawInv'
  <1>1. PICK a \in Nat, i \in Nat : a = lex.start + 2 /\ i = lex.escape + 1
    BY FlawsInEscape
  <1>2. PICK n \in Nat : n = Len(context') /\ Len(context) <= n /\ ~(Len(context) < n)
    BY NoMoreErrors DEF NoError
  <1>3. ASSUME EscapeSoFar(input, lex, index)
        PROVE  StringSoFar(input, l, j)
    <2>1. CASE l.pc = "string"
      <3>1. Items(input, a, i)
        BY <1>1, <1>3, FlawsInEscape
      <3>2. Item(input, i, j + 1)
        BY <1>1, <1>3, <2>1, Zenon
      <3>3. j + 1 \in Nat
        BY NextPosition, Zenon
      <3>4. Items(input, a, j + 1)
        BY <1>1, <3>1, <3>2, <3>3, ItemsExtend, Zenon
      <3> QED
        BY <1>1, <2>1, <3>4, SMT DEF StringSoFar, Inside
    <2>2. CASE l.pc \in Inside
      <3>1. l.pc \notin {"string", "suffix", "skip"}
        BY <2>2 DEF Inside
      <3>2. EscapeSoFar(input, l, j)
        BY <1>3, <3>1
      <3> QED
        BY <3>1, <3>2, Zenon DEF StringSoFar
    <2> QED
      BY <2>1, <2>2
  <1>4. IsString(l) /\ l.pc # "skip" /\ pc \in InString
    BY DEF IsString, InString, Inside
  <1> QED
    BY <1>2, <1>3, <1>4, FlawsInEscape, StringGoesOn, Zenon

\* The first byte of the character that was peeked.
LEMMA PeekedByte ==
    ASSUME IInv, IsChar, NEW p, p = index + 1
    PROVE  /\ p \in Nat /\ p <= Len(input) /\ Peek.c \in Nat
           /\ \/ input[p] = Peek.c /\ Peek.c < 128 /\ index + Peek.width = p
              \/ input[p] \in 128 .. 255 /\ Peek.c >= 128
  <1>1. PICK j : j = index + Peek.width
    OBVIOUS
  <1>2. /\ p \in Nat /\ p \in 1 .. Len(input) /\ Peek.c \in Nat
        /\ \/ j = p /\ input[p] = Peek.c /\ Peek.c < 128
           \/ j = p + 1 /\ Peek.c >= 128 /\ Lead(input[p]) /\ Trail(input[p + 1])
    BY <1>1, CharItem
  <1>3. Lead(input[p]) => input[p] \in 128 .. 255
    BY DEF Lead
  <1> QED
    BY <1>1, <1>2, <1>3

LEMMA EscapeCodes ==
    /\ 117 \notin Simple /\ 120 \notin Simple
    /\ \A c \in Simple : c < 128
    /\ LeftCurly < 128 /\ RightCurly < 128 /\ ~IsHexDigit(RightCurly)
    /\ \A c : IsHexDigit(c) => c < 128
  BY SimpleFacts, HexFacts DEF LeftCurly, RightCurly, IsHexDigit, IsDigit,
     Simple, DoubleQuote, SingleQuote, Backslash

LEMMA StuckHere ==
    ASSUME IInv, IsChar, NEW p, p = index + 1, NEW i, i = lex.escape + 1,
           input[p] \in 128 .. 255 \/ Wrong(input, i, p)
    PROVE  Stuck
  <1>1. p \in Nat /\ p <= Len(input) /\ Len(input) \in Nat
    BY PeekedByte, PositionFacts
  <1>2. Wrong(input, i, p)
    BY HighIsWrong
  <1>3. ~(p > Len(input))
    BY <1>1
  <1> QED
    BY <1>2, <1>3, Zenon DEF Stuck

LEMMA WrongCharFlaws ==
    ASSUME IInv, TextInv, FlawInv, NEW pc \in Inside, At(pc), UNCHANGED buffer, WrongChar,
           EscapeSoFar(input, lex, index) => Stuck
    PROVE  FlawInv'
  <1>1. PICK x : Escaped(<<x>>)
    BY DEF WrongChar, InvalidEscape
  <1>2. <<x>> # <<>> /\ <<x>> \in {<<>>, <<x>>}
    OBVIOUS
  <1>3. PICK j \in Nat : j = index'
    BY FlawsInEscape DEF WrongChar
  <1> QED
    BY <1>1, <1>2, <1>3, EscapedFlaws, Zenon

LEMMA LexEscapeFlaws ==
    ASSUME IInv, TextInv, FlawInv, LexEscape
    PROVE  FlawInv'
  <1>1. At("escape") /\ UNCHANGED buffer /\ "escape" \in Inside /\ lex.pc = "escape"
    BY DEF LexEscape, Inside, At
  <1>2. PICK p \in Nat, i \in Nat, e \in Nat :
          p = index + 1 /\ i = lex.escape + 1 /\ e = lex.escape
    BY <1>1, FlawsInEscape
  <1>3. EscapeSoFar(input, lex, index) =>
          p = i + 1 /\ input[i] = Backslash /\ Items(input, lex.start + 2, i)
    <2>1. EscapeSoFar(input, lex, index) =>
            /\ index = lex.escape + 1 /\ Unfinished(input, i, p)
            /\ Items(input, lex.start + 2, i)
      BY <1>1, <1>2, Zenon DEF EscapeSoFar, EscapeTo
    <2>2. Unfinished(input, i, p) => input[i] = Backslash
      BY Zenon DEF Unfinished
    <2> QED
      BY <1>2, <2>1, <2>2
  <1>4. CASE /\ IsChar /\ Peek.c \in {117, 120}
             /\ Take([lex EXCEPT !.pc = IF Peek.c = 117 THEN "unicode" ELSE "hex",
                                 !.val = 0, !.digits = 0])
             /\ NoError /\ UNCHANGED token
    <2>1. PICK l, j : l = lex' /\ j = index'
      OBVIOUS
    <2>2. l = [lex EXCEPT !.pc = IF Peek.c = 117 THEN "unicode" ELSE "hex",
                          !.val = 0, !.digits = 0]
      BY <1>4, <2>1 DEF Take
    <2>3. /\ l.start = lex.start /\ l.errors = lex.errors /\ l.escape = lex.escape
          /\ l.digits = 0 /\ l.val = 0
          /\ l.pc = IF Peek.c = 117 THEN "unicode" ELSE "hex"
      BY <1>1, <2>2, FlawsInEscape DEF IsLex
    <2>4. j = p /\ input[p] = Peek.c
      BY <1>2, <1>4, <2>1, PeekedByte DEF Take
    <2>5. l.pc \in {"unicode", "hex"}
      BY <2>3
    <2>6. l.pc # "string" /\ l.pc \in Inside /\ l.pc \in {"string"} \cup Inside
      BY <2>5 DEF Inside
    <2>7. ASSUME EscapeSoFar(input, lex, index)
          PROVE  EscapeSoFar(input, l, j)
      <3>1. p = i + 1 /\ j + 1 = i + 2
        BY <1>3, <2>4, <2>7
      <3>2. /\ l.pc = "unicode" => input[i + 1] = 117
            /\ l.pc = "hex" => input[i + 1] = 120
        BY <1>4, <2>3, <2>4, <3>1
      <3>3. \A n \in i + 2 .. (j + 1) - 1 : IsHexDigit(input[n])
        BY <3>1
      <3>4. Unfinished(input, i, j + 1)
        BY <1>3, <2>5, <2>7, <3>1, <3>2, <3>3, Zenon DEF Unfinished
      <3>5. EscapeTo(input, l, j + 1)
        BY <1>2, <1>3, <2>3, <2>7, <3>4, Zenon DEF EscapeTo
      <3>6. j = l.escape + 2 /\ l.escape + 2 = i + 1 /\ j = l.escape + 2 + l.digits
        BY <1>2, <2>3, <2>4, <3>1
      <3>7. l.pc # "escape" /\ l.pc # "digits" /\ l.digits \in {0, 1}
        BY <2>3, <2>5
      <3> QED
        BY <2>3, <3>2, <3>5, <3>6, <3>7, Zenon DEF EscapeSoFar
    <2>8. /\ lex' = l /\ l.start = lex.start /\ l.errors = lex.errors /\ NoError
          /\ l.pc \in {"string"} \cup Inside /\ j \in Nat /\ j = index'
      BY <1>2, <1>4, <2>1, <2>3, <2>4, <2>6, Zenon
    <2>9. EscapeSoFar(input, lex, index) /\ l.pc = "string" =>
            Item(input, lex.escape + 1, j + 1)
      BY <2>6, Zenon
    <2>10. EscapeSoFar(input, lex, index) /\ l.pc \in Inside => EscapeSoFar(input, l, j)
      BY <2>7, Zenon
    <2> QED
      BY <1>1, <2>8, <2>9, <2>10, EscapeTaken, Zenon
  <1>5. CASE /\ IsChar /\ Peek.c \notin {117, 120}
             /\ index' = index + Peek.width
             /\ Escaped(IF Peek.c \in Simple THEN <<>> ELSE InvalidEscape(index'))
    <2>1. PICK j \in Nat : j = index'
      BY <1>5, CharItem
    <2>2. CASE Peek.c \in Simple
      <3>1. Escaped(<<>>)
        BY <1>5, <2>2
      <3>2. j = p /\ input[p] = Peek.c
        BY <1>2, <1>5, <2>1, <2>2, PeekedByte, EscapeCodes
      <3>3. EscapeSoFar(input, lex, index) => Item(input, i, j + 1)
        <4>1. p = i + 1 => j + 1 = i + 2 /\ i + 2 <= j + 1
          BY <3>2
        <4> QED
          BY <1>3, <2>2, <3>2, <4>1, Zenon DEF Item, Escaping
      <3>4. <<>> \in {<<>>, <<0>>}
        OBVIOUS
      <3> QED
        BY <1>1, <1>2, <2>1, <3>1, <3>3, <3>4, EscapedFlaws, Zenon
    <2>3. CASE Peek.c \notin Simple
      <3>1. PICK x : Escaped(<<x>>)
        BY <1>5, <2>3 DEF InvalidEscape
      <3>2. <<x>> # <<>> /\ <<x>> \in {<<>>, <<x>>}
        OBVIOUS
      <3>3. EscapeSoFar(input, lex, index) => Stuck
        <4>1. SUFFICES ASSUME p = i + 1
                       PROVE  Stuck
          BY <1>3
        <4>2. CASE input[p] = Peek.c
          <5>1. input[p] \notin Simple \cup {117, 120}
            BY <1>5, <2>3, <4>2
          <5>2. p # i + 2 /\ ~(i + 3 <= p) /\ p # i + 3
            BY <4>1
          <5>3. Wrong(input, i, p)
            BY <5>1, <5>2, Zenon DEF Wrong
          <5> QED
            BY <1>2, <1>5, <5>3, StuckHere, Zenon
        <4>3. CASE input[p] \in 128 .. 255
          BY <1>2, <1>5, <4>3, StuckHere, Zenon
        <4> QED
          BY <1>2, <1>5, <4>2, <4>3, PeekedByte
      <3> QED
        BY <1>1, <2>1, <3>1, <3>2, <3>3, EscapedFlaws, Zenon
    <2> QED
      BY <2>2, <2>3
  <1>6. CASE PeekError
    BY <1>1, <1>6, PeekErrorFlaws, Zenon
  <1> QED
    BY <1>4, <1>5, <1>6, Zenon DEF LexEscape

LEMMA LexUnicodeFlaws ==
    ASSUME IInv, TextInv, FlawInv, LexUnicode
    PROVE  FlawInv'
  <1>1. At("unicode") /\ UNCHANGED buffer /\ "unicode" \in Inside /\ lex.pc = "unicode"
    BY DEF LexUnicode, Inside, At
  <1>2. PICK p \in Nat, i \in Nat, e \in Nat :
          p = index + 1 /\ i = lex.escape + 1 /\ e = lex.escape
    BY <1>1, FlawsInEscape
  <1>3. EscapeSoFar(input, lex, index) =>
          /\ p = i + 2 /\ input[i] = Backslash /\ Items(input, lex.start + 2, i)
          /\ input[i + 1] = 117 /\ lex.digits = 0 /\ lex.val = 0
    <2>1. EscapeSoFar(input, lex, index) =>
            /\ index = lex.escape + 2 /\ Unfinished(input, i, p)
            /\ Items(input, lex.start + 2, i)
            /\ input[lex.escape + 2] = 117 /\ lex.digits = 0 /\ lex.val = 0
      BY <1>1, <1>2, Zenon DEF EscapeSoFar, EscapeTo
    <2>2. Unfinished(input, i, p) => input[i] = Backslash
      BY Zenon DEF Unfinished
    <2>3. lex.escape + 2 = i + 1
      BY <1>1, <1>2, FlawsInEscape
    <2> QED
      BY <1>2, <2>1, <2>2, <2>3
  <1>4. CASE /\ IsChar /\ Peek.c = LeftCurly
             /\ Take([lex EXCEPT !.pc = "digits"]) /\ NoError /\ UNCHANGED token
    <2>1. PICK l, j : l = lex' /\ j = index'
      OBVIOUS
    <2>2. l = [lex EXCEPT !.pc = "digits"]
      BY <1>4, <2>1 DEF Take
    <2>3. /\ l.start = lex.start /\ l.errors = lex.errors /\ l.escape = lex.escape
          /\ l.digits = lex.digits /\ l.val = lex.val /\ l.pc = "digits"
      BY <1>1, <2>2, FlawsInEscape DEF IsLex
    <2>4. j = p /\ input[p] = LeftCurly
      BY <1>2, <1>4, <2>1, PeekedByte, EscapeCodes DEF Take
    <2>5. l.pc # "string" /\ l.pc \in {"string"} \cup Inside
      BY <2>3 DEF Inside
    <2>6. ASSUME EscapeSoFar(input, lex, index)
          PROVE  EscapeSoFar(input, l, j)
      <3>1. /\ p = i + 2 /\ j + 1 = i + 3 /\ i + 3 <= j + 1
            /\ l.escape + 3 <= j /\ l.escape + 2 = i + 1 /\ l.escape + 3 = p
            /\ j - (l.escape + 3) = 0 /\ l.escape + 4 = j + 1
        BY <1>2, <1>3, <2>3, <2>4, <2>6
      <3>2. \A n \in i + 3 .. (j + 1) - 1 : IsHexDigit(input[n])
        BY <3>1
      <3>3. Unfinished(input, i, j + 1)
        BY <1>3, <2>4, <2>6, <3>1, <3>2, SMT DEF Unfinished
      <3>4. EscapeTo(input, l, j + 1)
        BY <1>2, <1>3, <2>3, <2>6, <3>3, Zenon DEF EscapeTo
      <3>5. l.digits = (j - (l.escape + 3)) % DigitsMod
        <4>1. 0 % DigitsMod = 0
          BY LexerAssumption
        <4> QED
          BY <1>3, <2>3, <2>6, <3>1, <4>1
      <3>6. l.val = HexNumber(SubSeq(input, l.escape + 4, j))
        <4>1. Len(SubSeq(input, j + 1, j)) = 0
          BY <1>2, <2>4
        <4>2. HexNumber(SubSeq(input, j + 1, j)) = 0
          BY <4>1, HexEmpty
        <4> QED
          BY <1>3, <2>3, <2>6, <3>1, <4>2
      <3>7. l.pc # "escape" /\ l.pc # "unicode" /\ l.pc # "hex"
        BY <2>3
      <3>8. input[l.escape + 2] = 117 /\ input[l.escape + 3] = LeftCurly
        BY <1>3, <2>4, <2>6, <3>1
      <3> QED
        BY <3>1, <3>4, <3>5, <3>6, <3>7, <3>8, Zenon DEF EscapeSoFar
    <2>7. /\ lex' = l /\ l.start = lex.start /\ l.errors = lex.errors /\ NoError
          /\ l.pc \in {"string"} \cup Inside /\ j \in Nat /\ j = index'
      BY <1>2, <1>4, <2>1, <2>3, <2>4, <2>5, Zenon
    <2>8. EscapeSoFar(input, lex, index) /\ l.pc = "string" =>
            Item(input, lex.escape + 1, j + 1)
      BY <2>5, Zenon
    <2>9. EscapeSoFar(input, lex, index) /\ l.pc \in Inside => EscapeSoFar(input, l, j)
      BY <2>6, Zenon
    <2> QED
      BY <1>1, <2>7, <2>8, <2>9, EscapeTaken, Zenon
  <1>5. CASE IsChar /\ Peek.c # LeftCurly /\ WrongChar
    <2>1. EscapeSoFar(input, lex, index) => Stuck
      <3>1. SUFFICES ASSUME p = i + 2, input[i + 1] = 117
                     PROVE  Stuck
        BY <1>3
      <3>2. CASE input[p] = Peek.c
        <4>1. p # i + 1 /\ ~(i + 3 <= p) /\ input[i + 1] # 120 /\ input[p] # LeftCurly
          BY <1>5, <3>1, <3>2
        <4>2. Wrong(input, i, p)
          BY <4>1, Zenon DEF Wrong
        <4> QED
          BY <1>2, <1>5, <4>2, StuckHere, Zenon
      <3>3. CASE input[p] \in 128 .. 255
        BY <1>2, <1>5, <3>3, StuckHere, Zenon
      <3> QED
        BY <1>2, <1>5, <3>2, <3>3, PeekedByte
    <2> QED
      BY <1>1, <1>5, <2>1, WrongCharFlaws, Zenon
  <1>6. CASE PeekError
    BY <1>1, <1>6, PeekErrorFlaws, Zenon
  <1> QED
    BY <1>4, <1>5, <1>6, Zenon DEF LexUnicode

LEMMA NextMod ==
    ASSUME NEW m \in Nat, m > 1, NEW x \in Nat
    PROVE  ((x % m) + 1) % m = (x + 1) % m
  <1>1. PICK q \in Nat, r \in Nat : x = (q * m) + r /\ r < m /\ r = x % m
    <2>1. x = ((x \div m) * m) + (x % m) /\ x \div m \in Nat /\ x % m \in Nat /\ x % m < m
      OBVIOUS
    <2> QED
      BY <2>1
  <1>2. x + 1 = (q * m) + (r + 1)
    BY <1>1
  <1>3. CASE r + 1 < m
    <2>1. (r + 1) % m = r + 1
      BY <1>1, <1>3
    <2>2. ((q * m) + (r + 1)) % m = r + 1
      BY <1>3
    <2> QED
      BY <1>1, <1>2, <2>1, <2>2
  <1>4. CASE r + 1 = m
    <2>1. (r + 1) % m = 0
      BY <1>4
    <2>2. (q * m) + (r + 1) = (q + 1) * m
      BY <1>4
    <2>3. ((q + 1) * m) % m = 0
      OBVIOUS
    <2> QED
      BY <1>1, <1>2, <2>1, <2>2, <2>3
  <1> QED
    BY <1>1, <1>3, <1>4

\* What an escape with a number in curly brackets is made of so far.
LEMMA DigitsSoFar ==
    ASSUME IInv, TextInv, FlawInv, At("digits"), EscapeSoFar(input, lex, index),
           NEW p \in Nat, p = index + 1, NEW e \in Nat, e = lex.escape,
           NEW i \in Nat, i = e + 1
    PROVE  /\ i + 3 <= p /\ input[i] = Backslash /\ input[i + 1] = 117
           /\ input[i + 2] = LeftCurly
           /\ \A n \in i + 3 .. p - 1 : IsHexDigit(input[n])
           /\ Items(input, lex.start + 2, i)
           /\ lex.digits = (p - (i + 3)) % DigitsMod
           /\ lex.val = HexNumber(SubSeq(input, i + 3, p - 1))
           /\ lex.val \in Nat
  <1>1. "digits" \in Inside /\ lex.pc = "digits"
    BY DEF Inside, At
  <1>2. /\ e + 3 <= index /\ input[e + 2] = 117 /\ input[e + 3] = LeftCurly
        /\ lex.digits = (index - (e + 3)) % DigitsMod
        /\ lex.val = HexNumber(SubSeq(input, e + 4, index))
        /\ Unfinished(input, e + 1, index + 1)
        /\ Items(input, lex.start + 2, e + 1)
    BY <1>1, Zenon DEF EscapeSoFar, EscapeTo
  <1>3. index \in Nat
    BY <1>1, FlawsInEscape
  <1>4. /\ i + 3 <= p /\ e + 2 = i + 1 /\ e + 3 = i + 2 /\ index + 1 = p /\ e + 1 = i
        /\ index - (e + 3) = p - (i + 3) /\ e + 4 = i + 3 /\ index = p - 1
    BY <1>2, <1>3
  <1>5. p # i + 1 /\ p # i + 2 /\ input[i + 1] = 117 /\ input[i + 1] # 120
    BY <1>2, <1>4
  <1>6. input[i] = Backslash /\ \A n \in i + 3 .. p - 1 : IsHexDigit(input[n])
    BY <1>2, <1>4, <1>5, ZenonT(60) DEF Unfinished
  <1>7. lex.val = HexNumber(SubSeq(input, i + 3, p - 1))
    BY <1>2, <1>4
  <1>8. lex.val \in Nat
    <2>1. PICK a \in Nat, b \in Nat : a = i + 3 /\ b = p - 1 /\ a <= b + 1
      BY <1>4
    <2>2. \A n \in a .. b : IsHexDigit(input[n])
      BY <1>6, <2>1, Zenon
    <2>3. HexNumber(SubSeq(input, a, b)) \in Nat
      BY <2>1, <2>2, HexInText, Zenon
    <2> QED
      BY <1>7, <2>1, <2>3, Zenon
  <1> QED
    BY <1>2, <1>4, <1>5, <1>6, <1>7, <1>8

LEMMA FitsFacts ==
    ASSUME NEW v \in Nat, NEW d
    PROVE  Fits(d, v) <=> d <= 6 /\ v \in Codepoints
  <1>2. PICK a \in Nat, b \in Nat, c \in Nat : a = 55295 /\ b = 57343 /\ c = 69631
    OBVIOUS
  <1>3. a + 1 = 55296 /\ b + 1 = 57344 /\ a < b /\ b < c
    BY <1>2
  <1>4. Codepoints = (0 .. a) \cup (b + 1 .. c)
    BY <1>2, <1>3 DEF Codepoints
  <1>5. IsSurrogate(v) <=> v \in a + 1 .. b
    BY <1>2, <1>3 DEF IsSurrogate
  <1>6. v \in (0 .. a) \cup (b + 1 .. c) <=> v <= c /\ ~(v \in a + 1 .. b)
    <2> HIDE <1>2
    <2> QED
      BY <1>3
  <1>7. Fits(d, v) <=> d <= 6 /\ v <= c /\ ~IsSurrogate(v)
    BY <1>2 DEF Fits
  <1> QED
    BY <1>4, <1>5, <1>6, <1>7, Zenon

LEMMA LexDigitsFlaws ==
    ASSUME IInv, TextInv, FlawInv, LexDigits
    PROVE  FlawInv'
  <1>1. At("digits") /\ UNCHANGED buffer /\ "digits" \in Inside /\ lex.pc = "digits"
    BY DEF LexDigits, Inside, At
  <1>2. PICK p \in Nat, i \in Nat, e \in Nat :
          p = index + 1 /\ i = lex.escape + 1 /\ e = lex.escape /\ i = e + 1
    BY <1>1, FlawsInEscape
  <1>3. EscapeSoFar(input, lex, index) =>
           /\ i + 3 <= p /\ input[i] = Backslash /\ input[i + 1] = 117
           /\ input[i + 2] = LeftCurly
           /\ \A n \in i + 3 .. p - 1 : IsHexDigit(input[n])
           /\ Items(input, lex.start + 2, i)
           /\ lex.digits = (p - (i + 3)) % DigitsMod
           /\ lex.val = HexNumber(SubSeq(input, i + 3, p - 1))
           /\ lex.val \in Nat
    BY <1>1, <1>2, DigitsSoFar
  <1>4. CASE /\ IsChar /\ IsHexDigit(Peek.c)
             /\ Take([lex EXCEPT !.digits = (@ + 1) % DigitsMod,
                                 !.val = (@ * 16 + HexValue(Peek.c)) % WordMod])
             /\ NoError /\ UNCHANGED token
    <2>1. PICK l, j : l = lex' /\ j = index'
      OBVIOUS
    <2>2. l = [lex EXCEPT !.digits = (lex.digits + 1) % DigitsMod,
                          !.val = (lex.val * 16 + HexValue(Peek.c)) % WordMod]
      BY <1>1, <1>4, <2>1, FlawsInEscape DEF Take, IsLex
    <2>3. /\ l.start = lex.start /\ l.errors = lex.errors /\ l.escape = lex.escape
          /\ l.digits = (lex.digits + 1) % DigitsMod
          /\ l.val = (lex.val * 16 + HexValue(Peek.c)) % WordMod
          /\ l.pc = "digits"
      BY <1>1, <2>2, FlawsInEscape DEF IsLex
    <2>4. j = p /\ input[p] = Peek.c
      BY <1>2, <1>4, <2>1, PeekedByte, EscapeCodes DEF Take
    <2>5. l.pc # "string" /\ l.pc \in {"string"} \cup Inside
      BY <2>3 DEF Inside
    <2>6. ASSUME EscapeSoFar(input, lex, index)
          PROVE  EscapeSoFar(input, l, j)
      <3>1. /\ i + 3 <= j + 1 /\ l.escape + 3 <= j /\ l.escape + 2 = i + 1
            /\ l.escape + 3 = i + 2 /\ l.escape + 4 = i + 3 /\ (j + 1) - 1 = p
        BY <1>2, <1>3, <2>3, <2>4, <2>6
      <3>2. \A n \in i + 3 .. (j + 1) - 1 : IsHexDigit(input[n])
        <4>1. \A n \in i + 3 .. p : n = p \/ n \in i + 3 .. p - 1
          OBVIOUS
        <4> QED
          BY <1>3, <1>4, <2>4, <2>6, <3>1, <4>1
      <3>3. Unfinished(input, i, j + 1)
        BY <1>3, <2>6, <3>1, <3>2, Zenon DEF Unfinished
      <3>4. EscapeTo(input, l, j + 1)
        BY <1>2, <1>3, <2>3, <2>6, <3>3, Zenon DEF EscapeTo
      <3>5. l.digits = (j - (l.escape + 3)) % DigitsMod
        <4>1. PICK x \in Nat : x = p - (i + 3)
          BY <1>3, <2>6
        <4>2. j - (l.escape + 3) = x + 1
          BY <1>2, <2>3, <2>4, <4>1
        <4>3. ((x % DigitsMod) + 1) % DigitsMod = (x + 1) % DigitsMod
          <5>1. DigitsMod \in Nat /\ DigitsMod > 1
            BY LexerAssumption
          <5> QED
            BY <5>1, NextMod
        <4> QED
          BY <1>3, <2>3, <2>6, <4>1, <4>2, <4>3, Zenon
      <3>6. l.val = HexNumber(SubSeq(input, l.escape + 4, j))
        <4>1. PICK a \in Nat, b \in Nat : a = i + 3 /\ b = p - 1 /\ b + 1 = p /\ a <= b + 1
          BY <1>3, <2>6
        <4>2. HexNumber(SubSeq(input, a, b + 1))
              = (HexNumber(SubSeq(input, a, b)) * 16 + HexValue(input[b + 1])) % WordMod
          BY <4>1, HexGrows
        <4> QED
          BY <1>3, <2>3, <2>4, <2>6, <3>1, <4>1, <4>2, Zenon
      <3>7. l.pc # "escape" /\ l.pc # "unicode" /\ l.pc # "hex"
        BY <2>3
      <3>8. input[l.escape + 2] = 117 /\ input[l.escape + 3] = LeftCurly
        BY <1>3, <2>6, <3>1
      <3> QED
        BY <3>1, <3>4, <3>5, <3>6, <3>7, <3>8, Zenon DEF EscapeSoFar
    <2>7. /\ lex' = l /\ l.start = lex.start /\ l.errors = lex.errors /\ NoError
          /\ l.pc \in {"string"} \cup Inside /\ j \in Nat /\ j = index'
      BY <1>2, <1>4, <2>1, <2>3, <2>4, <2>5, Zenon
    <2>8. EscapeSoFar(input, lex, index) /\ l.pc = "string" =>
            Item(input, lex.escape + 1, j + 1)
      BY <2>5, Zenon
    <2>9. EscapeSoFar(input, lex, index) /\ l.pc \in Inside => EscapeSoFar(input, l, j)
      BY <2>6, Zenon
    <2> QED
      BY <1>1, <2>7, <2>8, <2>9, EscapeTaken, Zenon
  <1>5. CASE /\ IsChar /\ Peek.c = RightCurly
             /\ index' = index + 1
             /\ Escaped(IF Fits(lex.digits, lex.val) THEN <<>> ELSE InvalidEscape(index'))
    <2>1. PICK j \in Nat : j = index' /\ j = p
      BY <1>2, <1>5
    <2>2. input[p] = RightCurly /\ ~IsHexDigit(RightCurly)
      BY <1>2, <1>5, PeekedByte, EscapeCodes
    <2>3. EscapeSoFar(input, lex, index) =>
            (Fits(lex.digits, lex.val) <=> ProperUnicode(input, i, p))
      <3>1. SUFFICES ASSUME EscapeSoFar(input, lex, index)
                     PROVE  Fits(lex.digits, lex.val) <=> ProperUnicode(input, i, p)
        OBVIOUS
      <3>2. Fits(lex.digits, lex.val) <=> lex.digits <= 6 /\ lex.val \in Codepoints
        BY <1>3, <3>1, FitsFacts
      <3>3. ProperUnicode(input, i, p)
            <=> /\ input[i + 2] = LeftCurly
                /\ \A n \in i + 3 .. p - 1 : IsHexDigit(input[n])
                /\ (p - (i + 3)) % DigitsMod <= 6
                /\ HexNumber(SubSeq(input, i + 3, p - 1)) \in Codepoints
        BY <1>3, <3>1, UnicodeFacts
      <3> QED
        BY <1>3, <3>1, <3>2, <3>3, Zenon
    <2>4. CASE Fits(lex.digits, lex.val)
      <3>1. Escaped(<<>>)
        BY <1>5, <2>4
      <3>2. EscapeSoFar(input, lex, index) => Item(input, i, j + 1)
        <4>1. SUFFICES ASSUME EscapeSoFar(input, lex, index)
                       PROVE  Item(input, i, j + 1)
          OBVIOUS
        <4>2. i + 2 <= j + 1 /\ i + 4 <= j + 1 /\ (j + 1) - 1 = p
          BY <1>3, <2>1, <4>1
        <4> QED
          BY <1>3, <2>2, <2>3, <2>4, <4>1, <4>2, Zenon DEF Item, Escaping
      <3>3. <<>> \in {<<>>, <<0>>}
        OBVIOUS
      <3> QED
        BY <1>1, <1>2, <2>1, <3>1, <3>2, <3>3, EscapedFlaws, Zenon
    <2>5. CASE ~Fits(lex.digits, lex.val)
      <3>1. PICK x : Escaped(<<x>>)
        BY <1>5, <2>5 DEF InvalidEscape
      <3>2. <<x>> # <<>> /\ <<x>> \in {<<>>, <<x>>}
        OBVIOUS
      <3>3. EscapeSoFar(input, lex, index) => Stuck
        <4>1. SUFFICES ASSUME EscapeSoFar(input, lex, index)
                       PROVE  Stuck
          OBVIOUS
        <4>2. p # i + 1 /\ p # i + 2 /\ input[i + 1] # 120
          BY <1>3, <4>1
        <4>3. Wrong(input, i, p)
          BY <2>2, <2>3, <2>5, <4>1, <4>2, Zenon DEF Wrong
        <4> QED
          BY <1>2, <1>5, <4>3, StuckHere, Zenon
      <3> QED
        BY <1>1, <2>1, <3>1, <3>2, <3>3, EscapedFlaws, Zenon
    <2> QED
      BY <2>4, <2>5
  <1>6. CASE IsChar /\ ~IsHexDigit(Peek.c) /\ Peek.c # RightCurly /\ WrongChar
    <2>1. EscapeSoFar(input, lex, index) => Stuck
      <3>1. SUFFICES ASSUME EscapeSoFar(input, lex, index)
                     PROVE  Stuck
        OBVIOUS
      <3>2. CASE input[p] = Peek.c
        <4>1. p # i + 1 /\ p # i + 2 /\ input[i + 1] # 120
          BY <1>3, <3>1
        <4>2. Wrong(input, i, p)
          BY <1>6, <3>2, <4>1, Zenon DEF Wrong
        <4> QED
          BY <1>2, <1>6, <4>2, StuckHere, Zenon
      <3>3. CASE input[p] \in 128 .. 255
        BY <1>2, <1>6, <3>3, StuckHere, Zenon
      <3> QED
        BY <1>2, <1>6, <3>2, <3>3, PeekedByte
    <2> QED
      BY <1>1, <1>6, <2>1, WrongCharFlaws, Zenon
  <1>7. CASE PeekError
    BY <1>1, <1>7, PeekErrorFlaws, Zenon
  <1> QED
    BY <1>4, <1>5, <1>6, <1>7, Zenon DEF LexDigits

LEMMA LexHexFlaws ==
    ASSUME IInv, TextInv, FlawInv, LexHex
    PROVE  FlawInv'
  <1>1. At("hex") /\ UNCHANGED buffer /\ "hex" \in Inside /\ lex.pc = "hex"
    BY DEF LexHex, Inside, At
  <1>2. PICK p \in Nat, i \in Nat, e \in Nat :
          p = index + 1 /\ i = lex.escape + 1 /\ e = lex.escape /\ i = e + 1
    BY <1>1, FlawsInEscape
  <1>3. EscapeSoFar(input, lex, index) =>
           /\ lex.digits \in {0, 1} /\ p = i + 2 + lex.digits
           /\ input[i] = Backslash /\ input[i + 1] = 120
           /\ \A n \in i + 2 .. p - 1 : IsHexDigit(input[n])
           /\ Items(input, lex.start + 2, i)
    <2>1. SUFFICES ASSUME EscapeSoFar(input, lex, index)
                   PROVE  /\ lex.digits \in {0, 1} /\ p = i + 2 + lex.digits
                          /\ input[i] = Backslash /\ input[i + 1] = 120
                          /\ \A n \in i + 2 .. p - 1 : IsHexDigit(input[n])
                          /\ Items(input, lex.start + 2, i)
      OBVIOUS
    <2>2. /\ lex.digits \in {0, 1} /\ input[lex.escape + 2] = 120
          /\ index = lex.escape + 2 + lex.digits
          /\ Unfinished(input, i, p) /\ Items(input, lex.start + 2, i)
      BY <1>1, <1>2, <2>1, Zenon DEF EscapeSoFar, EscapeTo
    <2>3. p = i + 2 + lex.digits /\ lex.escape + 2 = i + 1 /\ p # i + 1
      BY <1>2, <2>2
    <2>4. input[i + 1] # 117 /\ input[i + 1] = 120
      BY <2>2, <2>3
    <2>5. input[i] = Backslash /\ \A n \in i + 2 .. p - 1 : IsHexDigit(input[n])
      BY <2>2, <2>3, <2>4, Zenon DEF Unfinished
    <2> QED
      BY <2>2, <2>3, <2>4, <2>5
  <1>4. CASE /\ IsChar /\ IsHexDigit(Peek.c)
             /\ Take([lex EXCEPT !.digits = @ + 1,
                                 !.pc = IF lex.digits = 1 THEN "string" ELSE "hex"])
             /\ NoError /\ UNCHANGED token
    <2>1. PICK l, j : l = lex' /\ j = index'
      OBVIOUS
    <2>2. l = [lex EXCEPT !.digits = lex.digits + 1,
                          !.pc = IF lex.digits = 1 THEN "string" ELSE "hex"]
      BY <1>1, <1>4, <2>1, FlawsInEscape DEF Take, IsLex
    <2>3. /\ l.start = lex.start /\ l.errors = lex.errors /\ l.escape = lex.escape
          /\ l.digits = lex.digits + 1
          /\ l.pc = IF lex.digits = 1 THEN "string" ELSE "hex"
      BY <1>1, <2>2, FlawsInEscape DEF IsLex
    <2>4. j = p /\ input[p] = Peek.c
      BY <1>2, <1>4, <2>1, PeekedByte, EscapeCodes DEF Take
    <2>5. l.pc \in {"string", "hex"} /\ l.pc \in {"string"} \cup Inside /\ "string" \notin Inside
      BY <2>3 DEF Inside
    <2>6. ASSUME EscapeSoFar(input, lex, index), l.pc = "hex"
          PROVE  EscapeSoFar(input, l, j)
      <3>1. lex.digits = 0
        BY <1>3, <2>3, <2>6
      <3>2. /\ j + 1 = i + 3 /\ l.digits = 1 /\ l.escape + 2 = i + 1 /\ p = i + 2
            /\ j = l.escape + 2 + l.digits
        BY <1>2, <1>3, <2>3, <2>4, <2>6, <3>1
      <3>3. \A n \in i + 2 .. (j + 1) - 1 : IsHexDigit(input[n])
        <4>1. \A n \in i + 2 .. (j + 1) - 1 : n = p
          BY <3>2
        <4> QED
          BY <1>4, <2>4, <4>1
      <3>4. Unfinished(input, i, j + 1)
        BY <1>3, <2>6, <3>2, <3>3, Zenon DEF Unfinished
      <3>5. EscapeTo(input, l, j + 1)
        BY <1>2, <1>3, <2>3, <2>6, <3>4, ZenonT(60) DEF EscapeTo
      <3>6. l.pc # "escape" /\ l.pc # "unicode" /\ l.pc # "digits" /\ l.digits \in {0, 1}
        BY <2>6, <3>2
      <3>7. input[l.escape + 2] = 120
        BY <1>3, <2>6, <3>2
      <3> QED
        BY <3>2, <3>5, <3>6, <3>7, Zenon DEF EscapeSoFar
    <2>7. ASSUME EscapeSoFar(input, lex, index), l.pc = "string"
          PROVE  Item(input, i, j + 1)
      <3>1. lex.digits = 1
        BY <2>3, <2>7
      <3>2. j + 1 = i + 4 /\ p = i + 3 /\ i + 2 <= j + 1
        BY <1>2, <1>3, <2>4, <2>7, <3>1
      <3>3. i + 2 \in i + 2 .. p - 1
        BY <3>2
      <3> QED
        BY <1>3, <1>4, <2>4, <2>7, <3>2, <3>3, Zenon DEF Item, Escaping
    <2>8. EscapeSoFar(input, lex, index) /\ l.pc \in Inside => EscapeSoFar(input, l, j)
      BY <2>5, <2>6
    <2>9. /\ lex' = l /\ l.start = lex.start /\ l.errors = lex.errors /\ NoError
          /\ l.pc \in {"string"} \cup Inside /\ j \in Nat /\ j = index'
      BY <1>2, <1>4, <2>1, <2>3, <2>4, <2>5, Zenon
    <2>10. EscapeSoFar(input, lex, index) /\ l.pc = "string" =>
            Item(input, lex.escape + 1, j + 1)
      BY <1>2, <2>7, Zenon
    <2>11. EscapeSoFar(input, lex, index) /\ l.pc \in Inside => EscapeSoFar(input, l, j)
      BY <2>8, Zenon
    <2> QED
      BY <1>1, <2>9, <2>10, <2>11, EscapeTaken, Zenon
  <1>5. CASE IsChar /\ ~IsHexDigit(Peek.c) /\ WrongChar
    <2>1. EscapeSoFar(input, lex, index) => Stuck
      <3>1. SUFFICES ASSUME EscapeSoFar(input, lex, index)
                     PROVE  Stuck
        OBVIOUS
      <3>2. CASE input[p] = Peek.c
        <4>1. p # i + 1 /\ input[i + 1] # 117
          BY <1>3, <3>1
        <4>2. Wrong(input, i, p)
          BY <1>5, <3>2, <4>1, Zenon DEF Wrong
        <4> QED
          BY <1>2, <1>5, <4>2, StuckHere, Zenon
      <3>3. CASE input[p] \in 128 .. 255
        BY <1>2, <1>5, <3>3, StuckHere, Zenon
      <3> QED
        BY <1>2, <1>5, <3>2, <3>3, PeekedByte
    <2> QED
      BY <1>1, <1>5, <2>1, WrongCharFlaws, Zenon
  <1>6. CASE PeekError
    BY <1>1, <1>6, PeekErrorFlaws, Zenon
  <1> QED
    BY <1>4, <1>5, <1>6, Zenon DEF LexHex

-----------------------------------------------------------------------------
(***************************************************************************)
(* The steps between tokens, and those in a symbol or number.              *)
(***************************************************************************)
\* Nothing is said of the lexer between tokens.
LEMMA NoFlaws ==
    ASSUME \/ lex'.pc \in {"idle", "exit", "start", "blank", "comment"}
           \/ lex'.pc = "skip" /\ lex'.resume = "comment"
    PROVE  FlawInv'
  <1>1. ~IsString(lex') /\ ~IsSymbol(lex') /\ lex'.pc # "done"
    BY DEF IsString, IsSymbol, InString, Inside
  <1> QED
    BY <1>1, Zenon DEF FlawInv, StringInv, SymbolInv, FlagInv, IsString, IsSymbol

\* A token that cannot have a flaw is returned.
LEMMA MarkFlaws ==
    ASSUME NEW type \in {"END", "SINGLE_QUOTE", "LEFT_PAREN", "RIGHT_PAREN"},
           NEW from, NEW n, n = Len(context'), ReturnToken(type, from, n)
    PROVE  FlawInv'
  <1>1. lex'.pc = "done"
    BY DEF ReturnToken, Idle
  <1>2. token'.type = type /\ ~token'.had_error
    BY DEF ReturnToken
  <1>3. token'.type \notin {"SYMBOL", "NUMBER"} /\ token'.type # "STRING"
    BY <1>2
  <1>4. FlagInv'
    BY <1>2, <1>3, Zenon DEF FlagInv, Deserved
  <1>5. ~IsString(lex)' /\ ~IsSymbol(lex)'
    BY <1>1, SMT DEF IsString, IsSymbol, InString, Inside
  <1> QED
    BY <1>4, <1>5, Zenon DEF FlawInv, StringInv, SymbolInv

LEMMA ValidEmpty ==
    ASSUME NEW z, NEW a \in Nat
    PROVE  Valid(z, a + 1, a)
  BY DEF Valid

LEMMA ValidAgrees ==
    ASSUME NEW z, NEW w, NEW a \in Nat, NEW b \in Int, \A k \in a .. b : w[k] = z[k],
           Valid(z, a, b)
    PROVE  Valid(w, a, b)
  <1>1. SUFFICES ASSUME NEW i \in a .. b
                 PROVE  \/ w[i] < 128
                        \/ i + 1 <= b /\ Lead(w[i]) /\ Trail(w[i + 1])
                        \/ a <= i - 1 /\ Lead(w[i - 1]) /\ Trail(w[i])
    BY Zenon DEF Valid
  <1>2. \/ z[i] < 128
        \/ i + 1 <= b /\ Lead(z[i]) /\ Trail(z[i + 1])
        \/ a <= i - 1 /\ Lead(z[i - 1]) /\ Trail(z[i])
    BY <1>1, Zenon DEF Valid
  <1>3. /\ w[i] = z[i]
        /\ i + 1 <= b => w[i + 1] = z[i + 1]
        /\ a <= i - 1 => w[i - 1] = z[i - 1]
    <2>1. i + 1 <= b => i + 1 \in a .. b
      BY <1>1
    <2>2. a <= i - 1 => i - 1 \in a .. b
      BY <1>1
    <2> QED
      BY <1>1, <2>1, <2>2
  <1> QED
    BY <1>2, <1>3, Zenon

\* One more character.
LEMMA ValidGrows ==
    ASSUME NEW z, NEW a \in Nat, NEW b \in Nat, a <= b + 1, NEW p \in Nat, p = b + 1,
           NEW j \in Nat, Valid(z, a, b),
           \/ j = p /\ z[p] < 128
           \/ j = p + 1 /\ Lead(z[p]) /\ Trail(z[p + 1])
    PROVE  Valid(z, a, j)
  <1>1. SUFFICES ASSUME NEW i \in a .. j
                 PROVE  \/ z[i] < 128
                        \/ i + 1 <= j /\ Lead(z[i]) /\ Trail(z[i + 1])
                        \/ a <= i - 1 /\ Lead(z[i - 1]) /\ Trail(z[i])
    BY Zenon DEF Valid
  <1>2. CASE i \in a .. b
    <2>1. \/ z[i] < 128
          \/ i + 1 <= b /\ Lead(z[i]) /\ Trail(z[i + 1])
          \/ a <= i - 1 /\ Lead(z[i - 1]) /\ Trail(z[i])
      BY <1>2, Zenon DEF Valid
    <2>2. i + 1 <= b => i + 1 <= j
      BY <1>1
    <2> QED
      BY <2>1, <2>2
  <1>3. CASE i \notin a .. b
    <2>1. i = p \/ (j = p + 1 /\ i = p + 1)
      BY <1>1, <1>3
    <2>2. CASE j = p
      BY <2>1, <2>2
    <2>3. CASE j = p + 1 /\ i = p
      <3>1. i + 1 <= j
        BY <2>3
      <3> QED
        BY <2>3, <3>1
    <2>4. CASE j = p + 1 /\ i = p + 1
      <3>1. a <= i - 1 /\ i - 1 = p
        BY <2>4
      <3> QED
        BY <2>4, <3>1
    <2> QED
      BY <2>1, <2>2, <2>3, <2>4
  <1> QED
    BY <1>2, <1>3

\* What is known in a symbol or number.
LEMMA FlawsInSymbol ==
    ASSUME IInv, TextInv, FlawInv, NEW pc \in {"symbol", "atom"}, At(pc)
    PROVE  /\ SymbolOK(input, open, lex, index, Len(context))
           /\ input \in Seq(Bytes) /\ lex.start \in Nat /\ index \in Nat
           /\ lex.start < index /\ index <= Len(input) /\ Len(input) \in Nat
           /\ lex.pc = pc /\ IsLex(lex) /\ Len(context) \in Nat
           /\ SymbolSoFar(input, lex, index) => Valid(input, lex.start + 1, index)
  <1>1. /\ lex.pc = pc /\ lex.start \in Nat /\ lex.start < index /\ index \in Nat
        /\ IsLex(lex)
    BY AtomFacts
  <1>2. index <= Len(input) /\ Len(input) \in Nat
    BY PositionFacts
  <1>3. IsSymbol(lex) /\ lex.pc # "skip"
    BY <1>1 DEF IsSymbol
  <1>4. SymbolOK(input, open, lex, index, Len(context))
    BY <1>3, Zenon DEF FlawInv, SymbolInv
  <1>5. Len(context) \in Nat /\ input \in Seq(Bytes)
    BY DEF IInv, ContextInv, BufferInv
  <1>6. SymbolSoFar(input, lex, index) => Valid(input, lex.start + 1, index)
    BY <1>3, Zenon DEF SymbolSoFar
  <1> QED
    BY <1>1, <1>2, <1>4, <1>5, <1>6, Zenon

\* A symbol or number goes on.
LEMMA SymbolGoesOn ==
    ASSUME IInv, TextInv, FlawInv, NEW pc \in {"symbol", "atom"}, At(pc),
           UNCHANGED buffer, NoError,
           NEW l, lex' = l, l.start = lex.start, l.errors = lex.errors,
           NEW j \in Nat, j = index', index <= j,
           l.pc = pc \/ (l.pc = "skip" /\ l.resume = pc /\ l.bad = j),
           Valid(input, lex.start + 1, index) => Valid(input, lex.start + 1, j)
    PROVE  FlawInv'
  <1>1. PICK n \in Nat : n = Len(context)
    BY FlawsInSymbol
  <1>2. /\ lex.errors \in Nat /\ lex.errors <= n
        /\ lex.errors = n => SymbolSoFar(input, lex, index)
        /\ lex.errors < n => NoSymbol(input, open, lex.start + 1, index)
    BY <1>1, FlawsInSymbol, Zenon DEF SymbolOK
  <1>3. lex.errors = n => SymbolSoFar(input, l, j)
    <2>1. lex.errors = n => Valid(input, lex.start + 1, j)
      BY <1>2, FlawsInSymbol, Zenon
    <2>2. l.pc = "skip" => l.bad = j
      BY SMT
    <2> QED
      BY <2>1, <2>2, Zenon DEF SymbolSoFar
  <1>4. lex.errors < n => NoSymbol(input, open, lex.start + 1, j)
    <2>1. input \in Seq(Bytes) /\ index \in Int /\ j \in Int
      BY FlawsInSymbol
    <2> QED
      BY <1>2, <2>1, SymbolLater, Zenon
  <1>5. ~(l.pc = "skip" /\ l.bad < j)
    BY SMT
  <1>6. SymbolOK(input, open, l, j, n)
    BY <1>2, <1>3, <1>4, <1>5, Zenon DEF SymbolOK
  <1>7. SymbolInv'
    <2>1. input' = input /\ open' = open /\ n = Len(context')
      BY <1>1 DEF buffer, NoError
    <2> QED
      BY <1>6, <2>1, Zenon DEF SymbolInv
  <1>8. ~IsString(l) /\ l.pc # "done"
    BY SMT DEF IsString, InString, Inside
  <1> QED
    BY <1>7, <1>8, Zenon DEF FlawInv, StringInv, FlagInv

\* A symbol or number is returned.
LEMMA SymbolFlagged ==
    ASSUME IInv, TextInv, FlawInv, NEW pc \in {"symbol", "atom"}, At(pc),
           UNCHANGED buffer, UNCHANGED <<index, context>>,
           NEW type \in {"SYMBOL", "NUMBER"}, ReturnToken(type, lex.start, lex.errors)
    PROVE  FlawInv'
  <1>1. PICK n \in Nat : n = Len(context)
    BY FlawsInSymbol
  <1>2. /\ lex.errors \in Nat /\ lex.errors <= n
        /\ lex.errors = n => Valid(input, lex.start + 1, index)
        /\ lex.errors < n => NoSymbol(input, open, lex.start + 1, index)
    BY <1>1, FlawsInSymbol, Zenon DEF SymbolOK
  <1>3. PICK s \in Nat : s = lex.start
    BY FlawsInSymbol
  <1>4. PICK t : /\ t = token'
                 /\ t.type = type /\ t.index = s /\ t.index + t.length = index
                 /\ t.had_error <=> n # lex.errors
    <2>1. token' = [type |-> type, index |-> s, length |-> index - s,
                    had_error |-> n # lex.errors]
      BY <1>1, <1>3 DEF ReturnToken
    <2>2. s + (index - s) = index
      BY <1>3, FlawsInSymbol
    <2>3. token'.type = type /\ token'.index = s /\ token'.length = index - s
      BY <2>1
    <2>4. token'.had_error <=> n # lex.errors
      BY <2>1, Zenon
    <2>5. token'.index + token'.length = index
      BY <2>2, <2>3
    <2> QED
      BY <2>3, <2>4, <2>5, Zenon
  <1>5. lex'.pc = "done"
    BY DEF ReturnToken, Idle
  <1>6. n # lex.errors <=> ~Valid(input, s + 1, index)
    <2>1. CASE lex.errors = n
      BY <1>2, <1>3, <2>1
    <2>2. CASE lex.errors < n
      <3>1. NoSymbol(input, open, s + 1, index)
        BY <1>2, <1>3, <2>2
      <3>2. input \in Seq(Bytes) /\ index \in index .. Len(input)
        BY FlawsInSymbol
      <3>3. ~Valid(input, s + 1, index)
        BY <3>1, <3>2, SymbolNow, Zenon
      <3> QED
        BY <1>2, <2>2, <3>3
    <2> QED
      BY <1>2, <2>1, <2>2
  <1>7. FlagInv'
    <2>1. input' = input
      BY DEF buffer
    <2>2. t.type # "STRING" /\ t.type \in {"SYMBOL", "NUMBER"}
      BY <1>4
    <2>3. t.had_error <=> Deserved(t)'
      BY <1>4, <1>6, <2>1, <2>2, Zenon DEF Deserved
    <2>4. token'.had_error <=> Deserved(token)'
      BY <1>4, <2>3 DEF Deserved
    <2> QED
      BY <1>4, <2>2, <2>4, Zenon DEF FlagInv
  <1>8. ~IsString(lex)' /\ ~IsSymbol(lex)'
    BY <1>5, SMT DEF IsString, IsSymbol, InString, Inside
  <1> QED
    BY <1>7, <1>8, Zenon DEF FlawInv, StringInv, SymbolInv

\* What one turn of either loop does.
LEMMA SymbolTurn ==
    ASSUME IInv, TextInv, FlawInv, NEW pc \in {"symbol", "atom"}, At(pc), UNCHANGED buffer,
           NEW l, l.start = lex.start, l.errors = lex.errors,
           NoError, \/ IsChar /\ Take(l) /\ l.pc = pc
                    \/ index' = index /\ lex' = l /\ l.pc = "skip" /\ l.resume = pc
                       /\ l.bad = index
    PROVE  FlawInv'
  <1>1. PICK a \in Nat, b \in Nat, p \in Nat :
          a = lex.start + 1 /\ b = index /\ p = b + 1 /\ p = index + 1 /\ a <= b + 1
    <2>1. lex.start \in Nat /\ index \in Nat /\ lex.start < index
      BY FlawsInSymbol
    <2>2. lex.start + 1 \in Nat /\ index + 1 \in Nat /\ lex.start + 1 <= index + 1
      BY <2>1
    <2> QED
      BY <2>1, <2>2, Zenon
  <1>2. CASE IsChar /\ Take(l) /\ l.pc = pc
    <2>1. PICK j : j = index + Peek.width /\ j = index' /\ lex' = l
      BY <1>2 DEF Take
    <2>2. /\ j \in Nat /\ p <= j
          /\ \/ j = p /\ input[p] = Peek.c /\ Peek.c < 128
             \/ j = p + 1 /\ Peek.c >= 128 /\ Lead(input[p]) /\ Trail(input[p + 1])
      BY <1>1, <1>2, <2>1, CharItem
    <2>3. Valid(input, a, b) => Valid(input, a, j)
      BY <1>1, <2>2, ValidGrows
    <2>4. index <= j
      BY <1>1, <2>2
    <2> QED
      BY <1>1, <1>2, <2>1, <2>2, <2>3, <2>4, SymbolGoesOn, Zenon
  <1>3. CASE index' = index /\ lex' = l /\ l.pc = "skip" /\ l.resume = pc /\ l.bad = index
    <2>1. index <= b /\ b = index' /\ l.bad = b
      BY <1>1, <1>3
    <2> QED
      BY <1>1, <1>3, <2>1, SymbolGoesOn, Zenon
  <1> QED
    BY <1>2, <1>3

LEMMA LexSymbolFlaws ==
    ASSUME IInv, TextInv, FlawInv, LexSymbol
    PROVE  FlawInv'
  <1>1. At("symbol") /\ UNCHANGED buffer /\ lex.pc = "symbol" /\ IsLex(lex)
    <2>1. At("symbol") /\ UNCHANGED buffer
      BY DEF LexSymbol
    <2> QED
      BY <2>1, FlawsInSymbol
  <1>2. CASE IsChar /\ ~LoopEnds /\ Take(lex) /\ NoError /\ UNCHANGED token
    BY <1>1, <1>2, SymbolTurn, Zenon
  <1>3. CASE /\ LoopEnds \/ Peek = EndOfInput
             /\ UNCHANGED <<index, context>>
             /\ ReturnToken("SYMBOL", lex.start, lex.errors)
    BY <1>1, <1>3, SymbolFlagged, Zenon
  <1>4. CASE SkipThen("symbol", lex)
    <2>1. PICK l : /\ l = lex' /\ index' = index /\ NoError
                   /\ l = [lex EXCEPT !.pc = "skip", !.bad = index, !.resume = "symbol"]
      BY <1>4 DEF SkipThen, Stay
    <2>2. /\ l.pc = "skip" /\ l.start = lex.start /\ l.errors = lex.errors
          /\ l.bad = index /\ l.resume = "symbol"
      BY <1>1, <2>1 DEF IsLex
    <2> QED
      BY <1>1, <2>1, <2>2, SymbolTurn, Zenon
  <1> QED
    BY <1>2, <1>3, <1>4, Zenon DEF LexSymbol

LEMMA LexAtomFlaws ==
    ASSUME IInv, TextInv, FlawInv, LexAtom
    PROVE  FlawInv'
  <1>1. At("atom") /\ UNCHANGED buffer /\ lex.pc = "atom" /\ IsLex(lex)
    <2>1. At("atom") /\ UNCHANGED buffer
      BY DEF LexAtom
    <2> QED
      BY <2>1, FlawsInSymbol
  <1>2. CASE IsChar /\ ~LoopEnds /\ Take(Counted(lex, Peek.c)) /\ NoError /\ UNCHANGED token
    <2>1. PICK l : l = Counted(lex, Peek.c)
      OBVIOUS
    <2>2. l.pc = "atom" /\ l.start = lex.start /\ l.errors = lex.errors
      BY <1>1, <2>1 DEF IsLex, Counted
    <2> QED
      BY <1>1, <1>2, <2>1, <2>2, SymbolTurn, Zenon
  <1>3. CASE /\ LoopEnds \/ Peek = EndOfInput
             /\ UNCHANGED <<index, context>>
             /\ ReturnToken(IF lex.numeric /\ lex.dots <= 1 /\ lex.digit
                            THEN "NUMBER" ELSE "SYMBOL", lex.start, lex.errors)
    <2>1. PICK type \in {"SYMBOL", "NUMBER"} : ReturnToken(type, lex.start, lex.errors)
      BY <1>3, Zenon
    <2> QED
      BY <1>1, <1>3, <2>1, SymbolFlagged, Zenon
  <1>4. CASE SkipThen("atom", [lex EXCEPT !.numeric = FALSE])
    <2>1. PICK l : /\ l = lex' /\ index' = index /\ NoError
                   /\ l = [[lex EXCEPT !.numeric = FALSE]
                             EXCEPT !.pc = "skip", !.bad = index, !.resume = "atom"]
      BY <1>4 DEF SkipThen, Stay
    <2>2. /\ l.pc = "skip" /\ l.start = lex.start /\ l.errors = lex.errors
          /\ l.bad = index /\ l.resume = "atom"
      BY <1>1, <2>1 DEF IsLex
    <2> QED
      BY <1>1, <2>1, <2>2, SymbolTurn, Zenon
  <1> QED
    BY <1>2, <1>3, <1>4, Zenon DEF LexAtom

-----------------------------------------------------------------------------
(***************************************************************************)
(* Bytes that are skipped.                                                 *)
(***************************************************************************)
LEMMA AgreesSoFar ==
    ASSUME NEW w \in Seq(Bytes), NEW more, NEW z, Becomes(w, more, z), NEW a \in Nat, a > 0,
           NEW b \in Int, b <= Len(w)
    PROVE  \A k \in a .. b : z[k] = w[k]
  <1>1. PICK m \in Nat : m = Len(w)
    OBVIOUS
  <1>2. \A k \in 1 .. m : z[k] = w[k]
    BY <1>1, Zenon DEF Becomes
  <1>3. \A k \in a .. b : k \in 1 .. m
    BY <1>1
  <1> QED
    BY <1>2, <1>3

\* Invalid bytes at p end all strings.
LEMMA BadInString ==
    ASSUME IInv, Peek = BadUtf8, ~(open /\ NeedsInput(index)), NEW p \in Nat, p = index + 1,
           NEW k \in Nat, Items(input, k + 1, p)
    PROVE  NoLiteral(input, open, k)
  <1>1. input \in Seq(Bytes) /\ Len(input) \in Nat
    BY DEF IInv, BufferInv
  <1>2. p <= Len(input) /\ \A z : Becomes(input, open, z) => Broken(z, Len(z), p)
    BY BadByte
  <1>3. p <= Len(input) + 1
    BY <1>1, <1>2
  <1>4. ASSUME NEW z, Becomes(input, open, z)
        PROVE  /\ p <= Len(z) => z[p] # DoubleQuote
               /\ \A j \in p + 1 .. Len(z) : ~Item(z, p, j)
    <2>1. PICK m \in Nat : m = Len(z)
      BY <1>1, <1>4, BecomesFacts
    <2>2. Broken(z, m, p)
      BY <1>2, <1>4, <2>1, Zenon
    <2>3. \A j \in Nat : j <= m => z[p] # DoubleQuote /\ ~Item(z, p, j)
      BY <2>2, BrokenItem
    <2>4. \A j \in p + 1 .. m : j \in Nat /\ j <= m
      OBVIOUS
    <2>5. z[p] # DoubleQuote
      BY <2>1, <2>3
    <2> QED
      BY <2>1, <2>3, <2>4, <2>5, Zenon
  <1> QED
    BY <1>1, <1>2, <1>3, <1>4, Blocked, Zenon

LEMMA BadInEscape ==
    ASSUME IInv, Peek = BadUtf8, NEW p \in Nat, p = index + 1,
           ~(open /\ NeedsInput(index)),
           NEW k \in Nat, NEW i \in Nat, k < i, Items(input, k + 1, i),
           Unfinished(input, i, p)
    PROVE  NoLiteral(input, open, k)
  <1>1. input \in Seq(Bytes) /\ Len(input) \in Nat
    BY DEF IInv, BufferInv
  <1>2. p <= Len(input) /\ input[p] \in 128 .. 255
    BY BadByte
  <1>3. p <= Len(input) + 1 /\ ~(p > Len(input))
    BY <1>1, <1>2
  <1>4. Wrong(input, i, p)
    BY <1>2, HighIsWrong
  <1> QED
    BY <1>1, <1>3, <1>4, EscapeBroken, Zenon

\* And all symbols that go on beyond them.
LEMMA BadInSymbol ==
    ASSUME IInv, Peek = BadUtf8, ~(open /\ NeedsInput(index)), NEW p \in Nat, p = index + 1,
           NEW k \in Nat, k > 0, k <= p, Valid(input, k, p - 1)
    PROVE  NoSymbol(input, open, k, p)
  <1>1. input \in Seq(Bytes) /\ Len(input) \in Nat
    BY DEF IInv, BufferInv
  <1>2. p <= Len(input) /\ \A z : Becomes(input, open, z) => Broken(z, Len(z), p)
    BY BadByte
  <1>3. SUFFICES ASSUME NEW z, Becomes(input, open, z), NEW n \in p .. Len(z)
                 PROVE  ~Valid(z, k, n)
    BY Zenon DEF NoSymbol
  <1>4. PICK m \in Nat : m = Len(z)
    BY <1>1, <1>3, BecomesFacts
  <1>5. Broken(z, m, p)
    BY <1>2, <1>3, <1>4, Zenon
  <1>6. Valid(z, k, p - 1)
    <2>1. p - 1 \in Int /\ p - 1 <= Len(input)
      BY <1>1, <1>2
    <2>2. \A q \in k .. p - 1 : z[q] = input[q]
      BY <1>1, <1>3, <2>1, AgreesSoFar
    <2> QED
      BY <2>1, <2>2, ValidAgrees
  <1>7. n \in Nat /\ p <= n /\ n <= m
    BY <1>3, <1>4
  <1> QED
    BY <1>5, <1>6, <1>7, BrokenSymbol

\* What is known where bytes are skipped.
LEMMA SkippingString ==
    ASSUME IInv, TextInv, FlawInv, At("skip"), lex.resume \in {"string", "suffix", "escape"}
    PROVE  /\ StringOK(input, open, lex, index, Len(context))
           /\ lex.resume # "escape" /\ StringSoFar(input, lex, index) =>
                Items(input, lex.start + 2, lex.bad + 1)
           /\ lex.resume = "escape" /\ StringSoFar(input, lex, index) =>
                EscapeTo(input, lex, lex.bad + 1)
           /\ ~IsSymbol(lex)
  <1>1. lex.pc = "skip"
    BY SkipFacts
  <1>2. IsString(lex) /\ ~IsSymbol(lex)
    BY <1>1 DEF IsString, IsSymbol, InString, Inside
  <1>3. StringOK(input, open, lex, index, Len(context))
    BY <1>2, Zenon DEF FlawInv, StringInv
  <1> QED
    BY <1>1, <1>2, <1>3, Zenon DEF StringSoFar

LEMMA SkippingSymbol ==
    ASSUME IInv, TextInv, FlawInv, At("skip"), lex.resume \in {"atom", "symbol"}
    PROVE  /\ SymbolOK(input, open, lex, index, Len(context))
           /\ SymbolSoFar(input, lex, index) => Valid(input, lex.start + 1, lex.bad)
           /\ ~IsString(lex)
  <1>1. lex.pc = "skip"
    BY SkipFacts
  <1>2. IsSymbol(lex) /\ ~IsString(lex)
    BY <1>1 DEF IsString, IsSymbol, InString, Inside
  <1>3. SymbolOK(input, open, lex, index, Len(context))
    BY <1>2, Zenon DEF FlawInv, SymbolInv
  <1>4. SymbolSoFar(input, lex, index) => Valid(input, lex.start + 1, lex.bad)
    BY <1>1, Zenon DEF SymbolSoFar
  <1> QED
    BY <1>2, <1>3, <1>4

\* A string that has a flaw goes on.
LEMMA StringLost ==
    ASSUME UNCHANGED buffer, NEW n \in Nat, n = Len(context'), NEW l, lex' = l, IsString(l),
           ~IsSymbol(l), l.pc # "done",
           NEW k, k = l.start + 1, input[k] = DoubleQuote,
           l.errors \in Nat, l.errors <= n,
           NoLiteral(input, open, k),
           l.errors = n => l.pc = "skip" /\ StringSoFar(input, l, index')
    PROVE  FlawInv'
  <1>1. StringOK(input, open, l, index', n)
    BY Zenon DEF StringOK
  <1>2. input' = input /\ open' = open
    BY DEF buffer
  <1>3. StringInv'
    BY <1>1, <1>2, Zenon DEF StringInv
  <1> QED
    BY <1>3, Zenon DEF FlawInv, SymbolInv, FlagInv

LEMMA SymbolLost ==
    ASSUME UNCHANGED buffer, NEW n \in Nat, n = Len(context'), NEW l, lex' = l, IsSymbol(l),
           ~IsString(l), l.pc # "done",
           l.errors \in Nat, l.errors <= n,
           NoSymbol(input, open, l.start + 1, index'),
           l.errors = n => SymbolSoFar(input, l, index')
    PROVE  FlawInv'
  <1>1. SymbolOK(input, open, l, index', n)
    BY Zenon DEF SymbolOK
  <1>2. input' = input /\ open' = open
    BY DEF buffer
  <1>3. SymbolInv'
    BY <1>1, <1>2, Zenon DEF SymbolInv
  <1> QED
    BY <1>3, Zenon DEF FlawInv, StringInv, FlagInv

\* A byte is skipped.
LEMMA SkippedFlaws ==
    ASSUME IInv, TextInv, FlawInv, At("skip"), Peek = BadUtf8, UNCHANGED buffer,
           index' = index + 1, UNCHANGED <<lex, context>>
    PROVE  FlawInv'
  <1>1. /\ lex.pc = "skip" /\ lex.start \in Nat /\ lex.escape \in Nat /\ lex.bad \in Nat
        /\ index \in Nat /\ lex.resume \in Resumed /\ lex.bad <= index
        /\ lex.resume # "comment" => lex.start <= index
    BY SkipFacts
  <1>2. PICK n \in Nat : n = Len(context) /\ n = Len(context')
    BY DEF IInv, ContextInv
  <1>3. PICK p \in Nat, k \in Nat, i \in Nat :
          p = index + 1 /\ k = lex.start + 1 /\ i = lex.escape + 1
    <2>1. index + 1 \in Nat /\ lex.start + 1 \in Nat /\ lex.escape + 1 \in Nat
      BY <1>1
    <2> QED
      BY <2>1, Zenon
  <1>4. /\ k > 0 /\ lex.start + 2 = k + 1
        /\ lex.bad = index => lex.bad + 1 = p
        /\ lex.bad = index => lex.bad = p - 1
        /\ lex.resume # "comment" => k <= p
        /\ lex.bad < index \/ lex.bad = index
        /\ ~(open /\ NeedsInput(index))
    BY <1>1, <1>3 DEF At
  <1>5. CASE lex.resume = "comment"
    BY <1>1, <1>5, NoFlaws
  <1>6. CASE lex.resume \in {"string", "suffix", "escape"}
    <2>1. /\ StringOK(input, open, lex, index, n)
          /\ lex.resume # "escape" /\ StringSoFar(input, lex, index) =>
               Items(input, lex.start + 2, lex.bad + 1)
          /\ lex.resume = "escape" /\ StringSoFar(input, lex, index) =>
               EscapeTo(input, lex, lex.bad + 1)
          /\ ~IsSymbol(lex)
      BY <1>2, <1>6, SkippingString
    <2>2. /\ input[k] = DoubleQuote /\ lex.errors \in Nat /\ lex.errors <= n
          /\ lex.errors = n => StringSoFar(input, lex, index)
          /\ lex.errors < n \/ lex.bad < index => NoLiteral(input, open, k)
      BY <1>1, <1>3, <2>1, Zenon DEF StringOK
    <2>3. lex.errors = n => StringSoFar(input, lex, index')
      BY <1>1, <2>2, SMT DEF StringSoFar, Inside
    <2>4. NoLiteral(input, open, k)
      <3>1. CASE lex.errors < n \/ lex.bad < index
        BY <2>2, <3>1
      <3>2. CASE lex.errors = n /\ lex.bad = index /\ lex.resume # "escape"
        <4>1. Items(input, k + 1, p)
          BY <1>4, <2>1, <2>2, <3>2
        <4> QED
          BY <1>3, <1>4, <4>1, BadInString
      <3>3. CASE lex.errors = n /\ lex.bad = index /\ lex.resume = "escape"
        <4>1. EscapeTo(input, lex, p)
          BY <1>4, <2>1, <2>2, <3>3
        <4>2. Items(input, k + 1, i) /\ Unfinished(input, i, p)
          BY <1>3, <1>4, <4>1, Zenon DEF EscapeTo
        <4>3. k < i
          <5>1. k + 1 \in k + 1 .. i
            BY <4>2, Zenon DEF Items
          <5> QED
            BY <5>1
        <4> QED
          BY <1>3, <1>4, <4>2, <4>3, BadInEscape
      <3>4. lex.errors < n \/ lex.errors = n
        BY <2>2
      <3> QED
        BY <1>4, <3>1, <3>2, <3>3, <3>4
    <2>5. IsString(lex) /\ lex.pc # "done"
      BY <1>1, <1>6 DEF IsString, InString, Inside
    <2> QED
      BY <1>1, <1>2, <1>3, <2>1, <2>2, <2>3, <2>4, <2>5, StringLost, Zenon
  <1>7. CASE lex.resume \in {"atom", "symbol"}
    <2>1. /\ SymbolOK(input, open, lex, index, n)
          /\ SymbolSoFar(input, lex, index) => Valid(input, k, lex.bad)
          /\ ~IsString(lex)
      BY <1>2, <1>3, <1>7, SkippingSymbol
    <2>2. /\ lex.errors \in Nat /\ lex.errors <= n
          /\ lex.errors = n => SymbolSoFar(input, lex, index)
          /\ lex.errors < n \/ lex.bad < index => NoSymbol(input, open, k, index)
      BY <1>1, <1>3, <2>1, Zenon DEF SymbolOK
    <2>3. lex.errors = n => SymbolSoFar(input, lex, index')
      BY <1>1, <2>2, Zenon DEF SymbolSoFar
    <2>4. NoSymbol(input, open, k, p)
      <3>1. CASE lex.errors < n \/ lex.bad < index
        <4>1. NoSymbol(input, open, k, index)
          BY <2>2, <3>1
        <4>2. index \in Int /\ p \in Int /\ index <= p
          BY <1>1, <1>3
        <4>3. input \in Seq(Bytes)
          BY DEF IInv, BufferInv
        <4> QED
          BY <4>1, <4>2, <4>3, SymbolLater, Zenon
      <3>2. CASE lex.errors = n /\ lex.bad = index
        <4>1. Valid(input, k, p - 1)
          BY <1>4, <2>1, <2>2, <3>2
        <4>2. k <= p
          BY <1>4, <1>7
        <4> QED
          BY <1>3, <1>4, <4>1, <4>2, BadInSymbol
      <3>3. lex.errors < n \/ lex.errors = n
        BY <2>2
      <3> QED
        BY <1>4, <3>1, <3>2, <3>3
    <2>5. IsSymbol(lex) /\ lex.pc # "done"
      BY <1>1, <1>7 DEF IsSymbol
    <2>6. NoSymbol(input, open, lex.start + 1, index')
      BY <1>3, <2>4
    <2> QED
      BY <1>1, <1>2, <1>3, <2>1, <2>2, <2>3, <2>5, <2>6, SymbolLost, Zenon
  <1> QED
    BY <1>1, <1>5, <1>6, <1>7 DEF Resumed

\* The bytes to skip have been skipped.
LEMMA SkipOverFlaws ==
    ASSUME IInv, TextInv, FlawInv, At("skip"), Peek # BadUtf8, UNCHANGED buffer,
           index' = index,
           NEW q, q = (IF lex.resume = "escape" THEN "string" ELSE lex.resume),
           lex' = [lex EXCEPT !.pc = q],
           NEW x, NEW y, NEW errors \in {<<x>>, <<x, y>>}, AddErrors(errors)
    PROVE  FlawInv'
  <1>1. /\ lex.pc = "skip" /\ lex.start \in Nat /\ lex.escape \in Nat /\ lex.bad \in Nat
        /\ index \in Nat /\ lex.resume \in Resumed /\ lex.bad <= index
        /\ lex.bad # index /\ IsLex(lex)
    BY SkipFacts
  <1>2. PICK n \in Nat : n = Len(context')
    BY MoreErrors
  <1>3. PICK m \in Nat : m = Len(context) /\ m < n
    <2>1. <<x>> # <<>> /\ <<x, y>> # <<>>
      OBVIOUS
    <2>2. errors # <<>>
      BY <2>1
    <2>3. errors \in {<<>>, <<x>>, <<x, y>>}
      OBVIOUS
    <2>4. /\ Len(context) \in Nat /\ Len(context) <= n
          /\ errors = <<>> <=> n = Len(context)
      <3>1. /\ Len(context) \in Nat /\ Len(context) <= Len(context')
            /\ errors = <<>> <=> Len(context') = Len(context)
        BY <2>3, MoreErrors, Zenon
      <3> QED
        BY <1>2, <3>1, Zenon
    <2>5. PICK k \in Nat : k = Len(context) /\ k <= n /\ n # k
      BY <2>2, <2>4, Zenon
    <2>6. k < n
      BY <2>5
    <2> QED
      BY <2>5, <2>6, Zenon
  <1>4. lex.bad < index
    BY <1>1
  <1>5. PICK l : l = lex' /\ l.pc = q /\ l.start = lex.start /\ l.errors = lex.errors
                 /\ l.resume = lex.resume
    BY <1>1 DEF IsLex
  <1>6. CASE lex.resume = "comment"
    BY <1>5, <1>6, NoFlaws
  <1>7. CASE lex.resume \in {"string", "suffix", "escape"}
    <2>1. StringOK(input, open, lex, index, m)
      BY <1>3, <1>7, SkippingString
    <2>2. /\ input[lex.start + 1] = DoubleQuote /\ lex.errors \in Nat /\ lex.errors <= m
          /\ NoLiteral(input, open, lex.start + 1)
      BY <1>1, <1>4, <2>1, Zenon DEF StringOK
    <2>3. lex.errors <= n /\ lex.errors # n
      BY <1>3, <2>2
    <2>4. l.pc \in {"string", "suffix"}
      BY <1>5, <1>7
    <2>5. IsString(l) /\ ~IsSymbol(l) /\ l.pc # "done"
      BY <2>4 DEF IsString, IsSymbol, InString
    <2> QED
      BY <1>2, <1>5, <2>2, <2>3, <2>5, StringLost, Zenon
  <1>8. CASE lex.resume \in {"atom", "symbol"}
    <2>1. SymbolOK(input, open, lex, index, m)
      BY <1>3, <1>8, SkippingSymbol
    <2>2. /\ lex.errors \in Nat /\ lex.errors <= m
          /\ NoSymbol(input, open, lex.start + 1, index)
      BY <1>1, <1>4, <2>1, Zenon DEF SymbolOK
    <2>3. lex.errors <= n /\ lex.errors # n
      BY <1>3, <2>2
    <2>4. l.pc \in {"atom", "symbol"}
      BY <1>5, <1>8
    <2>5. IsSymbol(l) /\ ~IsString(l) /\ l.pc # "done"
      BY <2>4 DEF IsString, IsSymbol, InString, Inside
    <2> QED
      BY <1>2, <1>5, <2>2, <2>3, <2>5, SymbolLost, Zenon
  <1> QED
    BY <1>1, <1>6, <1>7, <1>8 DEF Resumed

LEMMA SkipInvalidFlaws ==
    ASSUME IInv, TextInv, FlawInv, SkipInvalid
    PROVE  FlawInv'
  <1>1. At("skip") /\ UNCHANGED buffer
    BY DEF SkipInvalid
  <1>2. CASE Peek = BadUtf8
    <2>1. index' = index + 1 /\ UNCHANGED <<lex, context>>
      BY <1>2 DEF SkipInvalid
    <2> QED
      BY <1>1, <1>2, <2>1, SkippedFlaws, Zenon
  <1>3. CASE Peek # BadUtf8
    <2>1. PICK x, y : x = Error("INVALID_UTF8", lex.bad, index)
                      /\ y = Error("INVALID_ESCAPE", lex.escape, index)
      OBVIOUS
    <2>2. CASE lex.resume = "escape"
      <3>1. index' = index /\ lex' = [lex EXCEPT !.pc = "string"] /\ AddErrors(<<x, y>>)
        BY <1>3, <2>1, <2>2 DEF SkipInvalid, Stay
      <3>2. "string" = IF lex.resume = "escape" THEN "string" ELSE lex.resume
        BY <2>2
      <3>3. <<x, y>> \in {<<x>>, <<x, y>>}
        OBVIOUS
      <3> QED
        BY <1>1, <1>3, <3>1, <3>2, <3>3, SkipOverFlaws, Zenon
    <2>3. CASE lex.resume # "escape"
      <3>1. index' = index /\ lex' = [lex EXCEPT !.pc = lex.resume] /\ AddErrors(<<x>>)
        BY <1>3, <2>1, <2>3 DEF SkipInvalid, Stay
      <3>2. lex.resume = IF lex.resume = "escape" THEN "string" ELSE lex.resume
        BY <2>3
      <3>3. <<x>> \in {<<x>>, <<x, y>>}
        OBVIOUS
      <3> QED
        BY <1>1, <1>3, <3>1, <3>2, <3>3, SkipOverFlaws, Zenon
    <2> QED
      BY <2>2, <2>3
  <1> QED
    BY <1>2, <1>3

-----------------------------------------------------------------------------
\* A token begins.
LEMMA BeginFlaws ==
    ASSUME IInv, TextInv, FlawInv, Begin
    PROVE  FlawInv'
  <1>1. /\ At("start") /\ UNCHANGED buffer /\ lex.pc = "start" /\ IsLex(lex)
        /\ index \in Nat
    <2>1. At("start") /\ UNCHANGED buffer
      BY DEF Begin
    <2> QED
      BY <2>1, BetweenFacts
  <1>2. PICK n \in Nat : n = Len(context)
    BY DEF IInv, ContextInv
  <1>3. PICK l : l = [lex EXCEPT !.start = index, !.errors = Len(context)]
    OBVIOUS
  <1>4. l.start = index /\ l.errors = n /\ IsLex(l)
    BY <1>1, <1>2, <1>3 DEF IsLex
  <1>5. PICK p \in Nat : p = index + 1
    BY <1>1
  <1>6. CASE /\ Peek = EndOfInput
             /\ UNCHANGED <<index, context>>
             /\ ReturnToken("END", index, Len(context))
    <2>1. n = Len(context') /\ ReturnToken("END", index, n)
      BY <1>2, <1>6
    <2>2. "END" \in {"END", "SINGLE_QUOTE", "LEFT_PAREN", "RIGHT_PAREN"}
      OBVIOUS
    <2> QED
      BY <2>1, <2>2, MarkFlaws, Zenon
  <1>7. CASE SkipThen("symbol", [l EXCEPT !.utf8_error = FALSE])
    <2>1. PICK r : /\ r = lex' /\ index' = index /\ NoError
                   /\ r = [[l EXCEPT !.utf8_error = FALSE]
                             EXCEPT !.pc = "skip", !.bad = index, !.resume = "symbol"]
      BY <1>7 DEF SkipThen, Stay
    <2>2. /\ r.pc = "skip" /\ r.start = index /\ r.errors = n
          /\ r.bad = index /\ r.resume = "symbol"
      BY <1>4, <2>1 DEF IsLex
    <2>3. n = Len(context')
      BY <1>2, <2>1 DEF NoError
    <2>4. IsSymbol(r) /\ ~IsString(r) /\ r.pc # "done"
      BY <2>2 DEF IsSymbol, IsString, InString, Inside
    <2>5. SymbolSoFar(input, r, index')
      <3>1. Valid(input, index + 1, index)
        BY <1>1, ValidEmpty
      <3> QED
        BY <2>1, <2>2, <3>1, Zenon DEF SymbolSoFar
    <2>6. ~(r.errors < n) /\ ~(r.bad < index) /\ r.errors <= n
      BY <1>1, <1>2, <2>2
    <2>7. SymbolOK(input, open, r, index', n)
      BY <2>1, <2>2, <2>5, <2>6, Zenon DEF SymbolOK
    <2>8. SymbolInv'
      <3>1. input' = input /\ open' = open
        BY <1>1 DEF buffer
      <3> QED
        BY <2>1, <2>3, <2>7, <3>1, Zenon DEF SymbolInv
    <2> QED
      BY <2>1, <2>4, <2>8, Zenon DEF FlawInv, StringInv, FlagInv
  <1>8. CASE /\ IsChar /\ Peek.c \notin {SingleQuote, LeftParen, RightParen}
             /\ Take(CASE IsWhitespace(Peek.c) -> [l EXCEPT !.pc = "blank"]
                       [] Peek.c = Semicolon -> [l EXCEPT !.pc = "comment"]
                       [] Peek.c = DoubleQuote -> [l EXCEPT !.pc = "string", !.c = Peek.c]
                       [] OTHER -> [l EXCEPT !.pc = "atom",
                                             !.dots = IF Peek.c = Period THEN 1 ELSE 0,
                                             !.numeric = IsNumericStart(Peek.c),
                                             !.digit = IsDigit(Peek.c)])
             /\ NoError /\ UNCHANGED token
    <2>1. PICK r, j : /\ r = lex' /\ j = index' /\ j = index + Peek.width
                      /\ n = Len(context')
      BY <1>2, <1>8 DEF Take, NoError
    <2>2. /\ j \in Nat /\ p <= j
          /\ \/ j = p /\ input[p] = Peek.c /\ Peek.c < 128
             \/ j = p + 1 /\ Peek.c >= 128 /\ Lead(input[p]) /\ Trail(input[p + 1])
      BY <1>5, <1>8, <2>1, CharItem
    <2>3. CASE IsWhitespace(Peek.c)
      <3>1. r = [l EXCEPT !.pc = "blank"]
        BY <1>8, <2>1, <2>3 DEF Take, IsWhitespace, NewLine, Semicolon, DoubleQuote
      <3>2. r.pc = "blank"
        BY <1>4, <3>1 DEF IsLex
      <3> QED
        BY <2>1, <3>2, NoFlaws
    <2>4. CASE ~IsWhitespace(Peek.c) /\ Peek.c = Semicolon
      <3>1. r = [l EXCEPT !.pc = "comment"]
        BY <1>8, <2>1, <2>4 DEF Take, Semicolon, DoubleQuote
      <3>2. r.pc = "comment"
        BY <1>4, <3>1 DEF IsLex
      <3> QED
        BY <2>1, <3>2, NoFlaws
    <2>5. CASE ~IsWhitespace(Peek.c) /\ Peek.c = DoubleQuote
      <3>1. r = [l EXCEPT !.pc = "string", !.c = Peek.c]
        BY <1>8, <2>1, <2>5 DEF Take, Semicolon, DoubleQuote
      <3>2. r.pc = "string" /\ r.start = index /\ r.errors = n
        BY <1>4, <3>1 DEF IsLex
      <3>3. j = p /\ input[p] = DoubleQuote
        BY <2>2, <2>5 DEF DoubleQuote
      <3>4. IsString(r) /\ ~IsSymbol(r) /\ r.pc # "done"
        BY <3>2 DEF IsSymbol, IsString, InString, Inside
      <3>5. StringSoFar(input, r, j)
        <4>1. r.start + 2 = p + 1 /\ j + 1 = p + 1 /\ p + 1 \in Nat
          BY <1>1, <1>5, <3>2, <3>3
        <4>2. Items(input, p + 1, p + 1)
          BY <4>1, ItemsEnd
        <4> QED
          BY <3>2, <4>1, <4>2, SMT DEF StringSoFar, Inside
      <3>6. ~(r.errors < n) /\ r.pc # "skip" /\ r.errors <= n /\ r.start + 1 = p
        BY <1>2, <1>5, <3>2
      <3>7. StringOK(input, open, r, j, n)
        BY <3>2, <3>3, <3>5, <3>6, Zenon DEF StringOK
      <3>8. StringInv'
        <4>1. input' = input /\ open' = open
          BY <1>1 DEF buffer
        <4> QED
          BY <2>1, <3>7, <4>1, Zenon DEF StringInv
      <3> QED
        BY <2>1, <3>4, <3>8, Zenon DEF FlawInv, SymbolInv, FlagInv
    <2>6. CASE ~IsWhitespace(Peek.c) /\ Peek.c \notin {Semicolon, DoubleQuote}
      <3>1. r = [l EXCEPT !.pc = "atom",
                          !.dots = IF Peek.c = Period THEN 1 ELSE 0,
                          !.numeric = IsNumericStart(Peek.c),
                          !.digit = IsDigit(Peek.c)]
        BY <1>8, <2>1, <2>6 DEF Take
      <3>2. r.pc = "atom" /\ r.start = index /\ r.errors = n
        BY <1>4, <3>1 DEF IsLex
      <3>3. IsSymbol(r) /\ ~IsString(r) /\ r.pc # "done" /\ r.pc # "skip"
        BY <3>2 DEF IsSymbol, IsString, InString, Inside
      <3>4. Valid(input, p, j)
        <4>1. PICK b \in Nat : b = index /\ p = b + 1
          BY <1>1, <1>5
        <4>2. Valid(input, p, b)
          BY <4>1, ValidEmpty
        <4>3. p <= b + 1
          BY <4>1
        <4> QED
          BY <2>2, <4>1, <4>2, <4>3, ValidGrows
      <3>5. ~(r.errors < n) /\ r.errors <= n /\ r.start + 1 = p
        BY <1>2, <1>5, <3>2
      <3>6. SymbolOK(input, open, r, j, n)
        BY <3>2, <3>3, <3>4, <3>5, Zenon DEF SymbolOK, SymbolSoFar
      <3>7. SymbolInv'
        <4>1. input' = input /\ open' = open
          BY <1>1 DEF buffer
        <4> QED
          BY <2>1, <3>6, <4>1, Zenon DEF SymbolInv
      <3> QED
        BY <2>1, <3>3, <3>7, Zenon DEF FlawInv, StringInv, FlagInv
    <2> QED
      BY <2>3, <2>4, <2>5, <2>6
  <1>9. CASE /\ IsChar /\ Peek.c \in {SingleQuote, LeftParen, RightParen}
             /\ index' = index + 1
             /\ NoError
             /\ ReturnToken(CASE Peek.c = SingleQuote -> "SINGLE_QUOTE"
                              [] Peek.c = LeftParen -> "LEFT_PAREN"
                              [] Peek.c = RightParen -> "RIGHT_PAREN", index, Len(context))
    <2>1. PICK type \in {"END", "SINGLE_QUOTE", "LEFT_PAREN", "RIGHT_PAREN"} :
            ReturnToken(type, index, Len(context))
      BY <1>9 DEF SingleQuote, LeftParen, RightParen
    <2>2. n = Len(context') /\ ReturnToken(type, index, n)
      BY <1>2, <1>9, <2>1 DEF NoError
    <2> QED
      BY <2>2, MarkFlaws, Zenon
  <1> QED
    BY <1>3, <1>6, <1>7, <1>8, <1>9 DEF Begin

-----------------------------------------------------------------------------
(***************************************************************************)
(* More input.                                                             *)
(***************************************************************************)
LEMMA BecomesLater ==
    ASSUME NEW w \in Seq(Bytes), NEW v \in Seq(Bytes), Becomes(w, TRUE, v), NEW more, NEW z,
           Becomes(v, more, z)
    PROVE  Becomes(w, TRUE, z)
  <1>1. PICK m \in Nat, n \in Nat, p \in Nat : m = Len(w) /\ n = Len(v) /\ p = Len(z)
    <2>1. Len(w) \in Nat /\ Len(v) \in Nat /\ Len(z) \in Nat
      BY BecomesFacts, LenProperties
    <2> QED
      BY <2>1, Zenon
  <1>2. /\ m <= n /\ \A k \in 1 .. m : v[k] = w[k]
        /\ n <= p /\ \A k \in 1 .. n : z[k] = v[k]
        /\ z \in Seq(Bytes)
    BY <1>1, Zenon DEF Becomes
  <1>3. m <= p /\ \A k \in 1 .. m : k \in 1 .. n
    BY <1>2
  <1> QED
    BY <1>1, <1>2, <1>3, Zenon DEF Becomes

LEMMA EscapeAgrees ==
    ASSUME NEW w, NEW z, NEW l, NEW a \in Nat, a = l.start + 2, a > 0,
           NEW i \in Nat, i = l.escape + 1, i > 0,
           NEW q \in Nat, \A k \in 1 .. q - 1 : z[k] = w[k], EscapeTo(w, l, q)
    PROVE  EscapeTo(z, l, q)
  <1>1. Items(w, a, i) /\ Unfinished(w, i, q)
    BY Zenon DEF EscapeTo
  <1>2. \A k \in i .. q - 1 : k \in 1 .. q - 1
    OBVIOUS
  <1>3. Unfinished(z, i, q) /\ i < q
    BY <1>1, <1>2, UnfinishedAgree
  <1>4. \A k \in a .. i - 1 : k \in 1 .. q - 1
    BY <1>3
  <1>5. Items(z, a, i)
    BY <1>1, <1>4, ItemsAgree
  <1> QED
    BY <1>3, <1>5, Zenon DEF EscapeTo

LEMMA EscapeSoFarAgrees ==
    ASSUME NEW w, NEW z, NEW l, NEW a \in Nat, a = l.start + 2, a > 0,
           NEW e \in Nat, e = l.escape, l.pc \in Inside, l.digits \in Int \/ l.pc # "hex",
           NEW j \in Nat, \A k \in 1 .. j : z[k] = w[k], EscapeSoFar(w, l, j)
    PROVE  EscapeSoFar(z, l, j)
  <1>1. PICK i \in Nat, q \in Nat : i = e + 1 /\ q = j + 1 /\ i > 0
    <2>1. e + 1 \in Nat /\ j + 1 \in Nat /\ e + 1 > 0
      OBVIOUS
    <2> QED
      BY <2>1, Zenon
  <1>2. \A k \in 1 .. q - 1 : z[k] = w[k]
    BY <1>1
  <1>3. EscapeTo(w, l, q)
    BY <1>1, Zenon DEF EscapeSoFar
  <1>4. EscapeTo(z, l, q)
    BY <1>1, <1>2, <1>3, EscapeAgrees, Zenon
  <1>5. CASE l.pc = "escape"
    <2>1. j = l.escape + 1
      BY <1>5, Zenon DEF EscapeSoFar
    <2>2. l.pc # "unicode" /\ l.pc # "digits" /\ l.pc # "hex"
      BY <1>5
    <2> QED
      BY <1>1, <1>4, <2>1, <2>2, Zenon DEF EscapeSoFar
  <1>6. CASE l.pc = "unicode"
    <2>1. j = l.escape + 2 /\ w[l.escape + 2] = 117 /\ l.digits = 0 /\ l.val = 0
      BY <1>6, Zenon DEF EscapeSoFar
    <2>2. l.escape + 2 \in 1 .. j
      BY <2>1
    <2>3. l.pc # "escape" /\ l.pc # "digits" /\ l.pc # "hex"
      BY <1>6
    <2> QED
      BY <1>1, <1>4, <2>1, <2>2, <2>3, Zenon DEF EscapeSoFar
  <1>7. CASE l.pc = "digits"
    <2>1. /\ l.escape + 3 <= j /\ w[l.escape + 2] = 117 /\ w[l.escape + 3] = LeftCurly
          /\ l.digits = (j - (l.escape + 3)) % DigitsMod
          /\ l.val = HexNumber(SubSeq(w, l.escape + 4, j))
      BY <1>7, Zenon DEF EscapeSoFar
    <2>2. l.escape + 2 \in 1 .. j /\ l.escape + 3 \in 1 .. j
      BY <2>1
    <2>3. SubSeq(z, l.escape + 4, j) = SubSeq(w, l.escape + 4, j)
      <3>1. PICK b \in Int : b = e + 4
        OBVIOUS
      <3>2. \A k \in b .. j : z[k + 0] = w[k] /\ k + 0 = k
        <4>1. \A k \in b .. j : k \in 1 .. j /\ k + 0 = k
          BY <3>1
        <4> QED
          BY <4>1
      <3>3. b + 0 = b /\ j + 0 = j
        BY <3>1
      <3>4. 0 \in Int /\ j \in Int
        OBVIOUS
      <3>5. SubSeq(z, b + 0, j + 0) = SubSeq(w, b, j)
        BY <3>2, <3>4, ShiftedSubSeq
      <3> QED
        BY <3>1, <3>3, <3>5
    <2>4. l.pc # "escape" /\ l.pc # "unicode" /\ l.pc # "hex"
      BY <1>7
    <2> QED
      BY <1>1, <1>4, <2>1, <2>2, <2>3, <2>4, Zenon DEF EscapeSoFar
  <1>8. CASE l.pc = "hex"
    <2>1. l.digits \in {0, 1} /\ w[l.escape + 2] = 120 /\ j = l.escape + 2 + l.digits
      BY <1>8, Zenon DEF EscapeSoFar
    <2>2. l.escape + 2 \in 1 .. j
      BY <2>1
    <2>3. l.pc # "escape" /\ l.pc # "unicode" /\ l.pc # "digits"
      BY <1>8
    <2> QED
      BY <1>1, <1>4, <2>1, <2>2, <2>3, Zenon DEF EscapeSoFar
  <1> QED
    BY <1>5, <1>6, <1>7, <1>8 DEF Inside

LEMMA StringSoFarAgrees ==
    ASSUME NEW w, NEW z, NEW l, NEW s \in Nat, s = l.start,
           NEW e \in Nat, e = l.escape, NEW b \in Nat, b = l.bad,
           NEW j \in Nat, s < j, l.pc = "skip" => b <= j,
           \A k \in 1 .. j : z[k] = w[k],
           IsString(l), StringSoFar(w, l, j)
    PROVE  StringSoFar(z, l, j)
  <1>1. PICK a \in Nat, c \in Nat, q \in Nat, i \in Nat :
          a = s + 2 /\ a > 0 /\ c = b + 1 /\ q = j + 1 /\ i = e + 1 /\ i > 0 /\ q > 0
    <2>1. s + 2 \in Nat /\ b + 1 \in Nat /\ j + 1 \in Nat /\ e + 1 \in Nat /\ s + 2 > 0
          /\ e + 1 > 0 /\ j + 1 > 0
      OBVIOUS
    <2> QED
      BY <2>1, Zenon
  <1>2. CASE l.pc = "string"
    <2>1. Items(w, a, q)
      BY <1>1, <1>2, Zenon DEF StringSoFar
    <2>2. \A k \in a .. q - 1 : k \in 1 .. j
      BY <1>1
    <2>3. Items(z, a, q)
      BY <2>1, <2>2, ItemsAgree
    <2> QED
      BY <1>1, <1>2, <2>3, SMT DEF StringSoFar, Inside
  <1>3. CASE l.pc = "suffix"
    <2>1. Literal(w, s + 1, j)
      BY <1>3, Zenon DEF StringSoFar
    <2>2. (s + 1) + 1 = a /\ s + 1 \in 1 .. j /\ j \in 1 .. j
      BY <1>1
    <2>3. Items(w, a, j) /\ w[s + 1] = DoubleQuote /\ w[j] = DoubleQuote /\ s + 1 < j
      BY <2>1, <2>2, Zenon DEF Literal
    <2>4. \A k \in a .. j - 1 : k \in 1 .. j
      BY <1>1
    <2>5. Items(z, a, j)
      BY <2>3, <2>4, ItemsAgree
    <2>6. Literal(z, s + 1, j)
      BY <2>2, <2>3, <2>5, Zenon DEF Literal
    <2> QED
      BY <1>3, <2>6, SMT DEF StringSoFar, Inside
  <1>4. CASE l.pc \in Inside
    <2>1. EscapeSoFar(w, l, j)
      BY <1>4, Zenon DEF StringSoFar
    <2>2. l.digits \in Int \/ l.pc # "hex"
      <3>1. l.pc = "hex" => l.digits \in {0, 1}
        BY <2>1, Zenon DEF EscapeSoFar
      <3> QED
        BY <3>1
    <2>3. a = l.start + 2
      BY <1>1
    <2>4. EscapeSoFar(z, l, j)
      BY <1>1, <1>4, <2>1, <2>2, <2>3, EscapeSoFarAgrees, Zenon
    <2>5. l.pc \notin {"string", "suffix", "skip"}
      BY <1>4 DEF Inside
    <2> QED
      BY <2>4, <2>5, Zenon DEF StringSoFar
  <1>5. CASE l.pc = "skip" /\ l.resume # "escape"
    <2>1. Items(w, a, c)
      BY <1>1, <1>5, Zenon DEF StringSoFar
    <2>2. \A k \in a .. c - 1 : k \in 1 .. j
      BY <1>1, <1>5
    <2>3. Items(z, a, c)
      BY <2>1, <2>2, ItemsAgree
    <2> QED
      BY <1>1, <1>5, <2>3, SMT DEF StringSoFar, Inside
  <1>6. CASE l.pc = "skip" /\ l.resume = "escape"
    <2>1. EscapeTo(w, l, c)
      BY <1>1, <1>6, Zenon DEF StringSoFar
    <2>2. \A k \in 1 .. c - 1 : k \in 1 .. j
      BY <1>1, <1>6
    <2>3. a = l.start + 2 /\ i = l.escape + 1
      BY <1>1
    <2>4. \A k \in 1 .. c - 1 : z[k] = w[k]
      BY <2>2
    <2>5. EscapeTo(z, l, c)
      BY <1>1, <2>1, <2>3, <2>4, EscapeAgrees, Zenon
    <2> QED
      BY <1>1, <1>6, <2>5, SMT DEF StringSoFar, Inside
  <1> QED
    BY <1>2, <1>3, <1>4, <1>5, <1>6 DEF IsString, InString

LEMMA GetInputFlaws ==
    ASSUME IInv, TextInv, FlawInv, GetInput
    PROVE  FlawInv'
  <1>1. /\ Reading /\ open /\ index' = index /\ lex' = lex /\ context' = context
    BY DEF GetInput, Starved
  <1>2. PICK w, z, l, more :
          /\ w = input /\ z = input' /\ l = lex /\ l = lex' /\ more = open'
    BY <1>1
  <1>3. /\ w \in Seq(Bytes) /\ Becomes(w, TRUE, z) /\ z \in Seq(Bytes)
        /\ Len(w) \in Nat /\ \A k \in 1 .. Len(w) : z[k] = w[k]
    BY <1>2, InputGrows DEF IInv, BufferInv, Becomes
  <1>4. \A v : Becomes(z, more, v) => Becomes(w, open, v)
    <2>1. \A v : Becomes(z, more, v) => Becomes(w, TRUE, v)
      BY <1>3, BecomesLater
    <2> QED
      BY <1>1, <2>1, Zenon DEF Becomes
  <1>5. PICK j \in Nat : j = index /\ j <= Len(w)
    BY <1>2, PositionFacts
  <1>6. \A k \in 1 .. j : z[k] = w[k]
    <2>1. \A k \in 1 .. j : k \in 1 .. Len(w)
      BY <1>3, <1>5
    <2> QED
      BY <1>3, <2>1
  <1>7. PICK s \in Nat, e \in Nat, b \in Nat : s = l.start /\ e = l.escape /\ b = l.bad
    BY <1>2, Zenon DEF IInv, LexInv, LexShape
  <1>8. /\ l.pc \in Consumed => s < j
        /\ l.pc = "skip" => /\ l.resume \in Resumed
                            /\ b <= j
                            /\ l.resume = "symbol" => s <= b
                            /\ l.resume \in {"atom", "string", "suffix", "escape"} => s < j
    BY <1>2, <1>5, <1>7, Zenon DEF IInv, LexInv
  <1>9. PICK n : n = Len(context) /\ n = Len(context')
    BY <1>1
  <1>10. StringInv'
    <2>1. SUFFICES ASSUME IsString(l)
                   PROVE  StringOK(z, more, l, j, n)
      BY <1>1, <1>2, <1>5, <1>9, Zenon DEF StringInv
    <2>2. StringOK(w, open, l, j, n)
      BY <1>2, <1>5, <1>9, <2>1, Zenon DEF FlawInv, StringInv
    <2>3. s < j
      <3>1. l.pc \in Consumed \/ (l.pc = "skip" /\ l.resume \in {"string", "suffix", "escape"})
        BY <1>8, <2>1 DEF IsString, InString, Consumed, Resumed, Inside
      <3> QED
        BY <1>8, <3>1
    <2>4. z[l.start + 1] = DoubleQuote
      <3>1. s + 1 \in 1 .. j
        BY <2>3
      <3>2. w[l.start + 1] = DoubleQuote
        BY <2>2, Zenon DEF StringOK
      <3> QED
        BY <1>6, <1>7, <3>1, <3>2
    <2>5. StringSoFar(w, l, j) => StringSoFar(z, l, j)
      BY <1>6, <1>7, <1>8, <2>1, <2>3, StringSoFarAgrees
    <2>6. NoLiteral(w, open, l.start + 1) => NoLiteral(z, more, l.start + 1)
      BY <1>4, Zenon DEF NoLiteral
    <2> QED
      BY <2>2, <2>4, <2>5, <2>6, Zenon DEF StringOK
  <1>11. SymbolInv'
    <2>1. SUFFICES ASSUME IsSymbol(l)
                   PROVE  SymbolOK(z, more, l, j, n)
      BY <1>1, <1>2, <1>5, <1>9, Zenon DEF SymbolInv
    <2>2. SymbolOK(w, open, l, j, n)
      BY <1>2, <1>5, <1>9, <2>1, Zenon DEF FlawInv, SymbolInv
    <2>3. SymbolSoFar(w, l, j) => SymbolSoFar(z, l, j)
      <3>1. PICK c \in Nat : c = (IF l.pc = "skip" THEN l.bad ELSE j) /\ c <= j
        BY <1>7, <1>8
      <3>2. PICK a \in Nat : a = s + 1 /\ a = l.start + 1
        BY <1>7
      <3>3. \A k \in a .. c : k \in 1 .. j
        BY <3>1, <3>2
      <3>4. \A k \in a .. c : z[k] = w[k]
        BY <1>6, <3>3
      <3>5. Valid(w, a, c) => Valid(z, a, c)
        BY <3>4, ValidAgrees
      <3> QED
        BY <3>1, <3>2, <3>5, Zenon DEF SymbolSoFar
    <2>4. NoSymbol(w, open, l.start + 1, j) => NoSymbol(z, more, l.start + 1, j)
      BY <1>4, Zenon DEF NoSymbol
    <2> QED
      BY <2>2, <2>3, <2>4, Zenon DEF SymbolOK
  <1>12. FlagInv'
    BY <1>1, <1>2, Zenon DEF FlagInv, Reading
  <1> QED
    BY <1>10, <1>11, <1>12 DEF FlawInv

-----------------------------------------------------------------------------
(***************************************************************************)
(* The steps between tokens, and those of the parser.                      *)
(***************************************************************************)
LEMMA ExitFlaws ==
    ASSUME IInv, Reading, lex' = [lex EXCEPT !.pc = "exit"]
    PROVE  FlawInv'
  <1>1. lex'.pc = "exit"
    BY DEF IInv, LexInv, LexShape, IsLex
  <1> QED
    BY <1>1, NoFlaws, Zenon

LEMMA RestartFlaws ==
    ASSUME IInv, Stay([Peeked EXCEPT !.pc = "start"])
    PROVE  FlawInv'
  <1>1. PICK l : l = Peeked /\ IsLex(l)
    BY PeekedFacts DEF IInv, LexInv, LexShape
  <1>2. lex' = [l EXCEPT !.pc = "start"]
    BY <1>1, Zenon DEF Stay
  <1>3. lex'.pc = "start"
    BY <1>1, <1>2 DEF IsLex
  <1> QED
    BY <1>3, NoFlaws, Zenon

LEMMA SkipBlankFlaws ==
    ASSUME IInv, TextInv, FlawInv, SkipBlank
    PROVE  FlawInv'
  <1>1. CASE Take(lex)
    <2>1. lex'.pc = "blank"
      BY <1>1 DEF Take, SkipBlank, At
    <2> QED
      BY <2>1, NoFlaws, Zenon
  <1>2. CASE Stay([Peeked EXCEPT !.pc = "start"])
    BY <1>2, RestartFlaws
  <1> QED
    BY <1>1, <1>2, Zenon DEF SkipBlank

LEMMA SkipCommentFlaws ==
    ASSUME IInv, TextInv, FlawInv, SkipComment
    PROVE  FlawInv'
  <1>1. CASE Take(lex)
    <2>1. lex'.pc = "comment"
      BY <1>1 DEF Take, SkipComment, At
    <2> QED
      BY <2>1, NoFlaws, Zenon
  <1>2. CASE Stay([Peeked EXCEPT !.pc = "start"])
    BY <1>2, RestartFlaws
  <1>3. CASE SkipThen("comment", Peeked)
    <2>1. PICK l : l = Peeked /\ IsLex(l)
      BY PeekedFacts DEF IInv, LexInv, LexShape
    <2>2. lex' = [l EXCEPT !.pc = "skip", !.bad = index, !.resume = "comment"]
      BY <1>3, <2>1, Zenon DEF SkipThen, Stay
    <2>3. lex'.pc = "skip" /\ lex'.resume = "comment"
      BY <2>1, <2>2 DEF IsLex
    <2> QED
      BY <2>3, NoFlaws, Zenon
  <1> QED
    BY <1>1, <1>2, <1>3, Zenon DEF SkipComment

LEMMA LexerStepFlaws ==
    ASSUME IInv, TextInv, FlawInv, LexerStep
    PROVE  FlawInv'
  <1>1. GrowFails \/ AssertionFails => FlawInv'
    BY ExitFlaws DEF GrowFails, AssertionFails, Starved, Reading
  <1> QED
    BY <1>1, GetInputFlaws, SkipInvalidFlaws, BeginFlaws, SkipBlankFlaws, SkipCommentFlaws,
       LexSymbolFlaws, LexAtomFlaws, LexStringFlaws, LexSuffixFlaws, LexEscapeFlaws,
       LexUnicodeFlaws, LexDigitsFlaws, LexHexFlaws, Zenon DEF LexerStep

\* The parser takes a step of its own while the lexer is idle, calls it or stores what
\* it has returned.
LEMMA ParserStepFlaws ==
    ASSUME IInv, ParserStep
    PROVE  FlawInv'
  <1>1. CASE PeekToken
    <2>1. lex'.pc = "start"
      BY <1>1 DEF PeekToken, Idle
    <2> QED
      BY <2>1, NoFlaws, Zenon
  <1>2. CASE StorePeeked
    <2>1. lex'.pc = "idle"
      BY <1>2 DEF StorePeeked, Idle
    <2> QED
      BY <2>1, NoFlaws, Zenon
  <1>3. CASE lex' = lex /\ (has_peeked \/ at \notin Peeks)
    <2>1. lex'.pc = "idle"
      BY <1>3, ParserFacts
    <2> QED
      BY <2>1, NoFlaws, Zenon
  <1>4. PeekToken \/ StorePeeked \/ lex' = lex
    BY DEF ParserStep, NextSexpr, SkipRightParen, ParseForm, FinishForm, FinishInput,
       ParseSExpr, ParseAtom, OpenList, UnterminatedList, NextElement, AppendElement,
       CloseList, OpenQuote, QuoteOperand, CloseQuote, lexer
  <1>5. PeekToken \/ StorePeeked \/ has_peeked \/ at \notin Peeks
    BY DEF ParserStep, NextSexpr, SkipRightParen, ParseForm, FinishForm, FinishInput,
       ParseSExpr, ParseAtom, OpenList, UnterminatedList, NextElement, AppendElement,
       CloseList, OpenQuote, QuoteOperand, CloseQuote, TakeToken, Peeks
  <1> QED
    BY <1>1, <1>2, <1>3, <1>4, <1>5, Zenon

-----------------------------------------------------------------------------
(***************************************************************************)
(* FlawInv is inductive, with IInv and TextInv.                            *)
(***************************************************************************)
LEMMA InitFlaws ==
    ASSUME Init
    PROVE  FlawInv
  <1>1. lex.pc = "idle"
    BY DEF Init, LexerInit, Idle
  <1>2. ~IsString(lex) /\ ~IsSymbol(lex)
    BY <1>1 DEF IsString, IsSymbol, InString, Inside
  <1> QED
    BY <1>1, <1>2, Zenon DEF FlawInv, StringInv, SymbolInv, FlagInv

LEMMA StutterFlaws ==
    ASSUME FlawInv, UNCHANGED reader
    PROVE  FlawInv'
  <1>1. /\ input' = input /\ open' = open /\ index' = index /\ lex' = lex /\ token' = token
        /\ context' = context
    BY DEF reader, lexer, buffer
  <1>2. PICK n : n = Len(context) /\ n = Len(context')
    BY <1>1
  <1>3. StringInv' /\ SymbolInv'
    BY <1>1, Zenon DEF FlawInv, StringInv, SymbolInv
  <1>4. Delimited' <=> Delimited
    BY <1>1 DEF Delimited, AtTheEnd, Byte
  <1>5. PICK t : t = token /\ t = token'
    BY <1>1
  <1>6. Deserved(t)' <=> Deserved(t)
    BY <1>1, <1>4, Zenon DEF Deserved
  <1>7. FlagInv'
    BY <1>1, <1>4, <1>5, <1>6, Zenon DEF FlawInv, FlagInv, Deserved
  <1> QED
    BY <1>3, <1>7 DEF FlawInv

LEMMA StepFlaws ==
    ASSUME IInv, TextInv, FlawInv, [Next]_reader
    PROVE  FlawInv'
  BY LexerStepFlaws, ParserStepFlaws, StutterFlaws, Zenon DEF Next, Step, Stopped

\* What the error of a token says of its bytes is right for every text.
THEOREM FlawsHold == Spec => [](IInv /\ TextInv /\ FlawInv)
  <1>1. Init => IInv /\ TextInv /\ FlawInv
    BY InitEstablishes, InitText, InitFlaws
  <1>2. IInv /\ TextInv /\ FlawInv /\ [Next]_reader => IInv' /\ TextInv' /\ FlawInv'
    BY StepKeeps, StepText, StepFlaws
  <1> QED
    BY <1>1, <1>2, PTL DEF Spec

-----------------------------------------------------------------------------
(***************************************************************************)
(* What it says of the errors of tokens.  z are the bytes of the input and *)
(* s those of a token that begins after the a-th of them; n is its length. *)
(***************************************************************************)
TextOf(s, n) == HasLength(s, n) /\ DOMAIN s = 1 .. n /\ \A k \in 1 .. n : s[k] \in 0 .. 255

LEMMA SpanFacts ==
    ASSUME NEW s, NEW n \in Nat, TextOf(s, n), NEW i, NEW j
    PROVE  <<i, j>> \in Spans(s) <=> i \in 1 .. n /\ j \in 2 .. n + 1 /\ i < j
  <1>1. Spans(s) = {p \in (1 .. n) \X (2 .. n + 1) : p[1] < p[2]}
    BY Zenon DEF Spans, TextOf, HasLength
  <1> QED
    BY <1>1

LEMMA PairFacts ==
    ASSUME NEW i, NEW j
    PROVE  <<i, j>>[1] = i /\ <<i, j>>[2] = j
  OBVIOUS

LEMMA CharactersFacts ==
    ASSUME NEW s, NEW i, NEW j
    PROVE  <<i, j>> \in Characters(s) <=> <<i, j>> \in Spans(s) /\ Utf8(s, i, j)
  BY PairFacts, Zenon DEF Characters

LEMMA PiecesFacts ==
    ASSUME NEW s, NEW i, NEW j
    PROVE  <<i, j>> \in Pieces(s) <=>
             /\ <<i, j>> \in Spans(s)
             /\ \/ Utf8(s, i, j) /\ s[i] \notin {DoubleQuote, Backslash}
                \/ Documented(s, i, j)
  BY PairFacts, Zenon DEF Pieces

LEMMA ToleratedFacts ==
    ASSUME NEW s, NEW i, NEW j
    PROVE  <<i, j>> \in Tolerated(s) <=>
             /\ <<i, j>> \in Spans(s)
             /\ \/ j = i + 2 /\ s[i] \in {192, 193} /\ s[i + 1] \in 128 .. 191
                \/ Bracketed(s, i, j) /\ (Digits(i, j) = 0 \/ Digits(i, j) >= DigitsMod)
  BY PairFacts, Zenon DEF Tolerated

LEMMA UnsupportedFacts ==
    ASSUME NEW s, NEW i, NEW j
    PROVE  <<i, j>> \in Unsupported(s) <=>
             /\ <<i, j>> \in Spans(s)
             /\ \/ Utf8(s, i, j) /\ s[i] >= 224
                \/ /\ Bracketed(s, i, j) /\ Digits(i, j) \in 1 .. 6
                   /\ Number16(s, i, j) > LastAccepted
  BY PairFacts, Zenon DEF Unsupported

-----------------------------------------------------------------------------
\* A character of the lexer is one of UTF-8, or an overlong one.
LEMMA Utf8OfOne ==
    ASSUME NEW s, NEW i \in Nat, s[i] \in 0 .. 127
    PROVE  Utf8(s, i, i + 1)
  BY DEF Utf8

LEMMA Utf8OfTwo ==
    ASSUME NEW s, NEW i \in Nat, Lead(s[i]), Trail(s[i + 1])
    PROVE  \/ Utf8(s, i, i + 2)
           \/ s[i] \in {192, 193} /\ s[i + 1] \in 128 .. 191
  BY DEF Utf8, Lead, Trail

\* A character of UTF-8 is one of the lexer, or has more than two bytes.
LEMMA Utf8Facts ==
    ASSUME NEW s, NEW i \in Nat, NEW j \in Nat, Utf8(s, i, j), ~(s[i] >= 224)
    PROVE  \/ j = i + 1 /\ s[i] < 128
           \/ j = i + 2 /\ Lead(s[i]) /\ Trail(s[i + 1])
  <1>1. \/ j = i + 1 /\ s[i] \in 0 .. 127
        \/ j = i + 2 /\ s[i] \in 194 .. 223
    BY DEF Utf8
  <1>2. CASE j = i + 2 /\ s[i] \in 194 .. 223
    <2>1. i + 1 \in i + 1 .. j - 1
      BY <1>2
    <2>2. s[i + 1] \in 128 .. 191
      BY <2>1 DEF Utf8
    <2> QED
      BY <1>2, <2>2 DEF Lead, Trail
  <1> QED
    BY <1>1, <1>2

LEMMA CodepointsFacts ==
    ASSUME NEW v \in Nat
    PROVE  /\ v \in Codepoints => v <= LastCodepoint /\ ~IsSurrogate(v)
           /\ ~(v > LastAccepted) /\ ~IsSurrogate(v) => v \in Codepoints
  <1>1. PICK a \in Nat, b \in Nat, c \in Nat, d \in Nat :
          a = 55295 /\ b = 57343 /\ c = 69631 /\ d = 1114111
    OBVIOUS
  <1>2. a + 1 = 55296 /\ b + 1 = 57344 /\ a < b /\ b < c /\ c < d
    BY <1>1
  <1>3. Codepoints = (0 .. a) \cup (b + 1 .. c)
    BY <1>1, <1>2 DEF Codepoints
  <1>4. IsSurrogate(v) <=> v \in a + 1 .. b
    BY <1>1, <1>2 DEF IsSurrogate
  <1>5. LastAccepted = c /\ LastCodepoint = d
    BY <1>1 DEF LastAccepted, LastCodepoint
  <1>6. /\ v \in (0 .. a) \cup (b + 1 .. c) => v <= d /\ ~(v \in a + 1 .. b)
        /\ ~(v > c) /\ ~(v \in a + 1 .. b) => v \in (0 .. a) \cup (b + 1 .. c)
    <2> HIDE <1>1
    <2> QED
      BY <1>2
  <1> QED
    BY <1>3, <1>4, <1>5, <1>6, Zenon

LEMMA CodepointsAreNumbers ==
    ASSUME NEW v \in Codepoints
    PROVE  v \in Nat
  BY SMTT(60) DEF Codepoints

\* What ProperUnicode says in these terms.
LEMMA BracketedFacts ==
    ASSUME NEW s, NEW i \in Nat, NEW j \in Nat, i + 4 <= j
    PROVE  ProperUnicode(s, i, j - 1)
           <=> /\ s[i + 2] = LeftCurly
               /\ \A k \in i + 3 .. j - 2 : IsHexDigit(s[k])
               /\ Digits(i, j) % DigitsMod <= 6
               /\ Number16(s, i, j) \in Codepoints
  <1>1. PICK m \in Nat : m = j - 1 /\ i + 3 <= m /\ m - 1 = j - 2 /\ m - (i + 3) = j - (i + 4)
    <2>1. j - 1 \in Nat /\ i + 3 <= j - 1 /\ j - 1 - 1 = j - 2
          /\ j - 1 - (i + 3) = j - (i + 4)
      OBVIOUS
    <2> QED
      BY <2>1
  <1>2. ProperUnicode(s, i, m)
        <=> /\ s[i + 2] = LeftCurly
            /\ \A k \in i + 3 .. m - 1 : IsHexDigit(s[k])
            /\ (m - (i + 3)) % DigitsMod <= 6
            /\ HexNumber(SubSeq(s, i + 3, m - 1)) \in Codepoints
    BY <1>1, UnicodeFacts
  <1> QED
    BY <1>1, <1>2, Zenon DEF Digits, Number16

LEMMA FewDigits ==
    ASSUME NEW d \in 0 .. 6
    PROVE  d % DigitsMod <= 6 /\ d < DigitsMod
  <1>1. DigitsMod \in Nat /\ DigitsMod > 6
    BY LexerAssumption
  <1> QED
    BY <1>1

LEMMA ManyDigits ==
    ASSUME NEW d \in Nat, d % DigitsMod <= 6, d > 6
    PROVE  d >= DigitsMod
  <1>1. DigitsMod \in Nat /\ DigitsMod > 6
    BY LexerAssumption
  <1>2. ASSUME d < DigitsMod PROVE d % DigitsMod = d
    BY <1>1, <1>2
  <1> QED
    BY <1>1, <1>2

\* What the lexer accepts in a string is documented or tolerated.
LEMMA ItemIsPiece ==
    ASSUME NEW s, NEW n \in Nat, TextOf(s, n), NEW i \in 1 .. n, NEW j \in 2 .. n + 1,
           Item(s, i, j)
    PROVE  <<i, j>> \in (Pieces(s) \cup Tolerated(s)) \ {}
  <1>1. i \in Nat /\ j \in Nat /\ i < j
    BY ItemFacts
  <1>2. <<i, j>> \in Spans(s)
    BY <1>1, SpanFacts
  <1>3. s[i] \in 0 .. 255
    BY DEF TextOf
  <1>4. CASE j = i + 1 /\ s[i] < 128 /\ s[i] \notin {DoubleQuote, Backslash}
    <2>1. Utf8(s, i, j)
      BY <1>1, <1>3, <1>4, Utf8OfOne
    <2> QED
      BY <1>2, <1>4, <2>1, PiecesFacts, Zenon
  <1>5. CASE j = i + 2 /\ Lead(s[i]) /\ Trail(s[i + 1])
    <2>1. \/ Utf8(s, i, j)
          \/ s[i] \in {192, 193} /\ s[i + 1] \in 128 .. 191
      BY <1>1, <1>5, Utf8OfTwo
    <2>2. s[i] \notin {DoubleQuote, Backslash}
      BY <1>5 DEF Lead, DoubleQuote, Backslash
    <2> QED
      BY <1>2, <1>5, <2>1, <2>2, PiecesFacts, ToleratedFacts, Zenon
  <1>6. CASE /\ s[i] = Backslash
             /\ \/ j = i + 2 /\ s[i + 1] \in Simple
                \/ /\ j = i + 4 /\ s[i + 1] = 120
                   /\ IsHexDigit(s[i + 2]) /\ IsHexDigit(s[i + 3])
    BY <1>2, <1>6, PiecesFacts, Zenon DEF Documented
  <1>7. CASE /\ s[i] = Backslash /\ i + 4 <= j /\ s[i + 1] = 117
             /\ s[j - 1] = RightCurly /\ ProperUnicode(s, i, j - 1)
    <2>1. /\ s[i + 2] = LeftCurly
          /\ \A k \in i + 3 .. j - 2 : IsHexDigit(s[k])
          /\ Digits(i, j) % DigitsMod <= 6
          /\ Number16(s, i, j) \in Codepoints
      BY <1>1, <1>7, BracketedFacts, Zenon
    <2>2. Bracketed(s, i, j)
      BY <1>7, <2>1, Zenon DEF Bracketed
    <2>3. Digits(i, j) \in Nat
      BY <1>1, <1>7 DEF Digits
    <2>4. Digits(i, j) = 0 \/ Digits(i, j) \in 1 .. 6 \/ Digits(i, j) >= DigitsMod
      <3>1. PICK d \in Nat : d = Digits(i, j)
        BY <2>3
      <3>2. d > 6 => d >= DigitsMod
        BY <2>1, <3>1, ManyDigits
      <3>3. d = 0 \/ d \in 1 .. 6 \/ d > 6
        OBVIOUS
      <3> QED
        BY <3>1, <3>2, <3>3, Zenon
    <2>5. Number16(s, i, j) <= LastCodepoint /\ ~IsSurrogate(Number16(s, i, j))
      BY <2>1, CodepointsFacts, CodepointsAreNumbers, Zenon
    <2>6. Digits(i, j) \in 1 .. 6 => Documented(s, i, j)
      BY <2>2, <2>5, Zenon DEF Documented
    <2> QED
      BY <1>2, <2>2, <2>4, <2>6, PiecesFacts, ToleratedFacts, Zenon
  <1> QED
    BY <1>4, <1>5, <1>6, <1>7, Zenon DEF Item, Character, Escaping

\* What is documented and supported is accepted.
LEMMA PieceIsItem ==
    ASSUME NEW s, NEW n \in Nat, TextOf(s, n), NEW i \in 1 .. n, NEW j \in 1 .. n + 1,
           <<i, j>> \in (Pieces(s) \cup {}) \ Unsupported(s)
    PROVE  Item(s, i, j)
  <1>1. i \in Nat /\ j \in Nat
    OBVIOUS
  <1>2. <<i, j>> \in Pieces(s) /\ <<i, j>> \notin Unsupported(s)
    BY Zenon
  <1>3. <<i, j>> \in Spans(s)
    BY <1>2, PiecesFacts, Zenon
  <1>4. ~(Utf8(s, i, j) /\ s[i] >= 224)
    BY <1>2, <1>3, UnsupportedFacts, Zenon
  <1>5. CASE Utf8(s, i, j) /\ s[i] \notin {DoubleQuote, Backslash}
    <2>1. \/ j = i + 1 /\ s[i] < 128
          \/ j = i + 2 /\ Lead(s[i]) /\ Trail(s[i + 1])
      BY <1>1, <1>4, <1>5, Utf8Facts, Zenon
    <2> QED
      BY <1>5, <2>1, Zenon DEF Item, Character
  <1>6. CASE \/ j = i + 2 /\ s[i] = Backslash /\ s[i + 1] \in Simple
             \/ /\ j = i + 4 /\ s[i] = Backslash /\ s[i + 1] = 120
                /\ IsHexDigit(s[i + 2]) /\ IsHexDigit(s[i + 3])
    <2>1. i + 2 <= j
      BY <1>1, <1>6
    <2> QED
      BY <1>6, <2>1, Zenon DEF Item, Escaping
  <1>7. CASE /\ Bracketed(s, i, j) /\ Digits(i, j) \in 1 .. 6
             /\ Number16(s, i, j) <= LastCodepoint /\ ~IsSurrogate(Number16(s, i, j))
    <2>1. /\ i + 4 <= j
          /\ s[i] = Backslash /\ s[i + 1] = 117 /\ s[i + 2] = LeftCurly
          /\ s[j - 1] = RightCurly
          /\ \A k \in i + 3 .. j - 2 : IsHexDigit(s[k])
      BY <1>7, Zenon DEF Bracketed
    <2>2. ~(Number16(s, i, j) > LastAccepted)
      BY <1>2, <1>3, <1>7, UnsupportedFacts, Zenon
    <2>3. Number16(s, i, j) \in Nat
      <3>1. PICK a \in Nat, b \in Nat : a = i + 3 /\ b = j - 2 /\ a <= b + 1
        <4>1. i + 3 \in Nat /\ j - 2 \in Nat /\ i + 3 <= (j - 2) + 1
          BY <1>1, <2>1
        <4> QED
          BY <4>1, Zenon
      <3>2. \A k \in a .. b : IsHexDigit(s[k])
        BY <2>1, <3>1
      <3>3. HexNumber(SubSeq(s, a, b)) \in Nat
        BY <3>1, <3>2, HexInText, Zenon
      <3> QED
        BY <3>1, <3>3, Zenon DEF Number16
    <2>4. Number16(s, i, j) \in Codepoints
      BY <1>7, <2>2, <2>3, CodepointsFacts, Zenon
    <2>5. Digits(i, j) % DigitsMod <= 6
      <3>1. PICK d \in 0 .. 6 : d = Digits(i, j)
        BY <1>7
      <3> QED
        BY <3>1, FewDigits, Zenon
    <2>6. ProperUnicode(s, i, j - 1)
      BY <1>1, <2>1, <2>4, <2>5, BracketedFacts, Zenon
    <2>7. i + 2 <= j
      BY <1>1, <2>1
    <2> QED
      BY <2>1, <2>6, <2>7, Zenon DEF Item, Escaping
  <1> QED
    BY <1>2, <1>5, <1>6, <1>7, PiecesFacts, Zenon DEF Documented

-----------------------------------------------------------------------------
\* A string literal that the lexer accepts is one of documented and tolerated pieces.
LEMMA ItemsAreQuoted ==
    ASSUME NEW s, NEW n \in Nat, TextOf(s, n), n > 1, s[1] = DoubleQuote,
           s[n] = DoubleQuote, Items(s, 2, n)
    PROVE  Quoted(s, (Pieces(s) \cup Tolerated(s)) \ {})
  <1>1. PICK P \in SUBSET (2 .. n) : /\ 2 \in P /\ n \in P
                                   /\ \A x \in P : x = n \/ \E y \in P : Item(s, x, y)
    BY Zenon DEF Items
  <1>2. ASSUME NEW x \in P, NEW y \in P, Item(s, x, y)
        PROVE  <<x, y>> \in (Pieces(s) \cup Tolerated(s)) \ {}
    <2>1. x \in 1 .. n /\ y \in 2 .. n + 1
      OBVIOUS
    <2> QED
      BY <1>2, <2>1, ItemIsPiece, Zenon
  <1>3. \A x \in P : x = n \/ \E y \in P : <<x, y>> \in (Pieces(s) \cup Tolerated(s)) \ {}
    BY <1>1, <1>2, Zenon
  <1>4. Len(s) = n
    BY Zenon DEF TextOf, HasLength
  <1> QED
    BY <1>1, <1>3, <1>4, Zenon DEF Quoted

\* One of documented and supported pieces is accepted.
LEMMA QuotedIsItems ==
    ASSUME NEW s, NEW n \in Nat, TextOf(s, n),
           Quoted(s, (Pieces(s) \cup {}) \ Unsupported(s))
    PROVE  n > 1 /\ s[n] = DoubleQuote /\ Items(s, 2, n)
  <1>1. n = Len(s)
    BY Zenon DEF TextOf, HasLength
  <1>2. n > 1 /\ s[n] = DoubleQuote
    BY <1>1, Zenon DEF Quoted
  <1>3. PICK P \in SUBSET (2 .. n) :
          /\ 2 \in P /\ n \in P
          /\ \A x \in P : x = n \/ \E y \in P : <<x, y>> \in (Pieces(s) \cup {}) \ Unsupported(s)
    BY <1>1, Zenon DEF Quoted
  <1>4. ASSUME NEW x \in P, NEW y \in P, <<x, y>> \in (Pieces(s) \cup {}) \ Unsupported(s)
        PROVE  Item(s, x, y)
    <2>1. x \in 1 .. n /\ y \in 1 .. n + 1
      OBVIOUS
    <2> QED
      BY <1>4, <2>1, PieceIsItem, Zenon
  <1>5. \A x \in P : x = n \/ \E y \in P : Item(s, x, y)
    BY <1>3, <1>4, Zenon
  <1> QED
    BY <1>2, <1>3, <1>5, Zenon DEF Items

\* The same for the characters of a symbol.
LEMMA ValidIsCovered ==
    ASSUME NEW s, NEW n \in Nat, TextOf(s, n), Valid(s, 1, n)
    PROVE  Covered(s, (Characters(s) \cup Tolerated(s)) \ {})
  <1>1. ASSUME NEW i \in 1 .. n, s[i] < 128
        PROVE  <<i, i + 1>> \in Characters(s)
    <2>1. i \in Nat /\ i + 1 \in 2 .. n + 1 /\ i < i + 1
      OBVIOUS
    <2>2. s[i] \in 0 .. 255
      BY Zenon DEF TextOf
    <2>3. s[i] \in 0 .. 127
      BY <1>1, <2>2
    <2>4. <<i, i + 1>> \in Spans(s)
      BY <2>1, SpanFacts
    <2> QED
      BY <2>1, <2>3, <2>4, CharactersFacts, Utf8OfOne, Zenon
  <1>2. ASSUME NEW i \in 1 .. n, i + 1 <= n, Lead(s[i]), Trail(s[i + 1])
        PROVE  <<i, i + 2>> \in Characters(s) \cup Tolerated(s)
    <2>1. i \in Nat /\ i + 2 \in 2 .. n + 1 /\ i < i + 2
      BY <1>2
    <2>2. <<i, i + 2>> \in Spans(s)
      BY <2>1, SpanFacts
    <2>3. \/ Utf8(s, i, i + 2)
          \/ s[i] \in {192, 193} /\ s[i + 1] \in 128 .. 191
      BY <1>2, <2>1, Utf8OfTwo
    <2> QED
      BY <2>2, <2>3, CharactersFacts, ToleratedFacts, Zenon
  <1>3. ASSUME NEW k \in 1 .. n
        PROVE  \E p \in (Characters(s) \cup Tolerated(s)) \ {} : k \in p[1] .. p[2] - 1
    <2>1. CASE s[k] < 128
      <3>1. <<k, k + 1>> \in (Characters(s) \cup Tolerated(s)) \ {}
        BY <1>1, <2>1, Zenon
      <3>2. k \in k .. (k + 1) - 1
        OBVIOUS
      <3> QED
        BY <3>1, <3>2, PairFacts, Zenon
    <2>2. CASE k + 1 <= n /\ Lead(s[k]) /\ Trail(s[k + 1])
      <3>1. <<k, k + 2>> \in (Characters(s) \cup Tolerated(s)) \ {}
        BY <1>2, <2>2, Zenon
      <3>2. k \in k .. (k + 2) - 1
        OBVIOUS
      <3> QED
        BY <3>1, <3>2, PairFacts, Zenon
    <2>3. CASE 1 <= k - 1 /\ Lead(s[k - 1]) /\ Trail(s[k])
      <3>1. PICK i \in 1 .. n : i = k - 1 /\ i + 1 = k /\ k \in i .. (i + 2) - 1 /\ i + 1 <= n
        <4>1. /\ k - 1 \in 1 .. n /\ (k - 1) + 1 = k
              /\ k \in k - 1 .. ((k - 1) + 2) - 1 /\ (k - 1) + 1 <= n
          BY <2>3
        <4> QED
          BY <4>1, Zenon
      <3>2. Lead(s[i]) /\ Trail(s[i + 1])
        BY <2>3, <3>1
      <3>3. <<i, i + 2>> \in (Characters(s) \cup Tolerated(s)) \ {}
        BY <1>2, <3>1, <3>2, Zenon
      <3> QED
        BY <3>1, <3>3, PairFacts, Zenon
    <2> QED
      BY <2>1, <2>2, <2>3, Zenon DEF Valid
  <1>4. DOMAIN s = 1 .. n
    BY Zenon DEF TextOf
  <1> QED
    BY <1>3, <1>4, Zenon DEF Covered

LEMMA CoveredIsValid ==
    ASSUME NEW s, NEW n \in Nat, TextOf(s, n),
           Covered(s, (Characters(s) \cup {}) \ Unsupported(s))
    PROVE  Valid(s, 1, n)
  <1>1. ASSUME NEW k \in 1 .. n
        PROVE  \/ s[k] < 128
               \/ k + 1 <= n /\ Lead(s[k]) /\ Trail(s[k + 1])
               \/ 1 <= k - 1 /\ Lead(s[k - 1]) /\ Trail(s[k])
    <2>1. k \in DOMAIN s
      BY DEF TextOf
    <2>2. PICK p \in (Characters(s) \cup {}) \ Unsupported(s) : k \in p[1] .. p[2] - 1
      BY <2>1, Zenon DEF Covered
    <2>3. p \in Characters(s) /\ p \notin Unsupported(s)
      BY <2>2, Zenon
    <2>4. p \in (1 .. n) \X (2 .. n + 1)
      <3>1. n = Len(s)
        BY Zenon DEF TextOf, HasLength
      <3> QED
        BY <2>3, <3>1, Zenon DEF Characters, Spans
    <2>5. PICK i \in 1 .. n, j \in 2 .. n + 1 : p = <<i, j>>
      BY <2>4
    <2>6. k \in i .. j - 1
      BY <2>2, <2>5
    <2>7. Utf8(s, i, j) /\ <<i, j>> \in Spans(s)
      BY <2>3, <2>5, CharactersFacts, Zenon
    <2>8. ~(s[i] >= 224)
      BY <2>3, <2>5, <2>7, UnsupportedFacts, Zenon
    <2>9. \/ j = i + 1 /\ s[i] < 128
          \/ j = i + 2 /\ Lead(s[i]) /\ Trail(s[i + 1])
      <3>1. i \in Nat /\ j \in Nat
        OBVIOUS
      <3> QED
        BY <2>7, <2>8, <3>1, Utf8Facts, Zenon
    <2>10. CASE j = i + 1 /\ s[i] < 128
      <3>1. k = i
        BY <2>6, <2>10
      <3> QED
        BY <2>10, <3>1
    <2>11. CASE j = i + 2 /\ Lead(s[i]) /\ Trail(s[i + 1])
      <3>1. k = i \/ k = i + 1
        BY <2>6, <2>11
      <3>2. CASE k = i
        <4>1. k + 1 <= n
          BY <2>5, <2>11, <3>2
        <4> QED
          BY <2>11, <3>2, <4>1
      <3>3. CASE k = i + 1
        <4>1. k - 1 = i /\ 1 <= k - 1
          BY <3>3
        <4> QED
          BY <2>11, <3>3, <4>1
      <3> QED
        BY <3>1, <3>2, <3>3
    <2> QED
      BY <2>9, <2>10, <2>11
  <1> QED
    BY <1>1, Zenon DEF Valid

-----------------------------------------------------------------------------
LEMMA ValidShift ==
    ASSUME NEW z, NEW w, NEW a \in Nat, NEW b \in Nat, NEW o \in Int,
           \A k \in a .. b : w[k + o] = z[k], Valid(z, a, b)
    PROVE  Valid(w, a + o, b + o)
  <1> SUFFICES ASSUME NEW i \in a + o .. b + o
               PROVE  \/ w[i] < 128
                      \/ i + 1 <= b + o /\ Lead(w[i]) /\ Trail(w[i + 1])
                      \/ a + o <= i - 1 /\ Lead(w[i - 1]) /\ Trail(w[i])
    BY DEF Valid
  <1>1. PICK k \in a .. b : i = k + o
    <2>1. i - o \in a .. b /\ i = (i - o) + o
      OBVIOUS
    <2> QED
      BY <2>1, Zenon
  <1>2. w[i] = z[k]
    BY <1>1
  <1>3. /\ k + 1 <= b => i + 1 <= b + o /\ w[i + 1] = z[k + 1]
        /\ a <= k - 1 => a + o <= i - 1 /\ w[i - 1] = z[k - 1]
    <2>1. ASSUME k + 1 <= b PROVE i + 1 <= b + o /\ w[i + 1] = z[k + 1]
      <3>1. k + 1 \in a .. b /\ i + 1 = (k + 1) + o /\ i + 1 <= b + o
        BY <1>1, <2>1
      <3> QED
        BY <3>1
    <2>2. ASSUME a <= k - 1 PROVE a + o <= i - 1 /\ w[i - 1] = z[k - 1]
      <3>1. k - 1 \in a .. b /\ i - 1 = (k - 1) + o /\ a + o <= i - 1
        BY <1>1, <2>2
      <3> QED
        BY <3>1
    <2> QED
      BY <2>1, <2>2, Zenon
  <1>4. \/ z[k] < 128
        \/ k + 1 <= b /\ Lead(z[k]) /\ Trail(z[k + 1])
        \/ a <= k - 1 /\ Lead(z[k - 1]) /\ Trail(z[k])
    BY Zenon DEF Valid
  <1> QED
    BY <1>2, <1>3, <1>4, Zenon

LEMMA ValidToken ==
    ASSUME NEW z, NEW s, NEW a \in Nat, NEW n \in Nat,
           \A k \in 1 .. n : s[k] = z[a + k]
    PROVE  Valid(s, 1, n) <=> Valid(z, a + 1, a + n)
  <1>1. PICK e \in Nat, f \in Nat, o \in Int :
          e = a + 1 /\ f = a + n /\ o = -a /\ e + o = 1 /\ f + o = n
    <2>1. a + 1 \in Nat /\ a + n \in Nat /\ -a \in Int /\ a + 1 + (-a) = 1 /\ a + n + (-a) = n
      OBVIOUS
    <2> QED
      BY <2>1
  <1>2. /\ \A k \in 1 .. n : z[k + a] = s[k]
        /\ \A k \in e .. f : s[k + o] = z[k]
    <2>1. \A k \in 1 .. n : k + a = a + k
      OBVIOUS
    <2>2. \A k \in e .. f : k + o \in 1 .. n /\ a + (k + o) = k
      BY <1>1
    <2> QED
      BY <2>1, <2>2
  <1>3. Valid(s, 1, n) => Valid(z, 1 + a, n + a)
    <2>1. 1 \in Nat /\ a \in Int
      OBVIOUS
    <2> QED
      BY <1>2, <2>1, ValidShift, Zenon
  <1>4. Valid(z, e, f) => Valid(s, e + o, f + o)
    BY <1>2, ValidShift
  <1>5. 1 + a = a + 1 /\ n + a = a + n
    OBVIOUS
  <1> QED
    BY <1>1, <1>3, <1>4, <1>5

LEMMA LiteralToken ==
    ASSUME NEW z, NEW s, NEW a \in Nat, NEW n \in Nat,
           \A k \in 1 .. n : s[k] = z[a + k],
           n >= 1, z[a + 1] = DoubleQuote
    PROVE  n > 1 /\ Items(s, 2, n) /\ s[n] = DoubleQuote <=> Literal(z, a + 1, a + n)
  <1>1. PICK e \in Nat, f \in Nat, o \in Int :
          e = a + 2 /\ f = a + n /\ o = -a /\ e + o = 2 /\ f + o = n /\ e + o \in Nat
    <2>1. a + 2 \in Nat /\ a + n \in Nat /\ -a \in Int
      OBVIOUS
    <2>2. a + 2 + (-a) = 2 /\ a + n + (-a) = n
      OBVIOUS
    <2> QED
      BY <2>1, <2>2
  <1>2. /\ \A k \in 2 .. n - 1 : z[k + a] = s[k]
        /\ \A k \in e .. f - 1 : s[k + o] = z[k]
    <2>1. \A k \in 2 .. n - 1 : k \in 1 .. n /\ k + a = a + k
      OBVIOUS
    <2>2. \A k \in e .. f - 1 : k + o \in 1 .. n /\ a + (k + o) = k
      BY <1>1
    <2> QED
      BY <2>1, <2>2
  <1>3. Items(s, 2, n) => Items(z, e, f)
    <2>1. Items(s, 2, n) => Items(z, 2 + a, n + a)
      BY <1>2, ItemsShift
    <2>2. 2 + a = e /\ n + a = f
      BY <1>1
    <2> QED
      BY <2>1, <2>2
  <1>4. Items(z, e, f) => Items(s, 2, n)
    <2>1. Items(z, e, f) => Items(s, e + o, f + o)
      BY <1>1, <1>2, ItemsShift
    <2> QED
      BY <1>1, <2>1
  <1>5. s[n] = z[f] /\ a + 1 + 1 = e /\ (n > 1 <=> a + 1 < f)
    BY <1>1
  <1> QED
    BY <1>1, <1>3, <1>4, <1>5, Zenon DEF Literal

\* The bytes of a token that is not the end.
LEMMA TokenStretch ==
    ASSUME IInv, token.type # "END"
    PROVE  \E a \in Nat, n \in Nat :
             /\ a = token.index /\ n = token.length /\ n >= 1
             /\ TextOf(TokenBytes(token), n)
             /\ \A k \in 1 .. n : TokenBytes(token)[k] = input[a + k]
  <1>1. PICK a \in Nat, n \in Nat :
          /\ a = token.index /\ n = token.length /\ n >= 1 /\ a + n <= Len(input)
          /\ DOMAIN TokenBytes(token) = 1 .. n
          /\ \A k \in 1 .. n : TokenBytes(token)[k] = Byte(a + k - 1)
    BY TokenBytesFacts
  <1>2. input \in Seq(Bytes)
    BY DEF IInv, BufferInv
  <1>3. HasLength(TokenBytes(token), n)
    <2>1. a + 1 \in 1 .. Len(input) + 1 /\ a + n \in a .. Len(input)
      BY <1>1, <1>2
    <2>2. Len(SubSeq(input, a + 1, a + n)) = n
      BY <1>2, <2>1, SubSeqProperties
    <2> QED
      BY <1>1, <2>2 DEF HasLength, TokenBytes
  <1>4. ASSUME NEW k \in 1 .. n
        PROVE  TokenBytes(token)[k] \in 0 .. 255 /\ TokenBytes(token)[k] = input[a + k]
    <2>1. a + k - 1 \in Nat /\ a + k - 1 < Len(input) /\ a + k - 1 + 1 = a + k
      BY <1>1, <1>2
    <2>2. PICK p \in Nat : p = a + k - 1 /\ p < Len(input) /\ p + 1 = a + k
      BY <2>1
    <2>3. Byte(p) \in 0 .. 255
      BY <2>2, ByteFacts
    <2>4. TokenBytes(token)[k] = Byte(p)
      BY <1>1, <2>2
    <2>5. Byte(p) = input[a + k]
      BY <2>2 DEF Byte
    <2> QED
      BY <2>3, <2>4, <2>5
  <1> QED
    BY <1>1, <1>3, <1>4, Zenon DEF TextOf

LEMMA TokenEnds ==
    ASSUME IInv, TextInv, lex.pc = "done"
    PROVE  EndsAtDelimiter(token) <=> Delimited
  <1>1. token.index + token.length = index
    BY Zenon DEF TextInv, GapInv
  <1> QED
    BY <1>1 DEF EndsAtDelimiter, Delimited, AtTheEnd

-----------------------------------------------------------------------------
\* A token without an error is well formed, but for what the lexer tolerates; one with
\* an error is not, but for what it does not support.
THEOREM FlagsAreRight == Spec => []FlawsAreFlagged
  <1>1. IInv /\ TextInv /\ FlawInv => FlawsAreFlagged
    <2> SUFFICES ASSUME IInv, TextInv, FlawInv, lex.pc = "done"
                 PROVE  /\ ~token.had_error =>
                             WellFormed(token, Tolerated(TokenBytes(token)), {})
                        /\ token.had_error =>
                             ~WellFormed(token, {}, Unsupported(TokenBytes(token)))
      BY DEF FlawsAreFlagged
    <2>1. token.had_error <=> Deserved(token)
      BY Zenon DEF FlawInv, FlagInv
    <2>2. PICK s : s = TokenBytes(token)
      OBVIOUS
    <2>3. CASE token.type \in {"SYMBOL", "NUMBER"}
      <3>1. PICK a \in Nat, n \in Nat :
              /\ a = token.index /\ n = token.length /\ n >= 1 /\ TextOf(s, n)
              /\ \A k \in 1 .. n : s[k] = input[a + k]
        BY <2>2, <2>3, TokenStretch
      <3>2. Valid(s, 1, n) <=> ~token.had_error
        <4>1. token.had_error <=> ~Valid(input, a + 1, a + n)
          BY <2>1, <2>3, <3>1 DEF Deserved
        <4>2. Valid(s, 1, n) <=> Valid(input, a + 1, a + n)
          BY <3>1, ValidToken, Zenon
        <4> QED
          BY <4>1, <4>2, Zenon
      <3>3. /\ ~token.had_error => Covered(s, (Characters(s) \cup Tolerated(s)) \ {})
            /\ token.had_error => ~Covered(s, (Characters(s) \cup {}) \ Unsupported(s))
        BY <3>1, <3>2, ValidIsCovered, CoveredIsValid, Zenon
      <3> QED
        BY <2>2, <2>3, <3>3 DEF WellFormed
    <2>4. CASE token.type = "STRING"
      <3>1. PICK a \in Nat, n \in Nat :
              /\ a = token.index /\ n = token.length /\ n >= 1 /\ TextOf(s, n)
              /\ \A k \in 1 .. n : s[k] = input[a + k]
        BY <2>2, <2>4, TokenStretch
      <3>2. input[a + 1] = DoubleQuote /\ s[1] = DoubleQuote
        <4>1. input[token.index + 1] = DoubleQuote
          BY <2>4, Zenon DEF FlawInv, FlagInv
        <4>2. 1 \in 1 .. n
          BY <3>1
        <4> QED
          BY <3>1, <4>1, <4>2
      <3>3. token.had_error <=> ~(/\ n > 1 /\ Items(s, 2, n) /\ s[n] = DoubleQuote
                                  /\ EndsAtDelimiter(token))
        <4>1. token.had_error <=> ~(Literal(input, a + 1, a + n) /\ Delimited)
          BY <2>1, <2>4, <3>1 DEF Deserved
        <4>2. n > 1 /\ Items(s, 2, n) /\ s[n] = DoubleQuote <=> Literal(input, a + 1, a + n)
          <5>1. PICK z : z = input
            OBVIOUS
          <5>2. /\ \A k \in 1 .. n : s[k] = z[a + k]
                /\ n >= 1 /\ z[a + 1] = DoubleQuote
            BY <3>1, <3>2, <5>1
          <5>3. n > 1 /\ Items(s, 2, n) /\ s[n] = DoubleQuote <=> Literal(z, a + 1, a + n)
            BY <5>2, LiteralToken
          <5> QED
            BY <5>1, <5>3, Zenon
        <4>3. EndsAtDelimiter(token) <=> Delimited
          BY TokenEnds, Zenon
        <4> QED
          BY <4>1, <4>2, <4>3, Zenon
      <3>4. ~token.had_error =>
              Quoted(s, (Pieces(s) \cup Tolerated(s)) \ {}) /\ EndsAtDelimiter(token)
        BY <3>1, <3>2, <3>3, ItemsAreQuoted, Zenon
      <3>5. token.had_error =>
              ~(Quoted(s, (Pieces(s) \cup {}) \ Unsupported(s)) /\ EndsAtDelimiter(token))
        BY <3>1, <3>3, QuotedIsItems, Zenon
      <3>6. token.type \notin {"SYMBOL", "NUMBER"}
        BY <2>4
      <3> QED
        BY <2>2, <2>4, <3>4, <3>5, <3>6, Zenon DEF WellFormed
    <2>5. CASE token.type \notin {"SYMBOL", "NUMBER", "STRING"}
      <3>1. ~token.had_error
        BY <2>1, <2>5 DEF Deserved
      <3>2. WellFormed(token, Tolerated(s), {})
        BY <2>5 DEF WellFormed
      <3> QED
        BY <2>2, <3>1, <3>2, Zenon
    <2> QED
      BY <2>3, <2>4, <2>5
  <1> QED
    BY <1>1, FlawsHold, PTL

\* parser_parse_string never reads beyond a string token without an error, and advances
\* over as many places of the new object as it has counted, whatever the escapes.
THEOREM StringsAlwaysFit == Spec => []StringsFit
  <1>1. IInv /\ TextInv /\ FlawInv => StringsFit
    <2> SUFFICES ASSUME IInv, TextInv, FlawInv, lex.pc = "done",
                        token.type = "STRING", ~token.had_error
                 PROVE  /\ Decoded(TokenBytes(token)).inside
                        /\ Decoded(TokenBytes(token)).size
                             = Len(Decoded(TokenBytes(token)).bytes)
      BY DEF StringsFit
    <2>1. PICK s : s = TokenBytes(token)
      OBVIOUS
    <2>2. PICK a \in Nat, n \in Nat :
            /\ a = token.index /\ n = token.length /\ n >= 1 /\ TextOf(s, n)
            /\ \A k \in 1 .. n : s[k] = input[a + k]
      BY <2>1, TokenStretch
    <2>3. input[a + 1] = DoubleQuote /\ Literal(input, a + 1, a + n)
      BY <2>2 DEF FlawInv, FlagInv, Deserved
    <2>4. n > 1 /\ Items(s, 2, n)
      <3>1. PICK z : z = input
        OBVIOUS
      <3>2. /\ \A k \in 1 .. n : s[k] = z[a + k]
            /\ n >= 1 /\ z[a + 1] = DoubleQuote
        BY <2>2, <2>3, <3>1
      <3>3. n > 1 /\ Items(s, 2, n) /\ s[n] = DoubleQuote <=> Literal(z, a + 1, a + n)
        BY <3>2, LiteralToken
      <3> QED
        BY <2>3, <3>1, <3>3, Zenon
    <2>5. HasLength(s, n) /\ \A k \in 1 .. n : s[k] \in 0 .. 255
      BY <2>2, Zenon DEF TextOf
    <2>6. Decoded(s).inside = TRUE /\ Decoded(s).size = Len(Decoded(s).bytes)
      BY <2>2, <2>4, <2>5, DecodedFacts, Zenon
    <2> QED
      BY <2>1, <2>6, Zenon
  <1> QED
    BY <1>1, FlawsHold, PTL
=============================================================================
