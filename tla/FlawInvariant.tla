--------------------------- MODULE FlawInvariant ---------------------------
(***************************************************************************)
(* The part of the reader's inductive invariant that relates the error of  *)
(* a token to its bytes: while it has none the bytes are proper, and once  *)
(* it has one, nothing that may follow makes them so.  Proper is what the  *)
(* lexer accepts; how that compares with what should be is the matter of   *)
(* FlawsAreFlagged.                                                        *)
(***************************************************************************)
EXTENDS TextInvariant

-----------------------------------------------------------------------------
(***************************************************************************)
(* The bytes of a string literal, without recursion: z from the i-th byte  *)
(* up to the j-th is one character or escape of it.                        *)
(***************************************************************************)
Lead(b) == b \in 192 .. 223
Trail(b) == b \in 128 .. 191

Character(z, i, j) ==
    \/ j = i + 1 /\ z[i] < 128 /\ z[i] \notin {DoubleQuote, Backslash}
    \/ j = i + 2 /\ Lead(z[i]) /\ Trail(z[i + 1])

\* What lexer_handle_escape accepts as \u{...}, from i with the right curly bracket at j.
\* The number of digits wraps around, so that DigitsMod of them are accepted again.
ProperUnicode(s, i, j) ==
    LET digits == SubSeq(s, i + 3, j - 1) IN
    /\ s[i + 2] = LeftCurly
    /\ \A n \in DOMAIN digits : IsHexDigit(digits[n])
    /\ Len(digits) % DigitsMod <= 6
    /\ HexNumber(digits) \in (0 .. 55295) \cup (57344 .. 69631)

Escaping(z, i, j) ==
    /\ i + 2 <= j /\ z[i] = Backslash
    /\ \/ j = i + 2 /\ z[i + 1] \in Simple
       \/ /\ j = i + 4 /\ z[i + 1] = 120
          /\ IsHexDigit(z[i + 2]) /\ IsHexDigit(z[i + 3])
       \/ /\ i + 4 <= j /\ z[i + 1] = 117
          /\ z[j - 1] = RightCurly /\ ProperUnicode(z, i, j - 1)

Item(z, i, j) == Character(z, i, j) \/ Escaping(z, i, j)

\* From a up to b there is one after the other, between the positions in P.
Items(z, a, b) ==
    \E P \in SUBSET (a .. b) :
        /\ a \in P /\ b \in P
        /\ \A i \in P : i = b \/ \E j \in P : Item(z, i, j)

\* A string literal, from the k-th byte to the n-th.
Literal(z, k, n) ==
    k < n /\ z[k] = DoubleQuote /\ Items(z, k + 1, n) /\ z[n] = DoubleQuote

\* An escape from the i-th byte up to the j-th that may go on.
Unfinished(z, i, j) ==
    /\ z[i] = Backslash
    /\ \/ j = i + 1
       \/ j = i + 2 /\ z[i + 1] = 117
       \/ /\ i + 3 <= j /\ z[i + 1] = 117 /\ z[i + 2] = LeftCurly
          /\ \A n \in i + 3 .. j - 1 : IsHexDigit(z[n])
       \/ /\ j \in {i + 2, i + 3} /\ z[i + 1] = 120
          /\ \A n \in i + 2 .. j - 1 : IsHexDigit(z[n])

\* Whole characters of one or two bytes, from the a-th byte to the b-th.
Valid(z, a, b) ==
    \A i \in a .. b :
        \/ z[i] < 128
        \/ i + 1 <= b /\ Lead(z[i]) /\ Trail(z[i + 1])
        \/ a <= i - 1 /\ Lead(z[i - 1]) /\ Trail(z[i])

-----------------------------------------------------------------------------
(***************************************************************************)
(* w is the input, more says that there may be more of it, l are the local *)
(* variables of the lexer and j its index; k is the first byte of a token. *)
(***************************************************************************)
\* What the input may become.
Becomes(w, more, z) ==
    /\ z \in Seq(Bytes) /\ Len(w) <= Len(z) /\ \A k \in 1 .. Len(w) : z[k] = w[k]
    /\ more \/ z = w

\* No string begins at k, and no symbol that goes on to j, whatever follows.
NoLiteral(w, more, k) ==
    \A z : Becomes(w, more, z) => \A n \in 1 .. Len(z) : ~Literal(z, k, n)

NoSymbol(w, more, k, j) ==
    \A z : Becomes(w, more, z) => \A n \in j .. Len(z) : ~Valid(z, k, n)

\* An escape has been read up to the position q, after the characters before it.
EscapeTo(w, l, q) ==
    Items(w, l.start + 2, l.escape + 1) /\ Unfinished(w, l.escape + 1, q)

\* Where the loops of lexer_handle_escape are.
EscapeSoFar(w, l, j) ==
    /\ EscapeTo(w, l, j + 1)
    /\ l.pc = "escape" => j = l.escape + 1
    /\ l.pc = "unicode" =>
         j = l.escape + 2 /\ w[l.escape + 2] = 117 /\ l.digits = 0 /\ l.val = 0
    /\ l.pc = "digits" =>
         /\ l.escape + 3 <= j /\ w[l.escape + 2] = 117 /\ w[l.escape + 3] = LeftCurly
         /\ l.digits = (j - (l.escape + 3)) % DigitsMod
         /\ l.val = HexNumber(SubSeq(w, l.escape + 4, j))
    /\ l.pc = "hex" =>
         /\ l.digits \in {0, 1} /\ w[l.escape + 2] = 120
         /\ j = l.escape + 2 + l.digits

StringSoFar(w, l, j) ==
    /\ l.pc = "string" => Items(w, l.start + 2, j + 1)
    /\ l.pc = "suffix" => Literal(w, l.start + 1, j)
    /\ l.pc \in Inside => EscapeSoFar(w, l, j)
    /\ l.pc = "skip" /\ l.resume # "escape" => Items(w, l.start + 2, l.bad + 1)
    /\ l.pc = "skip" /\ l.resume = "escape" => EscapeTo(w, l, l.bad + 1)

SymbolSoFar(w, l, j) == Valid(w, l.start + 1, IF l.pc = "skip" THEN l.bad ELSE j)

\* Of n errors, those of the token are the ones beyond l.errors.  The error for bytes
\* that are skipped is added when they have been skipped.
StringOK(w, more, l, j, n) ==
    /\ w[l.start + 1] = DoubleQuote
    /\ l.errors \in Nat /\ l.errors <= n
    /\ l.errors = n => StringSoFar(w, l, j)
    /\ l.errors < n \/ (l.pc = "skip" /\ l.bad < j) => NoLiteral(w, more, l.start + 1)

SymbolOK(w, more, l, j, n) ==
    /\ l.errors \in Nat /\ l.errors <= n
    /\ l.errors = n => SymbolSoFar(w, l, j)
    /\ l.errors < n \/ (l.pc = "skip" /\ l.bad < j) => NoSymbol(w, more, l.start + 1, j)

-----------------------------------------------------------------------------
InString == {"string", "suffix"} \cup Inside

IsString(l) == l.pc \in InString \/ (l.pc = "skip" /\ l.resume \in InString)
IsSymbol(l) ==
    l.pc \in {"atom", "symbol"} \/ (l.pc = "skip" /\ l.resume \in {"atom", "symbol"})

StringInv == IsString(lex) => StringOK(input, open, lex, index, Len(context))
SymbolInv == IsSymbol(lex) => SymbolOK(input, open, lex, index, Len(context))

\* Its error is what the bytes of a token deserve.
Deserved(t) ==
    \/ /\ t.type \in {"SYMBOL", "NUMBER"}
       /\ ~Valid(input, t.index + 1, t.index + t.length)
    \/ /\ t.type = "STRING"
       /\ ~(Literal(input, t.index + 1, t.index + t.length) /\ Delimited)

FlagInv ==
    lex.pc = "done" =>
        /\ token.had_error <=> Deserved(token)
        /\ token.type = "STRING" => input[token.index + 1] = DoubleQuote

FlawInv == StringInv /\ SymbolInv /\ FlagInv
=============================================================================
