---------------------------- MODULE ReaderProofs ----------------------------
(***************************************************************************)
(* The reader for texts of any length, any capacity of its buffer, and any *)
(* width of its counters: IInv is inductive, and implies the properties.   *)
(***************************************************************************)
EXTENDS ReaderInvariant

-----------------------------------------------------------------------------
(***************************************************************************)
(* Characters.                                                             *)
(***************************************************************************)
\* What a peek can yield, and what that says of the position.
LEMMA PeekFacts ==
    ASSUME input \in Seq(Bytes), index \in 0 .. Len(input)
    PROVE  /\ Peek = EndOfInput \/ Peek = BadUtf8 \/ IsChar
           /\ Peek = EndOfInput => index = Len(input) /\ Peek # BadUtf8 /\ ~IsChar
           /\ Peek = BadUtf8 => index < Len(input) /\ Peek # EndOfInput /\ ~IsChar
           /\ IsChar => /\ index < Len(input) /\ Peek # EndOfInput /\ Peek # BadUtf8
                        /\ Peek.width \in Nat \ {0}
                        /\ index + Peek.width <= Len(input)
  <1> DEFINE w == CodepointWidth(Byte(index))
  <1>1. Len(input) \in Nat /\ index \in Nat
    OBVIOUS
  <1>2. EndOfInput.k = "end" /\ BadUtf8.k = "bad"
    BY DEF EndOfInput, BadUtf8
  <1>3. \A c, width : Char(c, width).k = "char" /\ Char(c, width).width = width
    BY DEF Char
  <1>4. Peek = EndOfInput <=> index >= Len(input)
    BY <1>2, <1>3 DEF Peek, CodepointAt
  <1>5. CASE index >= Len(input)
    BY <1>1, <1>2, <1>4, <1>5 DEF IsChar
  <1>6. CASE index < Len(input)
    <2>1. w \in 0 .. 4
      BY DEF CodepointWidth
    <2>2. Peek = BadUtf8 \/ (w # 0 /\ Continues(index, w - 1) /\ \E c : Peek = Char(c, w))
      BY <1>1, <1>6 DEF Peek, CodepointAt
    <2>3. Continues(index, w - 1) /\ w # 0 => index + w <= Len(input)
      <3> HIDE DEF w
      <3> QED
        BY <1>1, <1>6, <2>1 DEF Continues
    <2> HIDE DEF w
    <2> QED
      BY <1>1, <1>2, <1>3, <1>4, <1>6, <2>1, <2>2, <2>3 DEF IsChar
  <1> QED
    BY <1>1, <1>5, <1>6

\* At the end of what was read the lexer has asked for more, in vain.
LEMMA EndFacts ==
    ASSUME input \in Seq(Bytes), index \in 0 .. Len(input), NEW pc, At(pc),
           Peek = EndOfInput
    PROVE  AtTheEnd
  <1>1. index = Len(input) /\ Len(input) \in Nat
    BY PeekFacts
  <1> QED
    BY <1>1 DEF At, NeedsInput, AtTheEnd

-----------------------------------------------------------------------------
(***************************************************************************)
(* Reading from the file.                                                  *)
(***************************************************************************)
\* fgets yields the first bytes of what is left, fewer than it has room for, and
\* none only if nothing is left or there is no room.
LEMMA GetsFacts ==
    ASSUME unread \in Seq(Bytes), NEW size \in Nat \ {0}
    PROVE  \E n \in 0 .. Len(unread) :
             /\ Gets(size) = SubSeq(unread, 1, n)
             /\ n <= size - 1
             /\ n = 0 /\ size > 1 => unread = <<>>
  <1> DEFINE ends == {n \in 0 .. Len(unread) :
                        \/ n = size - 1
                        \/ n = Len(unread)
                        \/ n > 0 /\ unread[n] = NewLine}
             n == CHOOSE n \in ends : \A m \in ends : n <= m
  <1>1. Len(unread) \in Nat /\ Len(unread) \in ends /\ ends \in SUBSET Nat
    OBVIOUS
  <1>2. n \in ends /\ \A m \in ends : n <= m
    <2>1. \E x \in ends : \A m \in ends : x <= m
      BY <1>1, LeastElement
    <2> HIDE DEF ends
    <2> QED
      BY <2>1
  <1>3. Gets(size) = SubSeq(unread, 1, n)
    BY DEF Gets
  <1>4. n \in 0 .. Len(unread)
    BY <1>2
  <1>5. n <= size - 1
    <2>1. CASE size - 1 <= Len(unread)
      <3>1. size - 1 \in ends
        BY <1>1, <2>1
      <3> QED
        BY <1>2, <3>1
    <2>2. CASE size - 1 > Len(unread)
      BY <1>1, <1>4, <2>2
    <2> QED
      BY <1>1, <2>1, <2>2
  <1>6. n = 0 /\ size > 1 => unread = <<>>
    <2>1. n \in ends => n = size - 1 \/ n = Len(unread) \/ n > 0
      OBVIOUS
    <2> HIDE DEF n, ends
    <2> QED
      BY <1>1, <1>2, <2>1, EmptySeq
  <1> HIDE DEF n, ends
  <1> QED
    BY <1>3, <1>4, <1>5, <1>6

\* strlen yields a prefix, and the whole line if no NUL is in it.
LEMMA UpToNulFacts ==
    ASSUME NEW line \in Seq(Bytes)
    PROVE  /\ UpToNul(line) \in Seq(Bytes)
           /\ Len(UpToNul(line)) <= Len(line)
           /\ (\A i \in DOMAIN line : line[i] # 0) => UpToNul(line) = line
  <1> DEFINE ends == {n \in 0 .. Len(line) : n = Len(line) \/ line[n + 1] = 0}
             n == CHOOSE n \in ends : \A m \in ends : n <= m
  <1>1. Len(line) \in Nat /\ Len(line) \in ends /\ ends \in SUBSET Nat
    OBVIOUS
  <1>2. n \in ends
    <2>1. \E x \in ends : \A m \in ends : x <= m
      BY <1>1, LeastElement
    <2> HIDE DEF ends
    <2> QED
      BY <2>1
  <1>3. n \in 0 .. Len(line) /\ (n = Len(line) \/ line[n + 1] = 0)
    BY <1>2
  <1>4. UpToNul(line) = SubSeq(line, 1, n)
    BY DEF UpToNul
  <1> HIDE DEF n, ends
  <1>5. \A i \in 1 .. n : line[i] \in Bytes
    BY <1>1, <1>3
  <1>6. UpToNul(line) \in Seq(Bytes) /\ Len(UpToNul(line)) = n
    <2>1. SubSeq(line, 1, n) \in Seq(Bytes)
          /\ Len(SubSeq(line, 1, n)) = IF 1 <= n THEN n - 1 + 1 ELSE 0
      BY <1>1, <1>3, <1>5, SubSeqProperties
    <2> QED
      BY <1>1, <1>3, <1>4, <2>1
  <1>7. ASSUME \A i \in DOMAIN line : line[i] # 0
        PROVE  UpToNul(line) = line
    <2>1. n = Len(line)
      BY <1>1, <1>3, <1>7
    <2> QED
      BY <1>4, <2>1, SubSeqFull
  <1> QED
    BY <1>1, <1>3, <1>6, <1>7
-----------------------------------------------------------------------------
(***************************************************************************)
(* What depends on the position or the text only through a bound stays     *)
(* true when they grow.                                                    *)
(***************************************************************************)
LEMMA ContextUnchanged ==
    ASSUME ContextInv, Len(input) \in Nat, Len(input') \in Nat, Len(input) <= Len(input'),
           context' = context
    PROVE  ContextInv'
  <1>1. \A i \in DOMAIN context : context[i] \in Errors
    BY DEF ContextInv
  <1>2. \A i \in DOMAIN context : context[i].index \in Nat /\ context[i].length \in Nat
    BY <1>1 DEF Errors
  <1> QED
    BY <1>2 DEF ContextInv, ErrorsInsideText

LEMMA ContextExtended ==
    ASSUME ContextInv, Len(input) \in Nat, input' = input,
           NEW errors \in Seq(Errors),
           \A i \in DOMAIN errors : errors[i].index + errors[i].length <= Len(input),
           context' = context \o errors
    PROVE  ContextInv'
  <1>1. context \in Seq(Errors)
    BY DEF ContextInv
  <1>2. /\ context' \in Seq(Errors)
        /\ Len(context') = Len(context) + Len(errors)
        /\ \A i \in 1 .. Len(context) + Len(errors) :
             context'[i] = IF i <= Len(context) THEN context[i] ELSE errors[i - Len(context)]
    BY <1>1, ConcatProperties
  <1>3. ASSUME NEW i \in DOMAIN context'
        PROVE  context'[i].length > 0 /\ context'[i].index + context'[i].length <= Len(input')
    <2>1. i \in 1 .. Len(context) + Len(errors) /\ Len(context) \in Nat /\ Len(errors) \in Nat
      BY <1>1, <1>2, <1>3
    <2>2. CASE i <= Len(context)
      BY <1>1, <1>2, <2>1, <2>2 DEF ContextInv, ErrorsInsideText
    <2>3. CASE i > Len(context)
      <3>1. i - Len(context) \in DOMAIN errors
        BY <2>1, <2>3
      <3>2. context'[i] = errors[i - Len(context)] /\ errors[i - Len(context)] \in Errors
        BY <1>2, <2>1, <2>3, <3>1
      <3> QED
        BY <3>1, <3>2 DEF Errors
    <2> QED
      BY <2>1, <2>2, <2>3
  <1> QED
    BY <1>2, <1>3 DEF ContextInv, ErrorsInsideText

LEMMA ErrorFacts ==
    ASSUME NEW type \in ErrorTypes, NEW from \in Nat, NEW to \in Nat, from < to
    PROVE  /\ Error(type, from, to) \in Errors
           /\ Error(type, from, to).index + Error(type, from, to).length = to
  BY DEF Error, Errors

\* No error, one or two are added.
LEMMA NoErrorAdded ==
    ASSUME ContextInv, Len(input) \in Nat, input' = input,
           AddErrors(<<>>) \/ NoError
    PROVE  ContextInv'
  <1>1. context \in Seq(Errors)
    BY DEF ContextInv
  <1>2. context' = context
    BY <1>1, ConcatEmptySeq DEF AddErrors, NoError
  <1> QED
    BY <1>2, ContextUnchanged

LEMMA ErrorAdded ==
    ASSUME ContextInv, Len(input) \in Nat, input' = input,
           NEW type \in ErrorTypes, NEW from \in Nat, NEW to \in Nat,
           from < to, to <= Len(input),
           AddErrors(<<Error(type, from, to)>>)
    PROVE  ContextInv'
  <1> DEFINE e == Error(type, from, to)
  <1>1. e \in Errors /\ e.index + e.length = to
    BY ErrorFacts
  <1> HIDE DEF e
  <1>2. <<e>> \in Seq(Errors) /\ \A i \in DOMAIN <<e>> : <<e>>[i] = e
    BY <1>1
  <1>3. \A i \in DOMAIN <<e>> : <<e>>[i].index + <<e>>[i].length <= Len(input)
    BY <1>1, <1>2
  <1>4. context' = context \o <<e>>
    BY DEF AddErrors, e
  <1> QED
    BY <1>2, <1>3, <1>4, ContextExtended

LEMMA ErrorsAdded ==
    ASSUME ContextInv, Len(input) \in Nat, input' = input,
           NEW type1 \in ErrorTypes, NEW from1 \in Nat, NEW to1 \in Nat,
           NEW type2 \in ErrorTypes, NEW from2 \in Nat, NEW to2 \in Nat,
           from1 < to1, to1 <= Len(input), from2 < to2, to2 <= Len(input),
           AddErrors(<<Error(type1, from1, to1), Error(type2, from2, to2)>>)
    PROVE  ContextInv'
  <1> DEFINE d == Error(type1, from1, to1)
             e == Error(type2, from2, to2)
  <1>1. /\ d \in Errors /\ d.index + d.length = to1
        /\ e \in Errors /\ e.index + e.length = to2
    BY ErrorFacts
  <1> HIDE DEF d, e
  <1>2. <<d, e>> \in Seq(Errors) /\ \A i \in DOMAIN <<d, e>> : <<d, e>>[i] \in {d, e}
    BY <1>1
  <1>3. \A i \in DOMAIN <<d, e>> : <<d, e>>[i].index + <<d, e>>[i].length <= Len(input)
    BY <1>1, <1>2
  <1>4. context' = context \o <<d, e>>
    BY DEF AddErrors, d, e
  <1> QED
    BY <1>2, <1>3, <1>4, ContextExtended

LEMMA TokenKept ==
    ASSUME NEW t, TokenInv(t), index \in Nat, index' \in Nat, index <= index'
    PROVE  /\ t \in Tokens /\ t.index + t.length <= index'
           /\ t.type # "END" => t.length > 0
  <1>1. t.index \in Nat /\ t.length \in Nat
    BY DEF TokenInv, Tokens
  <1> QED
    BY <1>1 DEF TokenInv

LEMMA StackKept ==
    ASSUME StackInv, index \in Nat, index' \in Nat, index <= index', stack' = stack
    PROVE  StackInv'
  BY DEF StackInv, StackBefore

-----------------------------------------------------------------------------
(***************************************************************************)
(* A step of the lexer: what it has to show.                               *)
(***************************************************************************)
LEMMA LexerFrame ==
    ASSUME IInv, Reading, UNCHANGED parser, UNCHANGED text,
           BufferInv', ContextInv', LexInv', index <= index',
           lex'.pc # "idle",
           lex'.pc = "done" /\ token'.type = "END" => AtTheEnd'
    PROVE  IInv'
  <1>1. /\ has_peeked' = has_peeked /\ peeked' = peeked /\ at' = at /\ stack' = stack
        /\ ret' = ret /\ roots' = roots /\ results' = results /\ taken' = taken
    BY DEF parser
  <1>2. ~has_peeked /\ at \in Peeks /\ lex.pc # "idle"
    BY DEF IInv, PeekedInv, Reading
  <1>3. index \in Nat /\ index' \in Nat
    BY DEF IInv, LexInv, BufferInv
  <1>4. StackInv'
    BY <1>1, <1>3, StackKept DEF IInv
  <1>5. PeekedInv'
    <2>1. TokenInv(peeked)
      BY DEF IInv, PeekedInv
    <2>2. TokenInv(peeked)'
      BY <1>1, <1>3, <2>1, TokenKept DEF TokenInv
    <2> QED
      BY <1>1, <1>2, <2>2 DEF IInv, PeekedInv
  <1>6. AtInv' /\ RootsAreLive'
    BY <1>1, <1>2 DEF IInv, AtInv, RootsAreLive, LocalsOf
  <1> QED
    BY <1>4, <1>5, <1>6 DEF IInv

\* Most steps leave the buffer alone.
LEMMA ReadingFrame ==
    ASSUME IInv, Reading, UNCHANGED parser, UNCHANGED buffer,
           ContextInv', LexInv', index <= index',
           lex'.pc \notin {"idle", "done"}
    PROVE  IInv'
  <1>1. BufferInv'
    BY DEF IInv, BufferInv, buffer, NulFree
  <1> QED
    BY <1>1, LexerFrame DEF buffer

LEMMA PeekSame ==
    ASSUME input' = input, index' = index
    PROVE  Peek' = Peek /\ NeedsInput(index)' = NeedsInput(index)
  BY DEF Peek, CodepointAt, NeedsInput, Byte, CodepointWidth, Continues, Codepoint

\* An update of the local variables that leaves the positions alone.
LEMMA Flagged ==
    ASSUME NEW l, IsLex(l), NEW flag, NEW m, m = [l EXCEPT !.utf8_error = flag]
    PROVE  IsLex(m) /\ m.start = l.start /\ m.escape = l.escape /\ m.bad = l.bad
  BY DEF IsLex

\* A token is returned.
LEMMA Returned ==
    ASSUME IInv, Reading, UNCHANGED parser, UNCHANGED buffer, ContextInv',
           NEW type \in TokenTypes, NEW from \in Nat, NEW errors,
           index' \in Nat, index <= index', index' <= Len(input), from <= index',
           type # "END" => from < index',
           type = "END" => index' = index /\ AtTheEnd,
           ReturnToken(type, from, errors)
    PROVE  IInv'
  <1>1. lex' = [Idle EXCEPT !.pc = "done"]
    BY DEF ReturnToken
  <1>2. LexShape' /\ lex'.pc = "done"
    <2>1. lex' = [pc |-> "done", start |-> 0, errors |-> 0, utf8_error |-> FALSE, c |-> 0,
                  escape |-> 0, val |-> 0, digits |-> 0, dots |-> 0, numeric |-> FALSE,
                  digit |-> FALSE, bad |-> 0, resume |-> "idle"]
      BY <1>1 DEF Idle
    <2>2. IsLex(lex')
      BY <2>1 DEF IsLex
    <2>3. lex'.pc = "done" /\ lex'.start = 0 /\ lex'.escape = 0 /\ lex'.bad = 0
      BY <2>1
    <2> QED
      BY <2>2, <2>3 DEF LexShape, IsLex, Places
  <1>3. /\ token' = [type |-> type, index |-> from, length |-> index' - from,
                     had_error |-> Len(context') # errors]
    BY DEF ReturnToken
  <1>4. TokenInv(token)'
    <2>1. index' - from \in Nat /\ (type # "END" => index' - from > 0)
          /\ from + (index' - from) = index'
      BY Difference
    <2>2. token' \in Tokens
      BY <1>3, <2>1 DEF Tokens
    <2>3. token'.index = from /\ token'.length = index' - from /\ token'.type = type
      BY <1>3
    <2>4. token'.index + token'.length <= index'
      <3>1. index' <= index'
        OBVIOUS
      <3> QED
        BY <2>1, <2>3, <3>1
    <2> QED
      BY <2>1, <2>2, <2>3, <2>4 DEF TokenInv
  <1>5. input' = input /\ open' = open /\ text' = text
    BY DEF buffer
  <1>6. LexInv'
    BY <1>2, <1>4, <1>5 DEF LexInv, Consumed, Inside
  <1>7. BufferInv'
    BY DEF IInv, BufferInv, buffer, NulFree
  <1>8. token'.type = type
    BY <1>3
  <1> QED
    BY <1>2, <1>5, <1>6, <1>7, <1>8, LexerFrame DEF AtTheEnd

\* A character is taken, or the loop is left, and no token returned.
LEMMA Continued ==
    ASSUME IInv, Reading, UNCHANGED parser, UNCHANGED buffer, UNCHANGED token, ContextInv',
           index' \in Nat, index <= index', index' <= Len(input),
           IsLex(lex'), lex'.pc \in Places \ {"idle", "done", "skip"},
           lex'.start \in Nat, lex'.escape \in Nat, lex'.bad \in Nat,
           lex'.pc \in Consumed => lex'.start < index',
           lex'.pc \in Inside => lex'.escape < index'
    PROVE  IInv'
  <1>1. TokenInv(token)
    BY DEF IInv, LexInv
  <1>2. index \in Nat
    BY DEF IInv, LexInv, BufferInv
  <1>3. TokenInv(token)'
    BY <1>1, <1>2, TokenKept DEF TokenInv
  <1>4. LexInv'
    BY <1>3 DEF LexInv, LexShape, buffer
  <1> QED
    BY <1>4, ReadingFrame

\* Invalid bytes lie ahead.
LEMMA Skipping ==
    ASSUME IInv, Reading, UNCHANGED parser, UNCHANGED buffer, At(lex.pc),
           NEW resume \in Resumed, NEW l, IsLex(l), l.start \in Nat, l.escape \in Nat,
           resume = "symbol" => l.start <= index,
           resume \in {"atom", "string", "suffix", "escape"} => l.start < index,
           resume = "escape" => l.escape < index,
           SkipThen(resume, l)
    PROVE  IInv'
  <1>1. /\ Peek = BadUtf8 /\ index' = index /\ context' = context /\ token' = token
        /\ lex' = [l EXCEPT !.pc = "skip", !.bad = index, !.resume = resume]
    BY DEF SkipThen, Stay, NoError
  <1>2. /\ IsLex(lex') /\ lex'.pc = "skip" /\ lex'.bad = index /\ lex'.resume = resume
        /\ lex'.start = l.start /\ lex'.escape = l.escape
    BY <1>1 DEF IsLex
  <1>3. input' = input /\ open' = open /\ text' = text
    BY DEF buffer
  <1>4. index \in Nat /\ index <= Len(input) /\ Len(input) \in Nat
    BY DEF IInv, LexInv, BufferInv
  <1>5. TokenInv(token)'
    BY <1>1 DEF IInv, LexInv, TokenInv
  <1>6. Peek' = BadUtf8 /\ ~Starved'
    BY <1>1, <1>3, PeekSame DEF At, Starved, BadUtf8
  <1>7. LexInv'
    BY <1>1, <1>2, <1>3, <1>4, <1>5, <1>6 DEF LexInv, LexShape, Places, Consumed, Inside
  <1>8. ContextInv'
    BY <1>1, <1>3, <1>4, ContextUnchanged DEF IInv
  <1> QED
    BY <1>1, <1>2, <1>4, <1>7, <1>8, ReadingFrame

-----------------------------------------------------------------------------
(***************************************************************************)
(* The steps of the lexer.                                                 *)
(***************************************************************************)
\* What every one of them starts from.
LEMMA ReadingFacts ==
    ASSUME IInv, NEW pc \in {"start", "blank", "comment", "skip"} \cup Consumed, At(pc)
    PROVE  /\ Reading /\ lex.pc = pc /\ At(lex.pc)
           /\ IsLex(lex) /\ lex.start \in Nat /\ lex.escape \in Nat /\ lex.bad \in Nat
           /\ index \in Nat /\ Len(input) \in Nat /\ index \in 0 .. Len(input)
           /\ input \in Seq(Bytes) /\ ContextInv
           /\ pc \in Consumed => lex.start < index
           /\ pc \in Inside => lex.escape < index
  BY DEF IInv, LexInv, LexShape, BufferInv, Reading, At, Consumed, Inside

\* fgets has room for a byte and the NUL.
LEMMA GetInputRoom ==
    ASSUME IInv, GetInput
    PROVE  capacity' \in Nat /\ capacity' > Len(input) + 1
  <1>0. /\ input \in Seq(Bytes) /\ capacity \in Nat /\ Len(input) \in Nat
        /\ Len(input) < capacity \/ (capacity = 0 /\ input = <<>>)
    <2>1. open
      BY DEF GetInput, Starved
    <2> QED
      BY <2>1 DEF IInv, BufferInv
  <1>1. BaseCapacity \in Nat /\ BaseCapacity >= 3 /\ BaseCapacity <= PtrdiffMax
        /\ PtrdiffMax \in Nat /\ PtrdiffMax \div 1 = PtrdiffMax
    BY LexerAssumption, SizeModAssumption DEF PtrdiffMax
  <1>2. CASE Filled
    <2>1. capacity' = GrownCapacity(capacity, 1, BaseCapacity) /\ capacity' > capacity
      BY <1>2 DEF GetInput, CanGrow
    <2>2. (2 * capacity) % SizeMod \in Nat
      BY <1>0, SizeModAssumption
    <2>3. capacity' \in Nat /\ (capacity = 0 => capacity' >= 3)
      BY <1>1, <2>1, <2>2 DEF GrownCapacity, ValidCapacity
    <2>4. Len(<<>>) = 0
      OBVIOUS
    <2>5. capacity # 0 => Len(input) + 1 = capacity
      BY <1>0, <1>2, <2>4 DEF Filled
    <2> QED
      BY <1>0, <2>1, <2>3, <2>4, <2>5
  <1>3. CASE ~Filled
    BY <1>0, <1>3 DEF GetInput, Filled
  <1> QED
    BY <1>2, <1>3

LEMMA GetInputKeeps ==
    ASSUME IInv, GetInput, UNCHANGED parser
    PROVE  IInv'
  <1>1. /\ Starved /\ Reading /\ open
        /\ text' = text /\ index' = index /\ lex' = lex /\ token' = token /\ context' = context
    BY DEF GetInput, Starved
  <1>2. /\ text \in Seq(Bytes) /\ input \in Seq(Bytes) /\ unread \in Seq(Bytes)
        /\ capacity \in Nat /\ Len(input) \in Nat /\ index \in 0 .. Len(input)
        /\ Len(input) < capacity \/ (capacity = 0 /\ input = <<>>)
        /\ NulFree => text = input \o unread
    BY <1>1 DEF IInv, BufferInv, LexInv
  <1>3. capacity' \in Nat /\ capacity' > Len(input) + 1
    BY GetInputRoom
  <1> DEFINE size == capacity' - Len(input)
             line == Gets(size)
  <1>4. size \in Nat \ {0} /\ size > 1
    BY <1>2, <1>3
  <1>5. /\ input' = input \o UpToNul(line)
        /\ unread' = SubSeq(unread, Len(line) + 1, Len(unread))
        /\ open' = (UpToNul(line) # <<>>)
    BY DEF GetInput
  <1> HIDE DEF size
  <1>6. PICK n \in 0 .. Len(unread) :
              /\ line = SubSeq(unread, 1, n)
              /\ n <= size - 1
              /\ n = 0 => unread = <<>>
    BY <1>2, <1>4, GetsFacts
  <1> HIDE DEF line
  <1>7. /\ line \in Seq(Bytes) /\ Len(line) = n
        /\ \A i \in 1 .. n : line[i] = unread[i]
    <2>1. Len(unread) \in Nat /\ \A i \in 1 .. n : unread[i] \in Bytes
      BY <1>2
    <2>2. /\ SubSeq(unread, 1, n) \in Seq(Bytes)
          /\ Len(SubSeq(unread, 1, n)) = IF 1 <= n THEN n - 1 + 1 ELSE 0
          /\ \A i \in 1 .. n - 1 + 1 : SubSeq(unread, 1, n)[i] = unread[1 + i - 1]
      BY <2>1, SubSeqProperties
    <2> QED
      BY <1>6, <2>1, <2>2
  <1>8. /\ UpToNul(line) \in Seq(Bytes)
        /\ Len(UpToNul(line)) \in Nat /\ Len(UpToNul(line)) <= n
        /\ (\A i \in DOMAIN line : line[i] # 0) => UpToNul(line) = line
    BY <1>7, UpToNulFacts, LenProperties
  <1>9. input' \in Seq(Bytes) /\ Len(input') = Len(input) + Len(UpToNul(line))
    BY <1>2, <1>5, <1>8, ConcatProperties
  <1>10. unread' \in Seq(Bytes)
    <2>1. \A i \in n + 1 .. Len(unread) : unread[i] \in Bytes
      BY <1>2
    <2> QED
      BY <1>2, <1>5, <1>7, <2>1, SubSeqProperties
  <1>11. Len(input') < capacity'
    BY <1>2, <1>3, <1>6, <1>8, <1>9 DEF size
  <1>12. ASSUME NulFree
         PROVE  text = input' \o unread' /\ (~open' => unread' = <<>>)
    <2>1. text = input \o unread
      BY <1>2, <1>12
    <2>2. ASSUME NEW i \in 1 .. n
          PROVE  line[i] # 0
      <3>1. Len(input) + i \in 1 .. Len(input) + Len(unread) /\ Len(unread) \in Nat
        BY <1>2, <1>6
      <3>2. text[Len(input) + i] = unread[i] /\ Len(text) = Len(input) + Len(unread)
        <4>1. /\ Len(input \o unread) = Len(input) + Len(unread)
              /\ (input \o unread)[Len(input) + i]
                   = IF Len(input) + i <= Len(input) THEN input[Len(input) + i]
                     ELSE unread[Len(input) + i - Len(input)]
          BY <1>2, <3>1, ConcatProperties
        <4> QED
          BY <1>2, <2>1, <3>1, <4>1
      <3>3. Len(input) + i \in DOMAIN text
        BY <1>2, <3>1, <3>2
      <3> QED
        BY <1>7, <1>12, <3>2, <3>3 DEF NulFree
    <2>3. UpToNul(line) = line
      BY <1>7, <1>8, <2>2
    <2>4. line \o unread' = unread
      <3>1. SubSeq(unread, 1, n) \o SubSeq(unread, n + 1, Len(unread)) = unread
        BY <1>2, SplitAt
      <3> QED
        BY <1>5, <1>6, <1>7, <3>1
    <2>5. (input \o line) \o unread' = input \o (line \o unread')
      <3>1. input \in Seq(Bytes) /\ line \in Seq(Bytes) /\ unread' \in Seq(Bytes)
        BY <1>2, <1>7, <1>10
      <3> QED
        BY <3>1, Associative
    <2>6. ~open' => unread' = <<>>
      <3> SUFFICES ASSUME ~open' PROVE unread' = <<>>
        OBVIOUS
      <3>1. line = <<>>
        BY <1>5, <2>3
      <3>2. n = 0
        <4>1. Len(line) = 0
          BY <3>1
        <4> QED
          BY <1>7, <4>1
      <3>3. unread = <<>>
        BY <1>6, <3>2
      <3>4. line \o unread' = unread'
        BY <1>10, <3>1, ConcatEmptySeq
      <3> QED
        BY <2>4, <3>3, <3>4
    <2>7. input' \o unread' = input \o (line \o unread')
      BY <1>5, <2>3, <2>5
    <2> QED
      BY <2>1, <2>4, <2>6, <2>7
  <1>13. BufferInv'
    BY <1>1, <1>2, <1>3, <1>5, <1>9, <1>10, <1>11, <1>12 DEF BufferInv, NulFree
  <1>14. ContextInv'
    BY <1>1, <1>2, <1>8, <1>9, ContextUnchanged DEF IInv
  <1>15. LexInv'
    <2>1. TokenInv(token)'
      BY <1>1 DEF IInv, LexInv, TokenInv
    <2>2. index' \in 0 .. Len(input')
      BY <1>1, <1>2, <1>8, <1>9
    <2>3. lex.pc = "skip" => lex.bad # index
      BY <1>1 DEF IInv, LexInv
    <2> QED
      BY <1>1, <2>1, <2>2, <2>3 DEF IInv, LexInv, LexShape
  <1>16. lex'.pc # "idle" /\ lex'.pc # "done"
    BY <1>1 DEF Reading
  <1> QED
    BY <1>1, <1>2, <1>13, <1>14, <1>15, <1>16, LexerFrame

\* The program ends.
LEMMA Exits ==
    ASSUME IInv, Reading, UNCHANGED parser, UNCHANGED <<buffer, index, token, context>>,
           lex' = [lex EXCEPT !.pc = "exit"]
    PROVE  IInv'
  <1>1. /\ IsLex(lex) /\ lex.start \in Nat /\ lex.escape \in Nat /\ lex.bad \in Nat
        /\ index \in Nat /\ Len(input) \in Nat /\ index <= Len(input) /\ ContextInv
    BY DEF IInv, LexInv, LexShape, BufferInv
  <1>2. /\ index' = index /\ token' = token /\ context' = context /\ input' = input
    BY DEF buffer
  <1>3. /\ IsLex(lex') /\ lex'.pc = "exit" /\ lex'.start = lex.start
        /\ lex'.escape = lex.escape /\ lex'.bad = lex.bad
    BY <1>1 DEF IsLex
  <1>4. ContextInv'
    BY <1>1, <1>2, ContextUnchanged
  <1>5. "exit" \in Places \ {"idle", "done", "skip"} /\ "exit" \notin Consumed
        /\ "exit" \notin Inside
    BY DEF Places, Consumed, Inside
  <1> QED
    BY <1>1, <1>2, <1>3, <1>4, <1>5, Continued

LEMMA GrowFailsKeeps ==
    ASSUME IInv, GrowFails, UNCHANGED parser
    PROVE  IInv'
  BY Exits DEF GrowFails, Starved

LEMMA AssertionFailsKeeps ==
    ASSUME IInv, AssertionFails, UNCHANGED parser
    PROVE  IInv'
  BY Exits DEF AssertionFails, Reading

\* The bytes that are skipped make up an error that is not empty.
LEMMA SkipInvalidKeeps ==
    ASSUME IInv, SkipInvalid, UNCHANGED parser
    PROVE  IInv'
  <1>1. At("skip") /\ UNCHANGED buffer /\ token' = token /\ input' = input
    BY DEF SkipInvalid, buffer
  <1>2. /\ Reading /\ lex.pc = "skip" /\ IsLex(lex)
        /\ lex.start \in Nat /\ lex.escape \in Nat /\ lex.bad \in Nat
        /\ index \in Nat /\ Len(input) \in Nat /\ index <= Len(input) /\ ContextInv
    BY <1>1, ReadingFacts
  <1>3. /\ lex.resume \in Resumed
        /\ lex.bad <= index
        /\ lex.resume = "symbol" => lex.start <= lex.bad
        /\ lex.bad = index => Peek = BadUtf8
        /\ lex.resume \in {"atom", "string", "suffix", "escape"} => lex.start < index
        /\ lex.resume = "escape" => lex.escape < index
    BY <1>2 DEF IInv, LexInv
  <1>4. CASE Peek = BadUtf8
    <2>1. index' = index + 1 /\ lex' = lex /\ context' = context
      BY <1>4 DEF SkipInvalid
    <2>2. index < Len(input)
      BY <1>1, <1>4, ReadingFacts, PeekFacts
    <2>3. TokenInv(token)
      BY DEF IInv, LexInv
    <2>4. TokenInv(token)'
      BY <1>1, <1>2, <2>1, <2>3, TokenKept DEF TokenInv
    <2>5. ContextInv'
      BY <1>1, <1>2, <2>1, ContextUnchanged
    <2>6. LexShape'
      BY <2>1 DEF IInv, LexInv, LexShape
    <2>7. LexInv'
      BY <1>1, <1>2, <1>3, <2>1, <2>2, <2>4, <2>6 DEF LexInv, Consumed, Inside
    <2> QED
      BY <1>1, <1>2, <2>1, <2>5, <2>7, ReadingFrame
  <1>5. CASE Peek # BadUtf8
    <2>1. lex.bad < index
      BY <1>2, <1>3, <1>5
    <2>2. index <= index
      BY <1>2
    <2>3. /\ "INVALID_UTF8" \in ErrorTypes /\ "INVALID_ESCAPE" \in ErrorTypes
      BY DEF ErrorTypes
    <2>4. CASE lex.resume = "escape"
      <3>1. /\ index' = index /\ lex' = [lex EXCEPT !.pc = "string"]
            /\ AddErrors(<<Error("INVALID_UTF8", lex.bad, index),
                           Error("INVALID_ESCAPE", lex.escape, index)>>)
        BY <1>5, <2>4 DEF SkipInvalid, Stay
      <3>2. ContextInv'
        BY <1>1, <1>2, <1>3, <2>1, <2>2, <2>3, <2>4, <3>1, ErrorsAdded
      <3>3. /\ IsLex(lex') /\ lex'.pc = "string" /\ lex'.start = lex.start
            /\ lex'.escape = lex.escape /\ lex'.bad = lex.bad
        BY <1>2, <3>1 DEF IsLex
      <3> QED
        BY <1>1, <1>2, <1>3, <2>2, <2>4, <3>1, <3>2, <3>3, Continued
           DEF Places, Consumed, Inside
    <2>5. CASE lex.resume # "escape"
      <3>1. /\ index' = index /\ lex' = [lex EXCEPT !.pc = lex.resume]
            /\ AddErrors(<<Error("INVALID_UTF8", lex.bad, index)>>)
        BY <1>5, <2>5 DEF SkipInvalid, Stay
      <3>2. ContextInv'
        BY <1>1, <1>2, <1>3, <2>1, <2>2, <2>3, <3>1, ErrorAdded
      <3>3. /\ IsLex(lex') /\ lex'.pc = lex.resume /\ lex'.start = lex.start
            /\ lex'.escape = lex.escape /\ lex'.bad = lex.bad
        BY <1>2, <3>1 DEF IsLex
      <3>4. lex.resume # "comment" => lex.start < index
        BY <1>2, <1>3, <2>1 DEF Resumed
      <3>5. /\ lex.resume \in Places \ {"idle", "done", "skip"}
            /\ lex.resume \notin Inside /\ "comment" \notin Consumed
        BY <1>3, <2>5 DEF Resumed, Places, Consumed, Inside
      <3> QED
        BY <1>1, <1>2, <2>2, <3>1, <3>2, <3>3, <3>4, <3>5, Continued
    <2> QED
      BY <2>4, <2>5
  <1> QED
    BY <1>4, <1>5

\* A character is taken.
LEMMA Taken ==
    ASSUME IInv, NEW pc \in {"start", "blank", "comment", "skip"} \cup Consumed, At(pc),
           UNCHANGED parser, UNCHANGED buffer, UNCHANGED token, NoError, IsChar,
           NEW l, IsLex(l), l.pc \in Places \ {"idle", "done", "skip"},
           l.start \in Nat, l.escape \in Nat, l.bad \in Nat,
           l.pc \in Consumed => l.start <= index,
           l.pc \in Inside => l.escape <= index,
           Take(l)
    PROVE  IInv'
  <1>1. lex' = l /\ index' = index + Peek.width /\ input' = input
    BY DEF Take, buffer
  <1>2. /\ Reading /\ ContextInv /\ Len(input) \in Nat /\ index \in 0 .. Len(input)
        /\ input \in Seq(Bytes)
    BY ReadingFacts
  <1>3. Peek.width \in Nat \ {0} /\ index + Peek.width <= Len(input)
    BY <1>2, PeekFacts
  <1>4. index' \in Nat /\ index < index' /\ index <= index' /\ index' <= Len(input)
    BY <1>1, <1>2, <1>3
  <1>5. /\ l.pc \in Consumed => l.start < index'
        /\ l.pc \in Inside => l.escape < index'
    BY <1>1, <1>2, <1>3
  <1>6. ContextInv'
    BY <1>1, <1>2, NoErrorAdded
  <1> QED
    BY <1>1, <1>2, <1>4, <1>5, <1>6, Continued

\* A loop over what is no part of a token is left.
LEMMA Left ==
    ASSUME IInv, NEW pc \in {"start", "blank", "comment", "skip"} \cup Consumed, At(pc),
           UNCHANGED parser, UNCHANGED buffer, UNCHANGED token, NoError,
           NEW l, IsLex(l), l.start \in Nat, l.escape \in Nat, l.bad \in Nat,
           l.pc = "start",
           Stay(l)
    PROVE  IInv'
  <1>1. lex' = l /\ index' = index /\ input' = input
    BY DEF Stay, buffer
  <1>2. /\ Reading /\ ContextInv /\ Len(input) \in Nat /\ index \in 0 .. Len(input)
    BY ReadingFacts
  <1>3. index' \in Nat /\ index <= index' /\ index' <= Len(input)
    BY <1>1, <1>2
  <1>4. ContextInv'
    BY <1>1, <1>2, NoErrorAdded
  <1>5. l.pc \in Places \ {"idle", "done", "skip"} /\ l.pc \notin Consumed
        /\ l.pc \notin Inside
    BY DEF Places, Consumed, Inside
  <1> QED
    BY <1>1, <1>2, <1>3, <1>4, <1>5, Continued

LEMMA BeginKeeps ==
    ASSUME IInv, Begin, UNCHANGED parser
    PROVE  IInv'
  <1> DEFINE l == [lex EXCEPT !.start = index, !.errors = Len(context)]
  <1>1. At("start") /\ UNCHANGED buffer /\ input' = input
    BY DEF Begin, buffer
  <1>2. /\ Reading /\ lex.pc = "start" /\ At(lex.pc) /\ IsLex(lex)
        /\ lex.start \in Nat /\ lex.escape \in Nat /\ lex.bad \in Nat
        /\ index \in Nat /\ Len(input) \in Nat /\ index \in 0 .. Len(input)
        /\ input \in Seq(Bytes) /\ ContextInv
    BY <1>1, ReadingFacts
  <1>3. /\ IsLex(l) /\ l.start = index /\ l.escape = lex.escape /\ l.bad = lex.bad
    <2>1. l = [lex EXCEPT !.start = index, !.errors = Len(context)]
      OBVIOUS
    <2> HIDE DEF l
    <2>2. IsLex(l)
      BY <1>2, <2>1 DEF IsLex
    <2>3. l.start = index /\ l.escape = lex.escape /\ l.bad = lex.bad
      BY <1>2, <2>1 DEF IsLex
    <2> QED
      BY <2>2, <2>3
  <1> HIDE DEF l
  <1>4. CASE /\ Peek = EndOfInput
             /\ UNCHANGED <<index, context>>
             /\ ReturnToken("END", index, Len(context))
    <2>1. AtTheEnd
      BY <1>1, <1>2, <1>4, EndFacts
    <2>2. ContextInv'
      BY <1>1, <1>2, <1>4, NoErrorAdded DEF NoError
    <2>3. "END" \in TokenTypes
      BY DEF TokenTypes
    <2>4. /\ index' \in Nat /\ index <= index' /\ index' <= Len(input) /\ index' = index
      BY <1>2, <1>4
    <2> QED
      BY <1>1, <1>2, <1>4, <2>1, <2>2, <2>3, <2>4, Returned
  <1>5. CASE SkipThen("symbol", [l EXCEPT !.utf8_error = FALSE])
    <2> DEFINE m == [l EXCEPT !.utf8_error = FALSE]
    <2>1. IsLex(m) /\ m.start = index /\ m.escape = lex.escape
      BY <1>3, Flagged
    <2> HIDE DEF m
    <2>2. SkipThen("symbol", m)
      BY <1>5 DEF m
    <2>3. "symbol" \in Resumed
      BY DEF Resumed
    <2> QED
      BY <1>1, <1>2, <2>1, <2>2, <2>3, Skipping
  <1>6. CASE /\ IsChar /\ Peek.c \notin {SingleQuote, LeftParen, RightParen}
             /\ Take(CASE IsWhitespace(Peek.c) -> [l EXCEPT !.pc = "blank"]
                       [] Peek.c = Semicolon -> [l EXCEPT !.pc = "comment"]
                       [] Peek.c = DoubleQuote -> [l EXCEPT !.pc = "string", !.c = Peek.c]
                       [] OTHER -> [l EXCEPT !.pc = "atom",
                                             !.dots = IF Peek.c = Period THEN 1 ELSE 0,
                                             !.numeric = IsNumericStart(Peek.c),
                                             !.digit = IsDigit(Peek.c)])
             /\ NoError /\ UNCHANGED token
    <2> DEFINE m == CASE IsWhitespace(Peek.c) -> [l EXCEPT !.pc = "blank"]
                      [] Peek.c = Semicolon -> [l EXCEPT !.pc = "comment"]
                      [] Peek.c = DoubleQuote -> [l EXCEPT !.pc = "string", !.c = Peek.c]
                      [] OTHER -> [l EXCEPT !.pc = "atom",
                                            !.dots = IF Peek.c = Period THEN 1 ELSE 0,
                                            !.numeric = IsNumericStart(Peek.c),
                                            !.digit = IsDigit(Peek.c)]
    <2>1. m \in {[l EXCEPT !.pc = "blank"], [l EXCEPT !.pc = "comment"],
                 [l EXCEPT !.pc = "string", !.c = Peek.c],
                 [l EXCEPT !.pc = "atom", !.dots = IF Peek.c = Period THEN 1 ELSE 0,
                           !.numeric = IsNumericStart(Peek.c), !.digit = IsDigit(Peek.c)]}
      OBVIOUS
    <2>2. Take(m)
      BY <1>6
    <2> HIDE DEF m
    <2>3. /\ IsLex(m) /\ m.pc \in {"blank", "comment", "string", "atom"}
          /\ m.start = index /\ m.escape = lex.escape /\ m.bad = lex.bad
      BY <1>3, <2>1 DEF IsLex
    <2>4. m.pc \in Places \ {"idle", "done", "skip"} /\ m.pc \notin Inside
      BY <2>3 DEF Places, Consumed, Inside
    <2>5. m.start <= index
      BY <1>2, <2>3
    <2> QED
      BY <1>1, <1>2, <1>6, <2>2, <2>3, <2>4, <2>5, Taken
  <1>7. CASE /\ IsChar /\ Peek.c \in {SingleQuote, LeftParen, RightParen}
             /\ index' = index + 1
             /\ NoError
             /\ ReturnToken(CASE Peek.c = SingleQuote -> "SINGLE_QUOTE"
                              [] Peek.c = LeftParen -> "LEFT_PAREN"
                              [] Peek.c = RightParen -> "RIGHT_PAREN", index, Len(context))
    <2> DEFINE type == CASE Peek.c = SingleQuote -> "SINGLE_QUOTE"
                         [] Peek.c = LeftParen -> "LEFT_PAREN"
                         [] Peek.c = RightParen -> "RIGHT_PAREN"
    <2>1. type \in {"SINGLE_QUOTE", "LEFT_PAREN", "RIGHT_PAREN"}
      BY <1>7 DEF SingleQuote, LeftParen, RightParen
    <2>2. ReturnToken(type, index, Len(context))
      BY <1>7
    <2> HIDE DEF type
    <2>3. type \in TokenTypes /\ type # "END"
      BY <2>1 DEF TokenTypes
    <2>4. index < Len(input)
      BY <1>2, <1>7, PeekFacts
    <2>5. /\ index' \in Nat /\ index <= index' /\ index' <= Len(input) /\ index < index'
      BY <1>2, <1>7, <2>4
    <2>6. ContextInv'
      BY <1>1, <1>2, <1>7, NoErrorAdded
    <2> QED
      BY <1>1, <1>2, <2>2, <2>3, <2>5, <2>6, Returned
  <1> QED
    BY <1>4, <1>5, <1>6, <1>7 DEF Begin, l

LEMMA PeekedFacts ==
    ASSUME IsLex(lex)
    PROVE  /\ IsLex(Peeked) /\ Peeked.start = lex.start /\ Peeked.escape = lex.escape
           /\ IsLex([Peeked EXCEPT !.pc = "start"])
           /\ [Peeked EXCEPT !.pc = "start"].pc = "start"
           /\ [Peeked EXCEPT !.pc = "start"].start = lex.start
           /\ [Peeked EXCEPT !.pc = "start"].escape = lex.escape
           /\ [Peeked EXCEPT !.pc = "start"].bad = lex.bad
  <1>1. PICK flag : Peeked = [lex EXCEPT !.utf8_error = flag]
    <2>1. lex = [lex EXCEPT !.utf8_error = lex.utf8_error]
      BY DEF IsLex
    <2> QED
      BY <2>1 DEF Peeked
  <1>2. IsLex(Peeked)
    BY <1>1 DEF IsLex
  <1>3. Peeked.start = lex.start /\ Peeked.escape = lex.escape /\ Peeked.bad = lex.bad
    BY <1>1 DEF IsLex
  <1> DEFINE m == [Peeked EXCEPT !.pc = "start"]
  <1>4. m = [Peeked EXCEPT !.pc = "start"]
    OBVIOUS
  <1> HIDE DEF m
  <1>5. IsLex(m)
    BY <1>2, <1>4 DEF IsLex
  <1>6. m.pc = "start" /\ m.start = lex.start /\ m.escape = lex.escape /\ m.bad = lex.bad
    BY <1>2, <1>3, <1>4 DEF IsLex
  <1> QED
    BY <1>2, <1>3, <1>5, <1>6 DEF m

LEMMA SkipBlankKeeps ==
    ASSUME IInv, SkipBlank, UNCHANGED parser
    PROVE  IInv'
  <1>1. At("blank") /\ UNCHANGED buffer /\ UNCHANGED token /\ NoError
    BY DEF SkipBlank
  <1>2. /\ lex.pc = "blank" /\ IsLex(lex)
        /\ lex.start \in Nat /\ lex.escape \in Nat /\ lex.bad \in Nat
    BY <1>1, ReadingFacts
  <1>3. CASE IsChar /\ IsWhitespace(Peek.c)
    <2>1. Take(lex)
      BY <1>3 DEF SkipBlank
    <2>2. "blank" \in Places \ {"idle", "done", "skip"} /\ "blank" \notin Consumed
          /\ "blank" \notin Inside
      BY DEF Places, Consumed, Inside
    <2> QED
      BY <1>1, <1>2, <1>3, <2>1, <2>2, Taken
  <1>4. CASE ~(IsChar /\ IsWhitespace(Peek.c))
    <2> DEFINE m == [Peeked EXCEPT !.pc = "start"]
    <2>1. Stay(m)
      BY <1>4 DEF SkipBlank
    <2>2. IsLex(m) /\ m.pc = "start" /\ m.start = lex.start /\ m.escape = lex.escape
          /\ m.bad = lex.bad
      BY <1>2, PeekedFacts
    <2> HIDE DEF m
    <2> QED
      BY <1>1, <1>2, <2>1, <2>2, Left
  <1> QED
    BY <1>3, <1>4

LEMMA SkipCommentKeeps ==
    ASSUME IInv, SkipComment, UNCHANGED parser
    PROVE  IInv'
  <1>1. At("comment") /\ UNCHANGED buffer
    BY DEF SkipComment
  <1>2. /\ lex.pc = "comment" /\ IsLex(lex) /\ Reading /\ At(lex.pc)
        /\ lex.start \in Nat /\ lex.escape \in Nat /\ lex.bad \in Nat
        /\ index \in Nat
    BY <1>1, ReadingFacts
  <1>3. CASE IsChar /\ Take(lex) /\ NoError /\ UNCHANGED token
    <2>1. "comment" \in Places \ {"idle", "done", "skip"} /\ "comment" \notin Consumed
          /\ "comment" \notin Inside
      BY DEF Places, Consumed, Inside
    <2> QED
      BY <1>1, <1>2, <1>3, <2>1, Taken
  <1>4. CASE Stay([Peeked EXCEPT !.pc = "start"]) /\ NoError /\ UNCHANGED token
    <2> DEFINE m == [Peeked EXCEPT !.pc = "start"]
    <2>1. IsLex(m) /\ m.pc = "start" /\ m.start = lex.start /\ m.escape = lex.escape
          /\ m.bad = lex.bad
      BY <1>2, PeekedFacts
    <2> HIDE DEF m
    <2>2. Stay(m)
      BY <1>4 DEF m
    <2> QED
      BY <1>1, <1>2, <1>4, <2>1, <2>2, Left
  <1>5. CASE SkipThen("comment", Peeked)
    <2>1. IsLex(Peeked) /\ Peeked.start = lex.start /\ Peeked.escape = lex.escape
      BY <1>2, PeekedFacts
    <2>2. "comment" \in Resumed
      BY DEF Resumed
    <2> QED
      BY <1>1, <1>2, <1>5, <2>1, <2>2, Skipping
  <1> QED
    BY <1>3, <1>4, <1>5 DEF SkipComment

\* A symbol or a number ends where the lexer is, and is not empty.
LEMMA AtomReturned ==
    ASSUME IInv, NEW pc \in {"symbol", "atom"}, At(pc), UNCHANGED parser, UNCHANGED buffer,
           UNCHANGED <<index, context>>,
           NEW type \in {"SYMBOL", "NUMBER"},
           ReturnToken(type, lex.start, lex.errors)
    PROVE  IInv'
  <1>1. pc \in Consumed
    BY DEF Consumed
  <1>2. /\ Reading /\ lex.start \in Nat /\ lex.start < index /\ ContextInv
        /\ index \in Nat /\ Len(input) \in Nat /\ index <= Len(input)
    BY <1>1, ReadingFacts
  <1>3. index' = index /\ context' = context /\ input' = input
    BY DEF buffer
  <1>4. ContextInv'
    BY <1>2, <1>3, ContextUnchanged
  <1>5. type \in TokenTypes /\ type # "END"
    BY DEF TokenTypes
  <1>6. index' \in Nat /\ index <= index' /\ index' <= Len(input) /\ lex.start < index'
        /\ lex.start <= index'
    BY <1>2, <1>3
  <1> QED
    BY <1>2, <1>4, <1>5, <1>6, Returned

LEMMA LexSymbolKeeps ==
    ASSUME IInv, LexSymbol, UNCHANGED parser
    PROVE  IInv'
  <1>1. At("symbol") /\ UNCHANGED buffer /\ "symbol" \in Consumed /\ "symbol" \notin Inside
        /\ "symbol" \in Places \ {"idle", "done", "skip"} /\ "symbol" \in Resumed
    BY DEF LexSymbol, Consumed, Inside, Places, Resumed
  <1>2. /\ lex.pc = "symbol" /\ IsLex(lex) /\ Reading /\ At(lex.pc)
        /\ lex.start \in Nat /\ lex.escape \in Nat /\ lex.bad \in Nat
        /\ index \in Nat /\ lex.start < index /\ lex.start <= index
    BY <1>1, ReadingFacts
  <1>3. CASE IsChar /\ Take(lex) /\ NoError /\ UNCHANGED token
    BY <1>1, <1>2, <1>3, Taken
  <1>4. CASE UNCHANGED <<index, context>> /\ ReturnToken("SYMBOL", lex.start, lex.errors)
    BY <1>1, <1>2, <1>4, AtomReturned
  <1>5. CASE SkipThen("symbol", lex)
    BY <1>1, <1>2, <1>5, Skipping
  <1> QED
    BY <1>3, <1>4, <1>5 DEF LexSymbol

LEMMA LexAtomKeeps ==
    ASSUME IInv, LexAtom, UNCHANGED parser
    PROVE  IInv'
  <1>1. At("atom") /\ UNCHANGED buffer /\ "atom" \in Consumed /\ "atom" \notin Inside
        /\ "atom" \in Places \ {"idle", "done", "skip"} /\ "atom" \in Resumed
        /\ "escape" # "atom"
    BY DEF LexAtom, Consumed, Inside, Places, Resumed
  <1>2. /\ lex.pc = "atom" /\ IsLex(lex) /\ Reading /\ At(lex.pc)
        /\ lex.start \in Nat /\ lex.escape \in Nat /\ lex.bad \in Nat
        /\ index \in Nat /\ lex.start < index /\ lex.start <= index
    BY <1>1, ReadingFacts
  <1>3. CASE IsChar /\ Take(Counted(lex, Peek.c)) /\ NoError /\ UNCHANGED token
    <2> DEFINE m == Counted(lex, Peek.c)
    <2>1. m = [lex EXCEPT !.dots = @ + (IF Peek.c = Period THEN 1 ELSE 0),
                          !.numeric = @ /\ IsNumericContinue(Peek.c),
                          !.digit = @ \/ IsDigit(Peek.c)]
      BY DEF Counted
    <2> HIDE DEF m
    <2>2. IsLex(m)
      BY <1>2, <2>1 DEF IsLex
    <2>3. m.pc = "atom" /\ m.start = lex.start /\ m.escape = lex.escape /\ m.bad = lex.bad
      BY <1>2, <2>1 DEF IsLex
    <2>4. Take(m)
      BY <1>3 DEF m
    <2> QED
      BY <1>1, <1>2, <1>3, <2>2, <2>3, <2>4, Taken
  <1>4. CASE /\ UNCHANGED <<index, context>>
             /\ ReturnToken(IF lex.numeric /\ lex.dots <= 1 /\ lex.digit
                            THEN "NUMBER" ELSE "SYMBOL", lex.start, lex.errors)
    <2> DEFINE type == IF lex.numeric /\ lex.dots <= 1 /\ lex.digit
                       THEN "NUMBER" ELSE "SYMBOL"
    <2>1. type \in {"SYMBOL", "NUMBER"}
      OBVIOUS
    <2>2. ReturnToken(type, lex.start, lex.errors)
      BY <1>4
    <2> HIDE DEF type
    <2> QED
      BY <1>1, <1>2, <1>4, <2>1, <2>2, AtomReturned
  <1>5. CASE SkipThen("atom", [lex EXCEPT !.numeric = FALSE])
    <2> DEFINE m == [lex EXCEPT !.numeric = FALSE]
    <2>1. m = [lex EXCEPT !.numeric = FALSE]
      OBVIOUS
    <2> HIDE DEF m
    <2>2. IsLex(m)
      BY <1>2, <2>1 DEF IsLex
    <2>3. m.start = lex.start /\ m.escape = lex.escape
      BY <1>2, <2>1 DEF IsLex
    <2>4. SkipThen("atom", m)
      BY <1>5 DEF m
    <2> QED
      BY <1>1, <1>2, <2>2, <2>3, <2>4, Skipping
  <1> QED
    BY <1>3, <1>4, <1>5 DEF LexAtom

LEMMA StringReturned ==
    ASSUME IInv, NEW pc \in {"string", "suffix"}, At(pc), UNCHANGED parser, UNCHANGED buffer,
           UNCHANGED index, ContextInv', ReturnToken("STRING", lex.start, lex.errors)
    PROVE  IInv'
  <1>1. pc \in Consumed
    BY DEF Consumed
  <1>2. /\ Reading /\ lex.start \in Nat /\ lex.start < index
        /\ index \in Nat /\ Len(input) \in Nat /\ index <= Len(input)
    BY <1>1, ReadingFacts
  <1>3. index' \in Nat /\ index <= index' /\ index' <= Len(input) /\ lex.start < index'
        /\ lex.start <= index'
    BY <1>2
  <1>4. "STRING" \in TokenTypes
    BY DEF TokenTypes
  <1> QED
    BY <1>2, <1>3, <1>4, Returned

LEMMA LexStringKeeps ==
    ASSUME IInv, LexString, UNCHANGED parser
    PROVE  IInv'
  <1>1. At("string") /\ UNCHANGED buffer /\ "string" \in Consumed
        /\ {"string", "suffix"} \subseteq Resumed
    BY DEF LexString, Consumed, Resumed
  <1>2. /\ lex.pc = "string" /\ IsLex(lex) /\ Reading /\ At(lex.pc)
        /\ lex.start \in Nat /\ lex.escape \in Nat /\ lex.bad \in Nat
        /\ index \in Nat /\ lex.start < index /\ lex.start <= index /\ index <= index
        /\ index \in 0 .. Len(input) /\ input \in Seq(Bytes)
        /\ Len(input) \in Nat /\ index <= Len(input) /\ ContextInv
    BY <1>1, ReadingFacts
  <1>3. CASE /\ IsChar
             /\ Take(CASE Peek.c = Backslash ->
                            [lex EXCEPT !.pc = "escape", !.c = Peek.c, !.escape = index]
                       [] Peek.c = DoubleQuote -> [lex EXCEPT !.pc = "suffix", !.c = Peek.c]
                       [] OTHER -> [lex EXCEPT !.c = Peek.c])
             /\ NoError /\ UNCHANGED token
    <2> DEFINE m == CASE Peek.c = Backslash ->
                           [lex EXCEPT !.pc = "escape", !.c = Peek.c, !.escape = index]
                      [] Peek.c = DoubleQuote -> [lex EXCEPT !.pc = "suffix", !.c = Peek.c]
                      [] OTHER -> [lex EXCEPT !.c = Peek.c]
    <2>1. \/ m = [lex EXCEPT !.pc = "escape", !.c = Peek.c, !.escape = index]
          \/ m = [lex EXCEPT !.pc = "suffix", !.c = Peek.c]
          \/ m = [lex EXCEPT !.c = Peek.c]
      OBVIOUS
    <2>2. Take(m)
      BY <1>3
    <2> HIDE DEF m
    <2>3. IsLex(m)
      BY <1>2, <2>1 DEF IsLex
    <2>4. m.pc \in {"escape", "suffix", "string"} /\ m.start = lex.start /\ m.bad = lex.bad
          /\ (m.escape = index \/ (m.escape = lex.escape /\ m.pc # "escape"))
      BY <1>2, <2>1 DEF IsLex
    <2>5. /\ m.pc \in Places \ {"idle", "done", "skip"}
          /\ m.pc # "escape" => m.pc \notin Inside
      BY <2>4 DEF Places, Consumed, Inside
    <2>6. m.start \in Nat /\ m.escape \in Nat /\ m.bad \in Nat /\ m.start <= index
          /\ (m.pc \in Inside => m.escape <= index)
      BY <1>2, <2>4, <2>5
    <2> QED
      BY <1>1, <1>3, <2>2, <2>3, <2>5, <2>6, Taken
  <1>4. CASE SkipThen(IF lex.c = DoubleQuote THEN "suffix" ELSE "string", lex)
    <2> DEFINE resume == IF lex.c = DoubleQuote THEN "suffix" ELSE "string"
    <2>1. resume \in {"suffix", "string"}
      OBVIOUS
    <2>2. SkipThen(resume, lex)
      BY <1>4
    <2> HIDE DEF resume
    <2>3. resume \in Resumed /\ resume # "escape"
      BY <1>1, <2>1
    <2> QED
      BY <1>1, <1>2, <2>2, <2>3, Skipping
  <1>5. CASE /\ Peek = EndOfInput
             /\ UNCHANGED index
             /\ AddErrors(<<Error("UNTERMINATED_STRING", lex.start, index)>>)
             /\ ReturnToken("STRING", lex.start, lex.errors)
    <2>1. "UNTERMINATED_STRING" \in ErrorTypes /\ input' = input
      BY <1>1 DEF ErrorTypes, buffer
    <2>2. ContextInv'
      BY <1>2, <1>5, <2>1, ErrorAdded
    <2> QED
      BY <1>1, <1>2, <1>5, <2>2, StringReturned
  <1> QED
    BY <1>3, <1>4, <1>5 DEF LexString

LEMMA LexSuffixKeeps ==
    ASSUME IInv, LexSuffix, UNCHANGED parser
    PROVE  IInv'
  <1>1. /\ At("suffix") /\ UNCHANGED buffer /\ input' = input /\ "suffix" \in Consumed
        /\ UNCHANGED index /\ ReturnToken("STRING", lex.start, lex.errors)
        /\ \/ AddErrors(<<>>)
           \/ AddErrors(<<Error("INVALID_SUFFIX", lex.start, index)>>)
    BY DEF LexSuffix, Consumed, buffer
  <1>2. /\ lex.start \in Nat /\ index \in Nat /\ lex.start < index /\ index <= Len(input)
        /\ Len(input) \in Nat /\ ContextInv
    BY <1>1, ReadingFacts
  <1>3. "INVALID_SUFFIX" \in ErrorTypes
    BY DEF ErrorTypes
  <1>4. ContextInv'
    BY <1>1, <1>2, <1>3, NoErrorAdded, ErrorAdded
  <1> QED
    BY <1>1, <1>4, StringReturned

-----------------------------------------------------------------------------
(***************************************************************************)
(* Escapes.                                                                *)
(***************************************************************************)
\* lexer_handle_escape returns: an error ends where bytes have been read.
LEMMA EscapedKeeps ==
    ASSUME IInv, NEW pc \in Inside, At(pc), UNCHANGED parser, UNCHANGED buffer,
           index' \in Nat, index <= index', index' <= Len(input),
           NEW to \in Nat, index <= to, to <= Len(input),
           Escaped(<<>>) \/ Escaped(InvalidEscape(to))
    PROVE  IInv'
  <1>1. pc \in Consumed /\ UNCHANGED token /\ input' = input
        /\ lex' = [lex EXCEPT !.pc = "string"]
    BY DEF Consumed, Escaped, buffer
  <1>2. /\ Reading /\ IsLex(lex)
        /\ lex.start \in Nat /\ lex.escape \in Nat /\ lex.bad \in Nat
        /\ index \in Nat /\ lex.start < index /\ lex.escape < index
        /\ Len(input) \in Nat /\ ContextInv
    BY <1>1, ReadingFacts
  <1>3. IsLex(lex') /\ lex'.pc = "string" /\ lex'.start = lex.start
        /\ lex'.escape = lex.escape /\ lex'.bad = lex.bad
    BY <1>1, <1>2 DEF IsLex
  <1>4. ContextInv'
    <2>1. CASE Escaped(<<>>)
      BY <1>1, <1>2, <2>1, NoErrorAdded DEF Escaped
    <2>2. CASE Escaped(InvalidEscape(to))
      <3>1. AddErrors(<<Error("INVALID_ESCAPE", lex.escape, to)>>)
        BY <2>2 DEF Escaped, InvalidEscape
      <3>2. "INVALID_ESCAPE" \in ErrorTypes /\ lex.escape < to
        BY <1>2 DEF ErrorTypes
      <3> QED
        BY <1>1, <1>2, <3>1, <3>2, ErrorAdded
    <2> QED
      BY <2>1, <2>2
  <1>5. "string" \in Places \ {"idle", "done", "skip"} /\ "string" \notin Inside
    BY DEF Places, Consumed, Inside
  <1>6. lex.start < index'
    BY <1>2
  <1> QED
    BY <1>1, <1>2, <1>3, <1>4, <1>5, <1>6, Continued

LEMMA PeekErrorKeeps ==
    ASSUME IInv, NEW pc \in Inside, At(pc), UNCHANGED parser, UNCHANGED buffer, PeekError
    PROVE  IInv'
  <1>1. pc \in Consumed /\ "escape" \in Resumed
    BY DEF Consumed, Resumed
  <1>2. /\ Reading /\ IsLex(lex) /\ lex.start \in Nat /\ lex.escape \in Nat
        /\ index \in Nat /\ lex.start < index /\ lex.escape < index /\ At(lex.pc)
        /\ index \in 0 .. Len(input) /\ Len(input) \in Nat
    BY <1>1, ReadingFacts
  <1>3. CASE SkipThen("escape", lex)
    BY <1>1, <1>2, <1>3, Skipping
  <1>4. CASE index' = index /\ Escaped(InvalidEscape(index))
    <2>1. index <= index /\ index <= Len(input)
      BY <1>2
    <2> QED
      BY <1>2, <1>4, <2>1, EscapedKeeps
  <1> QED
    BY <1>3, <1>4 DEF PeekError

\* The wrong character is still to be read, but it is there: the error may cover it.
LEMMA WrongCharKeeps ==
    ASSUME IInv, NEW pc \in Inside, At(pc), UNCHANGED parser, UNCHANGED buffer,
           IsChar, WrongChar
    PROVE  IInv'
  <1>1. /\ index \in Nat /\ index \in 0 .. Len(input) /\ input \in Seq(Bytes)
        /\ Len(input) \in Nat
    BY ReadingFacts DEF Consumed
  <1>2. index < Len(input)
    BY <1>1, PeekFacts
  <1>3. index' = index /\ Escaped(InvalidEscape(index + 1))
    BY DEF WrongChar
  <1>4. index + 1 \in Nat /\ index <= index + 1 /\ index + 1 <= Len(input) /\ index <= index
        /\ index <= Len(input)
    BY <1>1, <1>2
  <1> QED
    BY <1>1, <1>3, <1>4, EscapedKeeps

\* What the steps inside an escape start from.
LEMMA InsideFacts ==
    ASSUME IInv, NEW pc \in Inside, At(pc)
    PROVE  /\ lex.pc = pc /\ IsLex(lex)
           /\ lex.start \in Nat /\ lex.escape \in Nat /\ lex.bad \in Nat
           /\ lex.start <= index /\ lex.escape <= index
           /\ index \in Nat /\ Len(input) \in Nat /\ index <= Len(input)
           /\ IsChar => /\ index + 1 \in Nat /\ index + 1 <= Len(input)
                        /\ index + Peek.width \in Nat /\ index <= index + Peek.width
                        /\ index + Peek.width <= Len(input)
           /\ \A q \in Inside \cup {"string"} : q \in Places \ {"idle", "done", "skip"}
           /\ "string" \notin Inside
           /\ pc \in {"start", "blank", "comment", "skip"} \cup Consumed
  <1>1. pc \in Consumed
    BY DEF Consumed
  <1>2. /\ lex.pc = pc /\ IsLex(lex)
        /\ lex.start \in Nat /\ lex.escape \in Nat /\ lex.bad \in Nat
        /\ index \in Nat /\ Len(input) \in Nat /\ index \in 0 .. Len(input)
        /\ input \in Seq(Bytes) /\ lex.start < index /\ lex.escape < index
    BY <1>1, ReadingFacts
  <1>3. IsChar => index < Len(input) /\ Peek.width \in Nat \ {0}
                  /\ index + Peek.width <= Len(input)
    BY <1>2, PeekFacts
  <1>4. IsChar => /\ index + 1 \in Nat /\ index + 1 <= Len(input)
                  /\ index + Peek.width \in Nat /\ index <= index + Peek.width
    BY <1>2, <1>3
  <1>5. /\ \A q \in Inside \cup {"string"} : q \in Places \ {"idle", "done", "skip"}
        /\ "string" \notin Inside
    BY DEF Places, Consumed, Inside
  <1> QED
    BY <1>1, <1>2, <1>3, <1>4, <1>5

LEMMA LexEscapeKeeps ==
    ASSUME IInv, LexEscape, UNCHANGED parser
    PROVE  IInv'
  <1>1. At("escape") /\ UNCHANGED buffer /\ "escape" \in Inside
    BY DEF LexEscape, Inside
  <1>2. CASE /\ IsChar
             /\ Take([lex EXCEPT !.pc = IF Peek.c = 117 THEN "unicode" ELSE "hex",
                                 !.val = 0, !.digits = 0])
             /\ NoError /\ UNCHANGED token
    <2> DEFINE m == [lex EXCEPT !.pc = IF Peek.c = 117 THEN "unicode" ELSE "hex",
                                !.val = 0, !.digits = 0]
    <2>1. m = [lex EXCEPT !.pc = IF Peek.c = 117 THEN "unicode" ELSE "hex",
                          !.val = 0, !.digits = 0]
      OBVIOUS
    <2>2. Take(m)
      BY <1>2
    <2> HIDE DEF m
    <2>3. IsLex(lex) /\ lex.start \in Nat /\ lex.escape \in Nat /\ lex.bad \in Nat
      BY <1>1, InsideFacts
    <2>4. IsLex(m)
      BY <2>1, <2>3 DEF IsLex
    <2>5. m.pc \in {"unicode", "hex"} /\ m.start = lex.start /\ m.escape = lex.escape
          /\ m.bad = lex.bad
      BY <2>1, <2>3 DEF IsLex
    <2>6. m.pc \in Inside
      BY <2>5 DEF Inside
    <2> QED
      BY <1>1, <1>2, <2>2, <2>4, <2>5, <2>6, InsideFacts, Taken
  <1>3. CASE /\ IsChar
             /\ index' = index + Peek.width
             /\ Escaped(IF Peek.c \in Simple THEN <<>> ELSE InvalidEscape(index'))
    <2>1. Escaped(<<>>) \/ Escaped(InvalidEscape(index + Peek.width))
      BY <1>3
    <2> QED
      BY <1>1, <1>3, <2>1, InsideFacts, EscapedKeeps
  <1>4. CASE PeekError
    BY <1>1, <1>4, PeekErrorKeeps
  <1> QED
    BY <1>2, <1>3, <1>4 DEF LexEscape

LEMMA LexUnicodeKeeps ==
    ASSUME IInv, LexUnicode, UNCHANGED parser
    PROVE  IInv'
  <1>1. At("unicode") /\ UNCHANGED buffer /\ "unicode" \in Inside
    BY DEF LexUnicode, Inside
  <1>2. CASE IsChar /\ Take([lex EXCEPT !.pc = "digits"]) /\ NoError /\ UNCHANGED token
    <2> DEFINE m == [lex EXCEPT !.pc = "digits"]
    <2>1. m = [lex EXCEPT !.pc = "digits"]
      OBVIOUS
    <2>2. Take(m)
      BY <1>2
    <2> HIDE DEF m
    <2>3. IsLex(lex) /\ lex.start \in Nat /\ lex.escape \in Nat /\ lex.bad \in Nat
      BY <1>1, InsideFacts
    <2>4. IsLex(m)
      BY <2>1, <2>3 DEF IsLex
    <2>5. m.pc = "digits" /\ m.start = lex.start /\ m.escape = lex.escape
          /\ m.bad = lex.bad
      BY <2>1, <2>3 DEF IsLex
    <2>6. m.pc \in Inside
      BY <2>5 DEF Inside
    <2> QED
      BY <1>1, <1>2, <2>2, <2>4, <2>5, <2>6, InsideFacts, Taken
  <1>3. CASE IsChar /\ WrongChar
    BY <1>1, <1>3, WrongCharKeeps
  <1>4. CASE PeekError
    BY <1>1, <1>4, PeekErrorKeeps
  <1> QED
    BY <1>2, <1>3, <1>4 DEF LexUnicode

LEMMA LexDigitsKeeps ==
    ASSUME IInv, LexDigits, UNCHANGED parser
    PROVE  IInv'
  <1>1. At("digits") /\ UNCHANGED buffer /\ "digits" \in Inside
    BY DEF LexDigits, Inside
  <1>2. CASE /\ IsChar
             /\ Take([lex EXCEPT !.digits = (@ + 1) % DigitsMod,
                                 !.val = (@ * 16 + HexValue(Peek.c)) % WordMod])
             /\ NoError /\ UNCHANGED token
    <2> DEFINE m == [lex EXCEPT !.digits = (@ + 1) % DigitsMod,
                                !.val = (@ * 16 + HexValue(Peek.c)) % WordMod]
    <2>1. \E d, v : m = [lex EXCEPT !.digits = d, !.val = v]
      OBVIOUS
    <2>2. Take(m)
      BY <1>2
    <2> HIDE DEF m
    <2>3. /\ IsLex(lex) /\ lex.pc = "digits"
          /\ lex.start \in Nat /\ lex.escape \in Nat /\ lex.bad \in Nat
      BY <1>1, InsideFacts
    <2>4. IsLex(m)
      BY <2>1, <2>3 DEF IsLex
    <2>5. m.pc = "digits" /\ m.start = lex.start /\ m.escape = lex.escape
          /\ m.bad = lex.bad
      BY <2>1, <2>3 DEF IsLex
    <2> QED
      BY <1>1, <1>2, <2>2, <2>4, <2>5, InsideFacts, Taken
  <1>3. CASE /\ IsChar
             /\ index' = index + 1
             /\ Escaped(IF Fits(lex.digits, lex.val) THEN <<>> ELSE InvalidEscape(index'))
    <2>1. Escaped(<<>>) \/ Escaped(InvalidEscape(index + 1))
      BY <1>3
    <2>2. index <= index + 1
      BY <1>1, InsideFacts
    <2> QED
      BY <1>1, <1>3, <2>1, <2>2, InsideFacts, EscapedKeeps
  <1>4. CASE IsChar /\ WrongChar
    BY <1>1, <1>4, WrongCharKeeps
  <1>5. CASE PeekError
    BY <1>1, <1>5, PeekErrorKeeps
  <1> QED
    BY <1>2, <1>3, <1>4, <1>5 DEF LexDigits

LEMMA LexHexKeeps ==
    ASSUME IInv, LexHex, UNCHANGED parser
    PROVE  IInv'
  <1>1. At("hex") /\ UNCHANGED buffer /\ "hex" \in Inside
    BY DEF LexHex, Inside
  <1>2. CASE /\ IsChar
             /\ Take([lex EXCEPT !.digits = @ + 1,
                                 !.pc = IF lex.digits = 1 THEN "string" ELSE "hex"])
             /\ NoError /\ UNCHANGED token
    <2> DEFINE m == [lex EXCEPT !.digits = @ + 1,
                                !.pc = IF lex.digits = 1 THEN "string" ELSE "hex"]
    <2>1. \E d : m = [lex EXCEPT !.digits = d,
                                 !.pc = IF lex.digits = 1 THEN "string" ELSE "hex"]
      OBVIOUS
    <2>2. Take(m)
      BY <1>2
    <2> HIDE DEF m
    <2>3. IsLex(lex) /\ lex.start \in Nat /\ lex.escape \in Nat /\ lex.bad \in Nat
      BY <1>1, InsideFacts
    <2>4. IsLex(m)
      BY <2>1, <2>3 DEF IsLex
    <2>5. m.pc \in {"string", "hex"} /\ m.start = lex.start /\ m.escape = lex.escape
          /\ m.bad = lex.bad
      BY <2>1, <2>3 DEF IsLex
    <2> QED
      BY <1>1, <1>2, <2>2, <2>4, <2>5, InsideFacts, Taken
  <1>3. CASE IsChar /\ WrongChar
    BY <1>1, <1>3, WrongCharKeeps
  <1>4. CASE PeekError
    BY <1>1, <1>4, PeekErrorKeeps
  <1> QED
    BY <1>2, <1>3, <1>4 DEF LexHex

LEMMA LexerStepKeeps ==
    ASSUME IInv, LexerStep, UNCHANGED parser
    PROVE  IInv'
  BY GetInputKeeps, GrowFailsKeeps, SkipInvalidKeeps, AssertionFailsKeeps, BeginKeeps,
     SkipBlankKeeps, SkipCommentKeeps, LexSymbolKeeps, LexAtomKeeps, LexStringKeeps,
     LexSuffixKeeps, LexEscapeKeeps, LexUnicodeKeeps, LexDigitsKeeps, LexHexKeeps
     DEF LexerStep

-----------------------------------------------------------------------------
(***************************************************************************)
(* The parser's stack, and the variables that are rooted for it.           *)
(***************************************************************************)
\* Another item leaves the rest of an activation as it was.
LEMMA StackUpdated ==
    ASSUME NEW s, IsStack(s), s # <<>>, NEW x,
           s[1] = [k |-> s[1].k, start |-> s[1].start, items |-> s[1].items]
    PROVE  /\ IsStack([s EXCEPT ![1].items = x]) /\ Len([s EXCEPT ![1].items = x]) = Len(s)
           /\ [s EXCEPT ![1].items = x][1]
                = [k |-> s[1].k, start |-> s[1].start, items |-> x]
           /\ \A i \in 1 .. Len(s) : i # 1 => [s EXCEPT ![1].items = x][i] = s[i]
  <1> DEFINE t == [s EXCEPT ![1].items = x]
             S == {s[i] : i \in DOMAIN s} \cup {t[1]}
  <1>1. Len(s) \in Nat /\ DOMAIN s = 1 .. Len(s) /\ 1 \in DOMAIN s
    BY StackFacts
  <1>2. /\ t[1] = [s[1] EXCEPT !.items = x]
        /\ DOMAIN t = 1 .. Len(s) /\ t = [i \in 1 .. Len(s) |-> t[i]]
        /\ \A i \in 1 .. Len(s) : i # 1 => t[i] = s[i]
    BY <1>1, StackFacts
  <1> HIDE DEF t
  <1>3. t[1] = [k |-> s[1].k, start |-> s[1].start, items |-> x]
    BY <1>2
  <1>4. \A i \in 1 .. Len(s) : t[i] \in S
    BY <1>1, <1>2
  <1> HIDE DEF S
  <1>5. t \in Seq(S) /\ Len(t) = Len(s)
    BY <1>1, <1>2, <1>4, FunctionIsSeq
  <1>6. IsStack(t)
    BY <1>5, IsStackFacts
  <1> QED
    BY <1>2, <1>3, <1>5, <1>6 DEF t

\* What an activation at some depth has rooted, and what a stack has.
Rooted(depth, k, a) ==
    IF k = "list" THEN Locals(depth, {"base", "current"})
    ELSE IF a = "wrap" THEN Locals(depth, {"cons_quoted"}) ELSE {}

HeldBy(s, a) ==
    UNION {Rooted(Len(s) - i + 1, s[i].k, IF i = 1 THEN a ELSE "return") : i \in DOMAIN s}

Current(a) == IF a \in {"drive", "end"} THEN {} ELSE Locals(0, {"context"})

LEMMA RootsFacts ==
    /\ RootsAreLive <=> roots = HeldBy(stack, at) \cup Current(at)
    /\ RootsAreLive' <=> roots' = HeldBy(stack', at') \cup Current(at')
  <1>1. \A i : LocalsOf(i) = Rooted(Len(stack) - i + 1, stack[i].k,
                                    IF i = 1 THEN at ELSE "return")
    BY DEF LocalsOf, Rooted
  <1>2. \A i : LocalsOf(i)' = Rooted(Len(stack') - i + 1, stack'[i].k,
                                     IF i = 1 THEN at' ELSE "return")
    BY DEF LocalsOf, Rooted
  <1>3. RootsAreLive <=> roots = (UNION {LocalsOf(i) : i \in DOMAIN stack}) \cup Current(at)
    BY DEF RootsAreLive, Current
  <1>4. RootsAreLive'
          <=> roots' = (UNION {LocalsOf(i)' : i \in DOMAIN stack'}) \cup Current(at')
    BY DEF RootsAreLive, Current
  <1>5. UNION {LocalsOf(i) : i \in DOMAIN stack} = HeldBy(stack, at)
    BY <1>1 DEF HeldBy
  <1>6. UNION {LocalsOf(i)' : i \in DOMAIN stack'} = HeldBy(stack', at')
    BY <1>2 DEF HeldBy
  <1> QED
    BY <1>3, <1>4, <1>5, <1>6

LEMMA HeldByNone ==
    ASSUME NEW a
    PROVE  HeldBy(<<>>, a) = {}
  BY DEF HeldBy

\* An activation's variables come on top of those of the ones below it, and are others.
LEMMA HeldByMore ==
    ASSUME NEW s, IsStack(s), NEW t, IsStack(t), Len(t) = Len(s) + 1,
           \A i \in 1 .. Len(s) : t[i + 1] = s[i],
           NEW a, a # "wrap", NEW b
    PROVE  /\ HeldBy(t, b) = Rooted(Len(t), t[1].k, b) \cup HeldBy(s, a)
           /\ Rooted(Len(t), t[1].k, b)
                \cap (HeldBy(s, a) \cup Locals(0, {"context"})) = {}
  <1> DEFINE H(i) == Rooted(Len(t) - i + 1, t[i].k, IF i = 1 THEN b ELSE "return")
             L(i) == Rooted(Len(s) - i + 1, s[i].k, IF i = 1 THEN a ELSE "return")
  <1>1. Len(s) \in Nat /\ DOMAIN s = 1 .. Len(s) /\ DOMAIN t = 1 .. Len(s) + 1
    BY StackFacts
  <1>2. H(1) = Rooted(Len(t), t[1].k, b)
    BY <1>1
  <1>3. \A i \in 1 .. Len(s) : H(i + 1) = L(i)
    <2> TAKE i \in 1 .. Len(s)
    <2>1. i + 1 # 1 /\ Len(t) - (i + 1) + 1 = Len(s) - i + 1 /\ t[i + 1] = s[i]
      BY <1>1
    <2>2. H(i + 1) = Rooted(Len(s) - i + 1, s[i].k, "return")
      BY <2>1
    <2>3. L(i) = Rooted(Len(s) - i + 1, s[i].k, "return")
      BY DEF Rooted
    <2> QED
      BY <2>2, <2>3
  <1>4. HeldBy(t, b) = UNION {H(i) : i \in DOMAIN t}
        /\ HeldBy(s, a) = UNION {L(i) : i \in DOMAIN s}
    BY DEF HeldBy
  <1>5. \A d, k, w, x : x \in Rooted(d, k, w) => \E n : x = <<d, n>>
    BY DEF Rooted, Locals
  <1>6. \A i \in 1 .. Len(s) : \A x : x \in L(i) =>
          \E d, n : x = <<d, n>> /\ d # Len(t)
    <2> TAKE i \in 1 .. Len(s)
    <2> TAKE x
    <2>1. Len(s) - i + 1 # Len(t)
      BY <1>1
    <2> QED
      BY <1>5, <2>1
  <1> HIDE DEF H, L
  <1>7. \A i \in DOMAIN t : i = 1 \/ \E j \in 1 .. Len(s) : i = j + 1
    <2> TAKE i \in DOMAIN t
    <2>1. i = 1 \/ (i - 1 \in 1 .. Len(s) /\ i = (i - 1) + 1)
      BY <1>1
    <2> QED
      BY <2>1
  <1>8. 1 \in DOMAIN t /\ \A i \in 1 .. Len(s) : i + 1 \in DOMAIN t
    BY <1>1
  <1>9. UNION {H(i) : i \in DOMAIN t} = H(1) \cup UNION {L(i) : i \in DOMAIN s}
    <2>1. ASSUME NEW x \in UNION {H(i) : i \in DOMAIN t}
          PROVE  x \in H(1) \cup UNION {L(i) : i \in DOMAIN s}
      BY <1>1, <1>3, <1>7, <2>1
    <2>2. ASSUME NEW x \in H(1) \cup UNION {L(i) : i \in DOMAIN s}
          PROVE  x \in UNION {H(i) : i \in DOMAIN t}
      BY <1>1, <1>3, <1>8, <2>2
    <2> QED
      BY <2>1, <2>2
  <1>10. \A x \in Rooted(Len(t), t[1].k, b) :
             x \notin UNION {L(i) : i \in DOMAIN s} /\ x \notin Locals(0, {"context"})
    <2> TAKE x \in Rooted(Len(t), t[1].k, b)
    <2>1. PICK n : x = <<Len(t), n>>
      BY <1>5
    <2>2. Len(t) # 0
      BY <1>1
    <2> QED
      BY <1>1, <1>6, <2>1, <2>2 DEF Locals
  <1> QED
    BY <1>2, <1>4, <1>9, <1>10

LEMMA HeldBySame ==
    ASSUME NEW s, NEW a, a # "wrap", NEW b, b # "wrap"
    PROVE  HeldBy(s, b) = HeldBy(s, a)
  <1> DEFINE A(i) == Rooted(Len(s) - i + 1, s[i].k, IF i = 1 THEN a ELSE "return")
             B(i) == Rooted(Len(s) - i + 1, s[i].k, IF i = 1 THEN b ELSE "return")
  <1>1. \A i : A(i) = B(i)
    BY DEF Rooted
  <1>2. HeldBy(s, a) = UNION {A(i) : i \in DOMAIN s}
        /\ HeldBy(s, b) = UNION {B(i) : i \in DOMAIN s}
    BY DEF HeldBy
  <1> HIDE DEF A, B
  <1> QED
    BY <1>1, <1>2

\* A function is entered, or left, or keeps what another has returned.
IsEntry(e, n) ==
    /\ e = [k |-> e.k, start |-> e.start, items |-> e.items]
    /\ e.k \in {"list", "quote"} /\ e.start \in Nat /\ e.start < n

IsPushed(t, s, e) == t = <<e>> \o s

HasNewItems(t, s) == \E x : t = [s EXCEPT ![1].items = x]

LEMMA Entered ==
    ASSUME NEW n \in Nat, NEW s, StackBefore(s, n), NEW e, IsEntry(e, n),
           NEW t, IsPushed(t, s, e), NEW a, a # "wrap", NEW b
    PROVE  /\ StackBefore(t, n) /\ t # <<>> /\ t[1] = e
           /\ HeldBy(t, b) = Rooted(Len(t), e.k, b) \cup HeldBy(s, a)
  <1>0. /\ e = [k |-> e.k, start |-> e.start, items |-> e.items]
        /\ e.k \in {"list", "quote"} /\ e.start \in Nat /\ e.start < n
    BY DEF IsEntry
  <1>1. IsStack(s)
    BY DEF StackBefore
  <1>2. /\ IsStack(t) /\ Len(t) = Len(s) + 1 /\ t[1] = e
        /\ \A i \in 1 .. Len(s) : t[i + 1] = s[i]
    BY <1>0, <1>1, StackPushed DEF IsPushed
  <1>3. Len(s) \in Nat /\ DOMAIN s = 1 .. Len(s) /\ DOMAIN t = 1 .. Len(s) + 1 /\ t # <<>>
    BY <1>1, <1>2, StackFacts
  <1>4. \A i \in DOMAIN t :
          /\ t[i] = [k |-> t[i].k, start |-> t[i].start, items |-> t[i].items]
          /\ t[i].k \in {"list", "quote"}
          /\ t[i].start \in Nat /\ t[i].start < n
    <2> TAKE i \in DOMAIN t
    <2>1. CASE i = 1
      BY <1>0, <1>2, <2>1
    <2>2. CASE i # 1
      <3>1. i - 1 \in 1 .. Len(s) /\ (i - 1) + 1 = i
        BY <1>3, <2>2
      <3>2. t[i] = s[i - 1] /\ i - 1 \in DOMAIN s
        BY <1>2, <1>3, <3>1
      <3> QED
        BY <3>2 DEF StackBefore
    <2> QED
      BY <2>1, <2>2
  <1>5. StackBefore(t, n)
    BY <1>2, <1>4 DEF StackBefore
  <1>6. /\ HeldBy(t, b) = Rooted(Len(t), t[1].k, b) \cup HeldBy(s, a)
        /\ Rooted(Len(t), t[1].k, b)
             \cap (HeldBy(s, a) \cup Locals(0, {"context"})) = {}
    BY <1>1, <1>2, HeldByMore
  <1> QED
    BY <1>2, <1>3, <1>5, <1>6

LEMMA Leaving ==
    ASSUME NEW n \in Nat, NEW s, StackBefore(s, n), s # <<>>,
           NEW a, NEW b, b # "wrap"
    PROVE  /\ StackBefore(Tail(s), n)
           /\ HeldBy(s, a) = Rooted(Len(s), s[1].k, a) \cup HeldBy(Tail(s), b)
           /\ Rooted(Len(s), s[1].k, a)
                \cap (HeldBy(Tail(s), b) \cup Locals(0, {"context"})) = {}
  <1> DEFINE t == Tail(s)
  <1>1. IsStack(s)
    BY DEF StackBefore
  <1>2. /\ IsStack(t) /\ Len(s) = Len(t) + 1
        /\ \A i \in 1 .. Len(t) : s[i + 1] = t[i]
    BY <1>1, StackPopped
  <1> HIDE DEF t
  <1>3. Len(t) \in Nat /\ DOMAIN t = 1 .. Len(t) /\ DOMAIN s = 1 .. Len(t) + 1
    BY <1>1, <1>2, StackFacts
  <1>4. \A i \in DOMAIN t :
          /\ t[i] = [k |-> t[i].k, start |-> t[i].start, items |-> t[i].items]
          /\ t[i].k \in {"list", "quote"}
          /\ t[i].start \in Nat /\ t[i].start < n
    <2> TAKE i \in DOMAIN t
    <2>1. i + 1 \in DOMAIN s /\ t[i] = s[i + 1]
      BY <1>2, <1>3
    <2> QED
      BY <2>1 DEF StackBefore
  <1>5. StackBefore(t, n)
    BY <1>2, <1>4 DEF StackBefore
  <1>6. /\ HeldBy(s, a) = Rooted(Len(s), s[1].k, a) \cup HeldBy(t, b)
        /\ Rooted(Len(s), s[1].k, a) \cap (HeldBy(t, b) \cup Locals(0, {"context"})) = {}
    BY <1>1, <1>2, HeldByMore
  <1> QED
    BY <1>5, <1>6 DEF t

LEMMA Kept ==
    ASSUME NEW n \in Nat, NEW s, StackBefore(s, n), s # <<>>, NEW t, HasNewItems(t, s),
           NEW a, a # "wrap", NEW b
    PROVE  /\ StackBefore(t, n) /\ t # <<>> /\ t[1].k = s[1].k
           /\ HeldBy(t, b) = Rooted(Len(s), s[1].k, b) \cup HeldBy(s, a)
  <1> DEFINE u == Tail(s)
  <1>0. PICK x : t = [s EXCEPT ![1].items = x]
    BY DEF HasNewItems
  <1>1. IsStack(s) /\ Len(s) \in Nat /\ DOMAIN s = 1 .. Len(s) /\ 1 \in DOMAIN s
    BY StackFacts DEF StackBefore
  <1>2. s[1] = [k |-> s[1].k, start |-> s[1].start, items |-> s[1].items]
    BY <1>1 DEF StackBefore
  <1>3. /\ IsStack(t) /\ Len(t) = Len(s)
        /\ t[1] = [k |-> s[1].k, start |-> s[1].start, items |-> x]
        /\ \A i \in 1 .. Len(s) : i # 1 => t[i] = s[i]
    BY <1>0, <1>1, <1>2, StackUpdated
  <1>4. IsStack(u) /\ Len(s) = Len(u) + 1 /\ \A i \in 1 .. Len(u) : s[i + 1] = u[i]
    BY <1>1, StackPopped
  <1> HIDE DEF u
  <1>5. DOMAIN t = 1 .. Len(s) /\ t # <<>> /\ t[1].k = s[1].k /\ Len(u) \in Nat
    BY <1>1, <1>3, <1>4, StackFacts
  <1>6. \A i \in DOMAIN t :
          /\ t[i] = [k |-> t[i].k, start |-> t[i].start, items |-> t[i].items]
          /\ t[i].k \in {"list", "quote"}
          /\ t[i].start \in Nat /\ t[i].start < n
    <2> TAKE i \in DOMAIN t
    <2>1. CASE i = 1
      BY <1>1, <1>3, <2>1 DEF StackBefore
    <2>2. CASE i # 1
      BY <1>1, <1>3, <1>5, <2>2 DEF StackBefore
    <2> QED
      BY <2>1, <2>2
  <1>7. StackBefore(t, n)
    BY <1>3, <1>6 DEF StackBefore
  <1>8. \A i \in 1 .. Len(u) : t[i + 1] = u[i]
    <2> TAKE i \in 1 .. Len(u)
    <2>1. i + 1 \in 1 .. Len(s) /\ i + 1 # 1
      BY <1>4, <1>5
    <2> QED
      BY <1>3, <1>4, <2>1
  <1>9. \A c : /\ HeldBy(s, c) = Rooted(Len(s), s[1].k, c) \cup HeldBy(u, a)
               /\ Rooted(Len(s), s[1].k, c)
                    \cap (HeldBy(u, a) \cup Locals(0, {"context"})) = {}
    <2> TAKE c
    <2>1. IsStack(u) /\ IsStack(s) /\ Len(s) = Len(u) + 1
      BY <1>1, <1>4
    <2> QED
      BY <1>4, <2>1, HeldByMore
  <1>10. /\ HeldBy(t, b) = Rooted(Len(t), t[1].k, b) \cup HeldBy(u, a)
         /\ Rooted(Len(t), t[1].k, b)
              \cap (HeldBy(u, a) \cup Locals(0, {"context"})) = {}
    <2>1. IsStack(u) /\ IsStack(t) /\ Len(t) = Len(u) + 1
      BY <1>3, <1>4
    <2> QED
      BY <1>8, <2>1, HeldByMore
  <1>11. Rooted(Len(s), s[1].k, a) \subseteq Rooted(Len(s), s[1].k, b)
    BY DEF Rooted
  <1> QED
    BY <1>3, <1>5, <1>7, <1>9, <1>10, <1>11

LEMMA TopIsHeld ==
    ASSUME NEW n \in Nat, NEW s, StackBefore(s, n), s # <<>>, NEW a
    PROVE  Rooted(Len(s), s[1].k, a) \subseteq HeldBy(s, a)
  <1>1. Len(s) \in Nat /\ 1 \in DOMAIN s /\ Len(s) - 1 + 1 = Len(s)
    BY StackFacts DEF StackBefore
  <1> QED
    BY <1>1 DEF HeldBy

-----------------------------------------------------------------------------
(***************************************************************************)
(* The steps of the parser.                                                *)
(***************************************************************************)
\* What they start from: the lexer is idle once a token was peeked.
LEMMA ParserFacts ==
    ASSUME IInv, has_peeked \/ at \notin Peeks
    PROVE  /\ lex.pc = "idle"
           /\ index \in Nat /\ Len(input) \in Nat /\ index <= Len(input)
           /\ ContextInv /\ StackInv /\ AtInv /\ TokenInv(peeked)
           /\ has_peeked \in BOOLEAN
           /\ roots = HeldBy(stack, at) \cup Current(at)
  BY RootsFacts DEF IInv, PeekedInv, LexInv, BufferInv

LEMMA ParserFrame ==
    ASSUME IInv, UNCHANGED <<buffer, index, lex, token, peeked>>, lex.pc = "idle",
           has_peeked' = has_peeked \/ has_peeked' = FALSE,
           ContextInv', StackInv', AtInv',
           roots' = HeldBy(stack', at') \cup Current(at')
    PROVE  IInv'
  <1>1. /\ text' = text /\ input' = input /\ unread' = unread /\ open' = open
        /\ capacity' = capacity /\ index' = index /\ lex' = lex /\ token' = token
        /\ peeked' = peeked
    BY DEF buffer
  <1>2. BufferInv'
    BY <1>1 DEF IInv, BufferInv, NulFree
  <1>3. TokenInv(token)' /\ TokenInv(peeked)'
    BY <1>1 DEF IInv, LexInv, PeekedInv, TokenInv
  <1>4. LexInv'
    BY <1>1, <1>3 DEF IInv, LexInv, LexShape, Consumed, Inside
  <1>5. PeekedInv'
    <2>1. AtTheEnd => AtTheEnd'
      BY <1>1 DEF AtTheEnd
    <2>2. has_peeked' \in BOOLEAN /\ (has_peeked' => has_peeked)
      <3>1. has_peeked \in BOOLEAN
        BY DEF IInv, PeekedInv
      <3>2. CASE has_peeked' = has_peeked
        BY <3>1, <3>2, Zenon
      <3>3. CASE has_peeked' = FALSE
        BY <3>3, Zenon
      <3> QED
        BY <3>2, <3>3
    <2>3. has_peeked' /\ peeked'.type = "END" => AtTheEnd'
      BY <1>1, <2>1, <2>2 DEF IInv, PeekedInv
    <2> QED
      BY <1>1, <1>3, <2>2, <2>3 DEF PeekedInv
  <1>6. RootsAreLive'
    BY RootsFacts
  <1> QED
    BY <1>1, <1>2, <1>4, <1>5, <1>6 DEF IInv

\* Most steps leave the errors alone, and many the stack.
LEMMA ParserStepFrame ==
    ASSUME IInv, UNCHANGED lexer, peeked' = peeked, lex.pc = "idle",
           has_peeked' = has_peeked \/ has_peeked' = FALSE,
           StackInv', AtInv', roots' = HeldBy(stack', at') \cup Current(at')
    PROVE  IInv'
  <1>1. UNCHANGED <<buffer, index, lex, token, context>> /\ input' = input
    BY DEF lexer, buffer
  <1>2. ContextInv /\ Len(input) \in Nat
    BY DEF IInv, BufferInv
  <1>3. ContextInv'
    BY <1>1, <1>2, NoErrorAdded DEF NoError
  <1> QED
    BY <1>1, <1>3, ParserFrame

LEMMA SameStackFrame ==
    ASSUME IInv, UNCHANGED <<lexer, peeked, stack, roots>>, has_peeked \/ at \notin Peeks,
           has_peeked' = has_peeked \/ has_peeked' = FALSE,
           at # "wrap", at' # "wrap", Current(at') = Current(at), AtInv'
    PROVE  IInv'
  <1>1. lex.pc = "idle" /\ index \in Nat /\ StackInv
        /\ roots = HeldBy(stack, at) \cup Current(at)
    BY ParserFacts
  <1>2. StackInv'
    BY <1>1 DEF lexer, StackInv
  <1>3. HeldBy(stack', at') = HeldBy(stack, at)
    BY HeldBySame
  <1> QED
    BY <1>1, <1>2, <1>3, ParserStepFrame

LEMMA PeekTokenKeeps ==
    ASSUME IInv, PeekToken
    PROVE  IInv'
  <1>1. /\ at \in Peeks /\ ~has_peeked /\ UNCHANGED parser
        /\ lex' = [Idle EXCEPT !.pc = "start"]
        /\ UNCHANGED <<buffer, index, token, context>>
    BY DEF PeekToken
  <1>2. /\ text' = text /\ input' = input /\ unread' = unread /\ open' = open
        /\ capacity' = capacity /\ index' = index /\ token' = token /\ context' = context
        /\ has_peeked' = has_peeked /\ peeked' = peeked /\ at' = at /\ stack' = stack
        /\ ret' = ret /\ roots' = roots
    BY <1>1 DEF buffer, parser
  <1>3. lex' = [pc |-> "start", start |-> 0, errors |-> 0, utf8_error |-> FALSE, c |-> 0,
                escape |-> 0, val |-> 0, digits |-> 0, dots |-> 0, numeric |-> FALSE,
                digit |-> FALSE, bad |-> 0, resume |-> "idle"]
    BY <1>1 DEF Idle
  <1>4. IsLex(lex')
    BY <1>3 DEF IsLex
  <1>5. lex'.pc = "start" /\ lex'.start = 0 /\ lex'.escape = 0 /\ lex'.bad = 0
    BY <1>3
  <1>6. LexShape'
    BY <1>4, <1>5 DEF LexShape, IsLex, Places
  <1>7. BufferInv'
    BY <1>2 DEF IInv, BufferInv, NulFree
  <1>8. TokenInv(token)' /\ TokenInv(peeked)'
    BY <1>2 DEF IInv, LexInv, PeekedInv, TokenInv
  <1>9. LexInv'
    BY <1>2, <1>5, <1>6, <1>8 DEF IInv, LexInv, Consumed, Inside
  <1>10. PeekedInv'
    BY <1>1, <1>2, <1>5, <1>8 DEF IInv, PeekedInv
  <1>11. ContextInv' /\ StackInv' /\ AtInv' /\ RootsAreLive'
    BY <1>2 DEF IInv, ContextInv, ErrorsInsideText, StackInv, AtInv, RootsAreLive, LocalsOf
  <1> QED
    BY <1>2, <1>7, <1>9, <1>10, <1>11 DEF IInv

LEMMA StorePeekedKeeps ==
    ASSUME IInv, StorePeeked
    PROVE  IInv'
  <1>1. /\ lex.pc = "done" /\ lex' = Idle /\ has_peeked' = TRUE /\ peeked' = token
        /\ text' = text /\ input' = input /\ unread' = unread /\ open' = open
        /\ capacity' = capacity /\ index' = index /\ token' = token /\ context' = context
        /\ at' = at /\ stack' = stack /\ ret' = ret /\ roots' = roots
    BY DEF StorePeeked, buffer
  <1>2. at \in Peeks /\ ~has_peeked
    BY <1>1 DEF IInv, PeekedInv
  <1>3. IsLex(lex')
    BY <1>1 DEF IsLex, Idle
  <1>4. lex'.pc = "idle" /\ lex'.start = 0 /\ lex'.escape = 0 /\ lex'.bad = 0
    BY <1>1 DEF Idle
  <1>5. LexShape'
    BY <1>3, <1>4 DEF LexShape, IsLex, Places
  <1>6. BufferInv'
    BY <1>1 DEF IInv, BufferInv, NulFree
  <1>7. TokenInv(token)' /\ TokenInv(peeked)'
    BY <1>1 DEF IInv, LexInv, TokenInv
  <1>8. LexInv'
    BY <1>1, <1>4, <1>5, <1>7 DEF IInv, LexInv, Consumed, Inside
  <1>9. PeekedInv'
    BY <1>1, <1>4, <1>7 DEF IInv, PeekedInv, AtTheEnd
  <1>10. AtInv'
    <2>1. AtInv /\ at \notin {"atom", "open_list", "quote", "return", "end"}
          /\ ~(at = "sexpr" /\ stack = <<>>)
      BY <1>2 DEF IInv, AtInv, Peeks
    <2> QED
      BY <1>1, <1>2, <2>1 DEF AtInv
  <1>11. ContextInv' /\ StackInv' /\ RootsAreLive'
    BY <1>1 DEF IInv, ContextInv, ErrorsInsideText, StackInv, RootsAreLive, LocalsOf
  <1> QED
    BY <1>1, <1>6, <1>8, <1>9, <1>10, <1>11 DEF IInv

LEMMA NextSexprKeeps ==
    ASSUME IInv, NextSexpr
    PROVE  IInv'
  <1>1. /\ at = "drive" /\ at' = "next" /\ context' = <<>>
        /\ UNCHANGED <<buffer, index, lex, token, peeked>>
        /\ has_peeked' = has_peeked /\ stack' = stack
        /\ roots' = roots \cup Locals(0, {"context"})
        /\ index' = index /\ input' = input
    BY DEF NextSexpr, buffer
  <1>2. /\ lex.pc = "idle" /\ StackInv /\ AtInv /\ index \in Nat
        /\ roots = HeldBy(stack, at) \cup Current(at)
    BY <1>1, ParserFacts DEF Peeks
  <1>3. ContextInv'
    BY <1>1 DEF ContextInv, ErrorsInsideText
  <1>4. stack = <<>> /\ StackInv'
    BY <1>1, <1>2 DEF AtInv, StackInv
  <1>5. AtInv'
    BY <1>1, <1>4 DEF AtInv, Peeks
  <1>6. roots' = HeldBy(stack', at') \cup Current(at')
    BY <1>1, <1>2, <1>4, HeldByNone DEF Current
  <1> QED
    BY <1>1, <1>2, <1>3, <1>4, <1>5, <1>6, ParserFrame

LEMMA SkipRightParenKeeps ==
    ASSUME IInv, SkipRightParen
    PROVE  IInv'
  <1>1. /\ at = "next" /\ has_peeked /\ has_peeked' = FALSE /\ peeked' = peeked
        /\ at' = at /\ UNCHANGED <<lexer, peeked, stack, roots>>
    BY DEF SkipRightParen, TakeToken
  <1>2. AtInv'
    BY <1>1, ParserFacts DEF AtInv, Peeks
  <1> QED
    BY <1>1, <1>2, SameStackFrame

LEMMA ParseFormKeeps ==
    ASSUME IInv, ParseForm
    PROVE  IInv'
  <1>1. /\ at = "next" /\ has_peeked /\ has_peeked' = has_peeked /\ peeked' = peeked
        /\ peeked.type # "RIGHT_PAREN"
        /\ at' = "sexpr" /\ stack' = stack /\ UNCHANGED <<lexer, peeked, stack, roots>>
    BY DEF ParseForm
  <1>2. AtInv'
    BY <1>1, ParserFacts DEF AtInv, Peeks
  <1> QED
    BY <1>1, <1>2, SameStackFrame DEF Current

LEMMA FinishFormKeeps ==
    ASSUME IInv, FinishForm
    PROVE  IInv'
  <1>1. /\ at = "return" /\ stack = <<>> /\ stack' = stack /\ at' = "drive"
        /\ roots' = roots \ Locals(0, {"context"})
        /\ UNCHANGED lexer /\ peeked' = peeked /\ has_peeked' = has_peeked
    BY DEF FinishForm
  <1>2. /\ lex.pc = "idle" /\ StackInv /\ AtInv /\ index \in Nat
        /\ roots = HeldBy(stack, at) \cup Current(at)
    BY <1>1, ParserFacts DEF Peeks
  <1>3. StackInv'
    BY <1>1, <1>2 DEF StackInv, lexer
  <1>4. AtInv'
    BY <1>1, <1>2 DEF AtInv, Peeks
  <1>5. roots' = HeldBy(stack', at') \cup Current(at')
    BY <1>1, <1>2, HeldByNone DEF Current
  <1> QED
    BY <1>1, <1>2, <1>3, <1>4, <1>5, ParserStepFrame

LEMMA FinishInputKeeps ==
    ASSUME IInv, FinishInput
    PROVE  IInv'
  <1>1. /\ at = "return" /\ stack = <<>> /\ stack' = stack /\ at' = "end" /\ ~ret.ok
        /\ roots' = roots \ Locals(0, {"context"})
        /\ UNCHANGED lexer /\ peeked' = peeked /\ has_peeked' = has_peeked
    BY DEF FinishInput
  <1>2. /\ lex.pc = "idle" /\ StackInv /\ AtInv /\ index \in Nat
        /\ roots = HeldBy(stack, at) \cup Current(at)
    BY <1>1, ParserFacts DEF Peeks
  <1>3. StackInv'
    BY <1>1, <1>2 DEF StackInv, lexer
  <1>4. AtInv'
    BY <1>1, <1>2 DEF AtInv, Peeks
  <1>5. roots' = HeldBy(stack', at') \cup Current(at')
    BY <1>1, <1>2, HeldByNone DEF Current
  <1> QED
    BY <1>1, <1>2, <1>3, <1>4, <1>5, ParserStepFrame

LEMMA ParseSExprKeeps ==
    ASSUME IInv, ParseSExpr
    PROVE  IInv'
  <1>1. /\ at = "sexpr" /\ has_peeked /\ has_peeked' = has_peeked /\ peeked' = peeked
        /\ stack' = stack /\ UNCHANGED <<lexer, peeked, stack, roots>>
    BY DEF ParseSExpr, KeepToken
  <1>2. \/ /\ peeked.type \notin {"RIGHT_PAREN", "END"}
           /\ at' \in {"open_list", "quote", "atom"}
        \/ /\ peeked.type \in {"RIGHT_PAREN", "END"}
           /\ at' = "return"
    BY DEF ParseSExpr, Return
  <1>3. AtInv'
    BY <1>1, <1>2, ParserFacts DEF AtInv, Peeks
  <1>4. at # "wrap" /\ at' # "wrap" /\ Current(at') = Current(at)
    BY <1>1, <1>2 DEF Current
  <1> QED
    BY <1>1, <1>3, <1>4, SameStackFrame

LEMMA ParseAtomKeeps ==
    ASSUME IInv, ParseAtom
    PROVE  IInv'
  <1>1. /\ at = "atom" /\ has_peeked /\ has_peeked' = FALSE /\ peeked' = peeked
        /\ at' = "return" /\ ret' = Ok(Atom(peeked))
        /\ UNCHANGED <<lexer, peeked, stack, roots>>
    BY DEF ParseAtom, TakeToken, Return
  <1>2. ret'.ok
    BY <1>1 DEF Ok
  <1>3. AtInv'
    BY <1>1, <1>2, ParserFacts DEF AtInv, Peeks
  <1> QED
    BY <1>1, <1>3, SameStackFrame DEF Current

LEMMA NextElementKeeps ==
    ASSUME IInv, NextElement
    PROVE  IInv'
  <1>1. /\ at = "list" /\ has_peeked /\ has_peeked' = has_peeked /\ peeked' = peeked
        /\ at' = "sexpr" /\ stack' = stack /\ UNCHANGED <<lexer, peeked, stack, roots>>
    BY DEF NextElement, KeepToken
  <1>2. AtInv'
    BY <1>1, ParserFacts DEF AtInv, Peeks
  <1> QED
    BY <1>1, <1>2, SameStackFrame DEF Current

\* The same two facts of the stack and of the position that is read.
LEMMA TopReplaced ==
    ASSUME StackBefore(stack, index), index \in Nat, stack # <<>>, at # "wrap", NEW x
    PROVE  \A b : /\ StackBefore([stack EXCEPT ![1].items = x], index)
                  /\ [stack EXCEPT ![1].items = x] # <<>>
                  /\ [stack EXCEPT ![1].items = x][1].k = stack[1].k
                  /\ HeldBy([stack EXCEPT ![1].items = x], b)
                       = Rooted(Len(stack), stack[1].k, b) \cup HeldBy(stack, at)
  <1> DEFINE t == [stack EXCEPT ![1].items = x]
  <1>1. HasNewItems(t, stack)
    BY DEF HasNewItems
  <1> HIDE DEF t
  <1>2. ASSUME NEW b
        PROVE  /\ StackBefore(t, index) /\ t # <<>> /\ t[1].k = stack[1].k
               /\ HeldBy(t, b) = Rooted(Len(stack), stack[1].k, b) \cup HeldBy(stack, at)
    BY <1>1, Kept
  <1> QED
    BY <1>2 DEF t

LEMMA TopEntered ==
    ASSUME StackBefore(stack, index), index \in Nat, at # "wrap",
           NEW e, e = [k |-> e.k, start |-> e.start, items |-> e.items],
           e.k \in {"list", "quote"}, e.start \in Nat, e.start < index
    PROVE  \A b : /\ StackBefore(<<e>> \o stack, index) /\ <<e>> \o stack # <<>>
                  /\ (<<e>> \o stack)[1] = e
                  /\ HeldBy(<<e>> \o stack, b)
                       = Rooted(Len(<<e>> \o stack), e.k, b) \cup HeldBy(stack, at)
  <1> DEFINE t == <<e>> \o stack
  <1>1. IsPushed(t, stack, e) /\ IsEntry(e, index)
    BY DEF IsPushed, IsEntry
  <1> HIDE DEF t
  <1>2. ASSUME NEW b
        PROVE  /\ StackBefore(t, index) /\ t # <<>> /\ t[1] = e
               /\ HeldBy(t, b) = Rooted(Len(t), e.k, b) \cup HeldBy(stack, at)
    BY <1>1, Entered
  <1> QED
    BY <1>2 DEF t

\* A list or a quote is begun: its token lies before the position.
LEMMA Opened ==
    ASSUME IInv, NEW type \in {"LEFT_PAREN", "SINGLE_QUOTE"}, TakeToken(type),
           NEW e, e = [k |-> e.k, start |-> e.start, items |-> e.items],
           e.k \in {"list", "quote"}, e.start = peeked.index,
           stack' = <<e>> \o stack, UNCHANGED lexer,
           at \in {"open_list", "quote"}, at' \in {"list", "sexpr"}, at' = "list" => e.k = "list",
           roots' = roots \cup Rooted(Len(stack'), e.k, at')
    PROVE  IInv'
  <1>1. /\ has_peeked /\ peeked.type = type /\ has_peeked' = FALSE /\ peeked' = peeked
        /\ index' = index
    BY DEF TakeToken, lexer
  <1>2. /\ lex.pc = "idle" /\ StackInv /\ index \in Nat /\ TokenInv(peeked)
        /\ roots = HeldBy(stack, at) \cup Current(at)
    BY <1>1, ParserFacts
  <1>3. e.start \in Nat /\ e.start < index
    <2>1. peeked.index \in Nat /\ peeked.length \in Nat /\ peeked.length > 0
          /\ peeked.index + peeked.length <= index
      BY <1>1, <1>2 DEF TokenInv, Tokens
    <2> QED
      BY <1>2, <2>1
  <1>4. at # "wrap" /\ Current(at') = Current(at)
    BY DEF Current
  <1>5. \A b : /\ StackBefore(<<e>> \o stack, index) /\ <<e>> \o stack # <<>>
               /\ (<<e>> \o stack)[1] = e
               /\ HeldBy(<<e>> \o stack, b)
                    = Rooted(Len(<<e>> \o stack), e.k, b) \cup HeldBy(stack, at)
    <2>1. StackBefore(stack, index)
      BY <1>2 DEF StackInv
    <2> QED
      BY <1>2, <1>3, <1>4, <2>1, TopEntered
  <1>6. StackInv' /\ stack' # <<>> /\ stack'[1] = e
    BY <1>1, <1>5 DEF StackInv
  <1>7. roots' = HeldBy(stack', at') \cup Current(at')
    BY <1>2, <1>4, <1>5
  <1>8. AtInv'
    BY <1>6 DEF AtInv, Peeks
  <1> QED
    BY <1>1, <1>2, <1>6, <1>7, <1>8, ParserStepFrame

LEMMA OpenListKeeps ==
    ASSUME IInv, OpenList
    PROVE  IInv'
  <1> DEFINE e == [k |-> "list", start |-> peeked.index, items |-> <<>>]
  <1>1. /\ at = "open_list" /\ TakeToken("LEFT_PAREN") /\ at' = "list"
        /\ stack' = <<e>> \o stack /\ UNCHANGED lexer
        /\ roots' = roots \cup Rooted(Len(stack'), "list", at')
    BY DEF OpenList, Rooted
  <1>2. /\ e = [k |-> e.k, start |-> e.start, items |-> e.items]
        /\ e.k = "list" /\ e.start = peeked.index
    OBVIOUS
  <1> HIDE DEF e
  <1> QED
    BY <1>1, <1>2, Opened

LEMMA OpenQuoteKeeps ==
    ASSUME IInv, OpenQuote
    PROVE  IInv'
  <1> DEFINE e == [k |-> "quote", start |-> peeked.index, items |-> <<>>]
  <1>1. /\ at = "quote" /\ TakeToken("SINGLE_QUOTE") /\ at' = "sexpr"
        /\ stack' = <<e>> \o stack /\ UNCHANGED lexer
        /\ roots' = roots \cup Rooted(Len(stack'), "quote", at')
    BY DEF OpenQuote, Rooted
  <1>2. /\ e = [k |-> e.k, start |-> e.start, items |-> e.items]
        /\ e.k = "quote" /\ e.start = peeked.index
    OBVIOUS
  <1> HIDE DEF e
  <1> QED
    BY <1>1, <1>2, Opened

\* A list or a quote is left with a form: its variables are unrooted, and only they.
LEMMA Closed ==
    ASSUME IInv, has_peeked \/ at \notin Peeks, stack # <<>>, stack' = Tail(stack),
           UNCHANGED <<buffer, index, lex, token, peeked>>, ContextInv',
           has_peeked' = has_peeked \/ has_peeked' = FALSE,
           at \in {"list", "wrap"}, at' = "return", ret'.ok,
           roots' = roots \ Rooted(Len(stack), stack[1].k, at)
    PROVE  IInv'
  <1>1. /\ lex.pc = "idle" /\ StackInv /\ index \in Nat
        /\ roots = HeldBy(stack, at) \cup Current(at)
    BY ParserFacts
  <1>2. Current(at') = Locals(0, {"context"}) /\ Current(at) = Locals(0, {"context"})
    BY DEF Current
  <1>3. /\ StackBefore(Tail(stack), index)
        /\ HeldBy(stack, at)
             = Rooted(Len(stack), stack[1].k, at) \cup HeldBy(Tail(stack), at')
        /\ Rooted(Len(stack), stack[1].k, at)
             \cap (HeldBy(Tail(stack), at') \cup Locals(0, {"context"})) = {}
    BY <1>1, Leaving DEF StackInv
  <1>4. StackInv'
    BY <1>3 DEF StackInv
  <1>5. roots' = HeldBy(stack', at') \cup Current(at')
    BY <1>1, <1>2, <1>3
  <1>6. AtInv'
    BY DEF AtInv, Peeks
  <1> QED
    BY <1>1, <1>4, <1>5, <1>6, ParserFrame

LEMMA TopFacts ==
    ASSUME IInv, stack # <<>>
    PROVE  /\ stack[1].start \in Nat /\ stack[1].start < index
           /\ index \in Nat /\ Len(input) \in Nat /\ index <= Len(input) /\ ContextInv
  <1>1. StackBefore(stack, index) /\ IsStack(stack)
    BY DEF IInv, StackInv, StackBefore
  <1>2. 1 \in DOMAIN stack
    BY <1>1, StackFacts
  <1> QED
    BY <1>1, <1>2 DEF IInv, StackBefore, LexInv, BufferInv

LEMMA CloseListKeeps ==
    ASSUME IInv, CloseList
    PROVE  IInv'
  <1>1. /\ at = "list" /\ has_peeked /\ has_peeked' = FALSE /\ peeked' = peeked
        /\ at' = "return" /\ ret' = Ok(List(stack[1].items)) /\ stack' = Tail(stack)
        /\ roots' = roots \ Locals(Len(stack), {"base", "current"})
        /\ UNCHANGED <<buffer, index, lex, token, peeked>> /\ context' = context
        /\ input' = input
    BY DEF CloseList, TakeToken, Return, lexer, buffer
  <1>2. stack # <<>> /\ stack[1].k = "list"
    BY <1>1 DEF IInv, AtInv
  <1>3. ContextInv'
    BY <1>1, <1>2, TopFacts, NoErrorAdded DEF NoError
  <1>4. ret'.ok
    BY <1>1 DEF Ok
  <1>5. roots' = roots \ Rooted(Len(stack), stack[1].k, at)
    BY <1>1, <1>2 DEF Rooted
  <1> QED
    BY <1>1, <1>2, <1>3, <1>4, <1>5, Closed

LEMMA UnterminatedListKeeps ==
    ASSUME IInv, UnterminatedList
    PROVE  IInv'
  <1>1. /\ at = "list" /\ has_peeked /\ has_peeked' = has_peeked /\ peeked' = peeked
        /\ at' = "return" /\ ret' = Ok(List(stack[1].items)) /\ stack' = Tail(stack)
        /\ roots' = roots \ Locals(Len(stack), {"base", "current"})
        /\ UNCHANGED <<buffer, index, lex, token, peeked>>
        /\ AddErrors(<<Error("UNTERMINATED_LIST", stack[1].start, index)>>)
        /\ input' = input
    BY DEF UnterminatedList, KeepToken, Return, buffer
  <1>2. stack # <<>> /\ stack[1].k = "list"
    BY <1>1 DEF IInv, AtInv
  <1>3. ContextInv'
    <2>1. "UNTERMINATED_LIST" \in ErrorTypes
      BY DEF ErrorTypes
    <2> QED
      BY <1>1, <1>2, <2>1, TopFacts, ErrorAdded
  <1>4. ret'.ok
    BY <1>1 DEF Ok
  <1>5. roots' = roots \ Rooted(Len(stack), stack[1].k, at)
    BY <1>1, <1>2 DEF Rooted
  <1> QED
    BY <1>1, <1>2, <1>3, <1>4, <1>5, Closed

LEMMA CloseQuoteKeeps ==
    ASSUME IInv, CloseQuote
    PROVE  IInv'
  <1>1. /\ at = "wrap" /\ has_peeked' = has_peeked /\ peeked' = peeked
        /\ at' = "return" /\ ret' = Ok(List(<<QuoteSymbol>> \o stack[1].items))
        /\ stack' = Tail(stack)
        /\ roots' = roots \ Locals(Len(stack), {"cons_quoted"})
        /\ UNCHANGED <<buffer, index, lex, token, peeked>> /\ context' = context
        /\ input' = input
    BY DEF CloseQuote, KeepToken, Return, lexer, buffer
  <1>2. stack # <<>> /\ stack[1].k = "quote"
    BY <1>1 DEF IInv, AtInv
  <1>3. ContextInv'
    BY <1>1, <1>2, TopFacts, NoErrorAdded DEF NoError
  <1>4. ret'.ok
    BY <1>1 DEF Ok
  <1>5. roots' = roots \ Rooted(Len(stack), stack[1].k, at)
    BY <1>1, <1>2 DEF Rooted
  <1>6. at \notin Peeks
    BY <1>1 DEF Peeks
  <1> QED
    BY <1>1, <1>2, <1>3, <1>4, <1>5, <1>6, Closed

\* What a function that was called has returned is kept.
LEMMA AppendElementKeeps ==
    ASSUME IInv, AppendElement
    PROVE  IInv'
  <1>1. /\ at = "return" /\ stack # <<>> /\ stack[1].k = "list" /\ at' = "list"
        /\ stack' = [stack EXCEPT ![1].items = Append(@, ret.value)]
        /\ has_peeked' = has_peeked /\ peeked' = peeked /\ roots' = roots
        /\ UNCHANGED lexer /\ index' = index
    BY DEF AppendElement, KeepToken, lexer
  <1>2. /\ lex.pc = "idle" /\ StackInv /\ index \in Nat
        /\ roots = HeldBy(stack, at) \cup Current(at)
    BY <1>1, ParserFacts DEF Peeks
  <1> DEFINE x == Append(stack[1].items, ret.value)
  <1>3. stack' = [stack EXCEPT ![1].items = x]
    BY <1>1
  <1> HIDE DEF x
  <1>4. \A b : /\ StackBefore([stack EXCEPT ![1].items = x], index)
               /\ [stack EXCEPT ![1].items = x] # <<>>
               /\ [stack EXCEPT ![1].items = x][1].k = stack[1].k
               /\ HeldBy([stack EXCEPT ![1].items = x], b)
                    = Rooted(Len(stack), stack[1].k, b) \cup HeldBy(stack, at)
    <2>1. StackBefore(stack, index) /\ stack # <<>> /\ at # "wrap"
      BY <1>1, <1>2 DEF StackInv
    <2> QED
      BY <1>2, <2>1, TopReplaced
  <1>5. StackInv' /\ stack' # <<>> /\ stack'[1].k = "list"
    BY <1>1, <1>3, <1>4 DEF StackInv
  <1>6. roots' = HeldBy(stack', at') \cup Current(at')
    <2>2. Rooted(Len(stack), stack[1].k, at) \subseteq HeldBy(stack, at)
      BY <1>1, <1>2, TopIsHeld DEF StackInv
    <2>3. Rooted(Len(stack), stack[1].k, at') = Rooted(Len(stack), stack[1].k, at)
      BY <1>1 DEF Rooted
    <2>4. Current(at') = Current(at)
      BY <1>1 DEF Current
    <2>5. HeldBy(stack', at')
            = Rooted(Len(stack), stack[1].k, at') \cup HeldBy(stack, at)
      <3>1. HeldBy([stack EXCEPT ![1].items = x], at')
              = Rooted(Len(stack), stack[1].k, at') \cup HeldBy(stack, at)
        BY <1>4, Zenon
      <3> QED
        BY <1>3, <3>1, Zenon
    <2> QED
      BY <1>1, <1>2, <2>2, <2>3, <2>4, <2>5
  <1>7. AtInv'
    BY <1>1, <1>5 DEF AtInv, Peeks
  <1> QED
    BY <1>1, <1>2, <1>5, <1>6, <1>7, ParserStepFrame

LEMMA QuoteOperandKeeps ==
    ASSUME IInv, QuoteOperand
    PROVE  IInv'
  <1>1. /\ at = "return" /\ stack # <<>> /\ stack[1].k = "quote" /\ at' = "wrap"
        /\ has_peeked' = has_peeked /\ peeked' = peeked
        /\ roots' = roots \cup Locals(Len(stack), {"cons_quoted"})
        /\ UNCHANGED <<buffer, index, lex, token, peeked>> /\ index' = index
        /\ input' = input
    BY DEF QuoteOperand, KeepToken, buffer
  <1>2. /\ lex.pc = "idle" /\ StackInv /\ index \in Nat
        /\ roots = HeldBy(stack, at) \cup Current(at)
    BY <1>1, ParserFacts DEF Peeks
  <1>3. PICK x : stack' = [stack EXCEPT ![1].items = x]
    BY DEF QuoteOperand
  <1>4. ContextInv'
    <2>1. "MISSING_SEXPR" \in ErrorTypes
      BY DEF ErrorTypes
    <2>2. \/ NoError
          \/ AddErrors(<<Error("MISSING_SEXPR", stack[1].start, index)>>)
      BY DEF QuoteOperand
    <2>3. index <= index
      BY <1>2
    <2> QED
      BY <1>1, <2>1, <2>2, <2>3, TopFacts, NoErrorAdded, ErrorAdded
  <1>5. \A b : /\ StackBefore([stack EXCEPT ![1].items = x], index)
               /\ [stack EXCEPT ![1].items = x] # <<>>
               /\ [stack EXCEPT ![1].items = x][1].k = stack[1].k
               /\ HeldBy([stack EXCEPT ![1].items = x], b)
                    = Rooted(Len(stack), stack[1].k, b) \cup HeldBy(stack, at)
    <2>1. StackBefore(stack, index) /\ stack # <<>> /\ at # "wrap"
      BY <1>1, <1>2 DEF StackInv
    <2> QED
      BY <1>2, <2>1, TopReplaced
  <1>6. StackInv' /\ stack' # <<>> /\ stack'[1].k = "quote"
    BY <1>1, <1>3, <1>5 DEF StackInv
  <1>7. roots' = HeldBy(stack', at') \cup Current(at')
    <2>1. Rooted(Len(stack), stack[1].k, at') = Locals(Len(stack), {"cons_quoted"})
      BY <1>1 DEF Rooted
    <2>2. Current(at') = Current(at)
      BY <1>1 DEF Current
    <2>3. HeldBy(stack', at')
            = Rooted(Len(stack), stack[1].k, at') \cup HeldBy(stack, at)
      <3>1. HeldBy([stack EXCEPT ![1].items = x], at')
              = Rooted(Len(stack), stack[1].k, at') \cup HeldBy(stack, at)
        BY <1>5, Zenon
      <3> QED
        BY <1>3, <3>1, Zenon
    <2> QED
      BY <1>1, <1>2, <2>1, <2>2, <2>3
  <1>8. AtInv'
    BY <1>1, <1>6 DEF AtInv, Peeks
  <1> QED
    BY <1>1, <1>2, <1>4, <1>6, <1>7, <1>8, ParserFrame

LEMMA ParserStepKeeps ==
    ASSUME IInv, ParserStep
    PROVE  IInv'
  BY PeekTokenKeeps, StorePeekedKeeps, NextSexprKeeps, SkipRightParenKeeps, ParseFormKeeps,
     FinishFormKeeps, FinishInputKeeps, ParseSExprKeeps, ParseAtomKeeps, OpenListKeeps,
     UnterminatedListKeeps, NextElementKeeps, AppendElementKeeps, CloseListKeeps,
     OpenQuoteKeeps, QuoteOperandKeeps, CloseQuoteKeeps
     DEF ParserStep

-----------------------------------------------------------------------------
(***************************************************************************)
(* IInv is inductive.                                                      *)
(***************************************************************************)
LEMMA InitEstablishes ==
    ASSUME Init
    PROVE  IInv
  <1>1. /\ text \in Texts /\ capacity = 0 /\ index = 0 /\ lex = Idle /\ context = <<>>
        /\ token = [type |-> "END", index |-> 0, length |-> 0, had_error |-> FALSE]
        /\ has_peeked = FALSE /\ peeked = token /\ at = "drive" /\ stack = <<>> /\ roots = {}
        /\ \/ open = TRUE /\ unread = text /\ input = <<>>
           \/ open = FALSE /\ unread = <<>> /\ input = text
    BY DEF Init, LexerInit
  <1>2. text \in Seq(Bytes)
    BY <1>1, LexerAssumption DEF Bytes
  <1>3. <<>> \in Seq(Bytes) /\ text = <<>> \o text /\ text = text \o <<>>
    BY <1>2, ConcatEmptySeq
  <1>4. BufferInv
    BY <1>1, <1>2, <1>3 DEF BufferInv
  <1>5. ContextInv
    BY <1>1 DEF ContextInv, ErrorsInsideText
  <1>6. IsLex(lex)
    BY <1>1 DEF IsLex, Idle
  <1>7. lex.pc = "idle" /\ lex.start = 0 /\ lex.escape = 0 /\ lex.bad = 0
    BY <1>1 DEF Idle
  <1>8. LexShape
    BY <1>6, <1>7 DEF LexShape, Places
  <1>9. TokenInv(token)
    BY <1>1 DEF TokenInv, Tokens, TokenTypes
  <1>10. index \in 0 .. Len(input)
    BY <1>1, <1>2, LenProperties
  <1>11. LexInv
    BY <1>7, <1>8, <1>9, <1>10 DEF LexInv, Consumed, Inside
  <1>12. PeekedInv
    BY <1>1, <1>7, <1>9 DEF PeekedInv
  <1>13. StackInv
    <2>1. <<>> \in Seq({}) /\ DOMAIN <<>> = {}
      OBVIOUS
    <2>2. IsStack(<<>>)
      BY <2>1, IsStackFacts
    <2> QED
      BY <1>1, <2>1, <2>2 DEF StackInv, StackBefore
  <1>14. AtInv
    BY <1>1 DEF AtInv, Peeks
  <1>15. RootsAreLive
    BY <1>1, RootsFacts, HeldByNone DEF Current
  <1> QED
    BY <1>1, <1>4, <1>5, <1>11, <1>12, <1>13, <1>14, <1>15 DEF IInv

LEMMA StutterKeeps ==
    ASSUME IInv, UNCHANGED reader
    PROVE  IInv'
  <1>1. /\ text' = text /\ input' = input /\ unread' = unread /\ open' = open
        /\ capacity' = capacity /\ index' = index /\ lex' = lex /\ token' = token
        /\ context' = context /\ has_peeked' = has_peeked /\ peeked' = peeked
        /\ at' = at /\ stack' = stack /\ ret' = ret /\ roots' = roots
    BY DEF reader, lexer, parser, buffer
  <1>2. BufferInv' /\ ContextInv'
    BY <1>1 DEF IInv, BufferInv, NulFree, ContextInv, ErrorsInsideText
  <1>3. TokenInv(token)' /\ TokenInv(peeked)'
    BY <1>1 DEF IInv, LexInv, PeekedInv, TokenInv
  <1>4. Peek' = Peek /\ Starved' = Starved
    BY <1>1, PeekSame DEF Starved, Reading
  <1>5. LexInv'
    BY <1>1, <1>3, <1>4 DEF IInv, LexInv, LexShape, BadUtf8
  <1>6. PeekedInv'
    BY <1>1, <1>3 DEF IInv, PeekedInv, AtTheEnd
  <1>7. StackInv' /\ AtInv' /\ RootsAreLive'
    BY <1>1 DEF IInv, StackInv, AtInv, RootsAreLive, LocalsOf
  <1> QED
    BY <1>1, <1>2, <1>5, <1>6, <1>7 DEF IInv

LEMMA StepKeeps ==
    ASSUME IInv, [Next]_reader
    PROVE  IInv'
  BY LexerStepKeeps, ParserStepKeeps, StutterKeeps DEF Next, Step, Stopped

\* The invariant holds of every text, whatever the capacity the buffer starts with.
THEOREM InvariantHolds == Spec => []IInv
  <1>1. Init => IInv
    BY InitEstablishes
  <1>2. IInv /\ [Next]_reader => IInv'
    BY StepKeeps
  <1> QED
    BY <1>1, <1>2, PTL DEF Spec

-----------------------------------------------------------------------------
\* The variables have their types: the lexer's position and every token lie in what
\* has been read, and there is room for the NUL of fgets while the file is read.
THEOREM TypeCorrect == Spec => []TypeOK
  <1>1. IInv => TypeOK
    <2> SUFFICES ASSUME IInv PROVE TypeOK
      OBVIOUS
    <2>1. /\ text \in Texts /\ input \in Seq(Bytes)
          /\ open => (Len(input) < capacity \/ capacity = 0)
      BY DEF IInv, BufferInv
    <2>2. \A i \in DOMAIN input : input[i] \in 0 .. 255
      <3>1. input \in Seq(0 .. 255)
        BY <2>1 DEF Bytes
      <3>2. DOMAIN input = 1 .. Len(input) /\ input \in [1 .. Len(input) -> 0 .. 255]
        BY <3>1, LenProperties
      <3> QED
        BY <3>2
    <2>3. index \in 0 .. Len(input) /\ index \in Nat /\ Len(input) \in Nat
      BY <2>1, LenProperties DEF IInv, LexInv
    <2>4. lex.pc \in Places /\ TokenInv(token) /\ TokenInv(peeked) /\ has_peeked \in BOOLEAN
      BY DEF IInv, LexInv, LexShape, PeekedInv
    <2>5. token.type \in TokenTypes /\ token.index + token.length <= Len(input)
      BY <2>3, <2>4 DEF TokenInv, Tokens
    <2>6. peeked.type \in TokenTypes
      BY <2>4 DEF TokenInv, Tokens
    <2>7. at \in Peeks \cup {"drive", "return", "wrap", "end"}
      BY DEF IInv, AtInv
    <2>8. \A i \in DOMAIN stack : stack[i].k \in {"list", "quote"}
      BY DEF IInv, StackInv, StackBefore
    <2> QED
      BY <2>1, <2>2, <2>3, <2>4, <2>5, <2>6, <2>7, <2>8
         DEF TypeOK, Places, Consumed, Inside
  <1> QED
    BY <1>1, InvariantHolds, PTL

\* What an error in the context covers has been read and is kept, so that
\* parse_context_print writes bytes of the buffer only.
THEOREM ErrorsHaveText == Spec => []ErrorsInsideText
  <1>1. IInv => ErrorsInsideText
    BY DEF IInv, ContextInv
  <1> QED
    BY <1>1, InvariantHolds, PTL

\* Nothing of a text without a NUL is left unread when drive returns.
THEOREM AllIsRead == Spec => []WholeTextRead
  <1>1. IInv => WholeTextRead
    <2> SUFFICES ASSUME IInv, at = "end", \A i \in DOMAIN text : text[i] # 0
                 PROVE  input = text /\ index = Len(text) /\ peeked.type = "END"
      BY DEF WholeTextRead
    <2>1. peeked.type = "END" /\ AtTheEnd
      BY DEF IInv, AtInv, PeekedInv
    <2>2. /\ text = input \o unread /\ unread = <<>> /\ input \in Seq(Bytes)
      BY <2>1 DEF IInv, BufferInv, NulFree, AtTheEnd
    <2>3. text = input
      BY <2>2
    <2> QED
      BY <2>1, <2>3 DEF AtTheEnd
  <1> QED
    BY <1>1, InvariantHolds, PTL

\* No function of the parser reads the flag of a token that was not peeked before.
THEOREM NoFlagIsLost == Spec => []FlagsAreWritten
  <1>1. IInv => FlagsAreWritten
    BY DEF IInv, AtInv, FlagsAreWritten
  <1> QED
    BY <1>1, InvariantHolds, PTL

\* However deep the lists are, the parser has rooted the variables that are live, and
\* has unrooted all of them when it returns.
THEOREM RootsMatchTheParser == Spec => []RootsAreLive
  <1>1. IInv => RootsAreLive
    BY DEF IInv
  <1> QED
    BY <1>1, InvariantHolds, PTL

=============================================================================
