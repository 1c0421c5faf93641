-------------------------- MODULE ReaderInvariant --------------------------
(***************************************************************************)
(* The inductive invariant of the reader, in parts: what the buffer holds, *)
(* where the lexer is in it, and what the parser may rely on.              *)
(*                                                                         *)
(* Nothing is said of the value of a character or of an S-expression: they *)
(* are defined by recursion, and no property here depends on them.         *)
(***************************************************************************)
EXTENDS ReaderProperties, CommonFacts

Bytes == 0 .. 255
NulFree == \A i \in DOMAIN text : text[i] # 0

\* Until the file has ended there is room for the NUL that fgets appends.  What was
\* read and what is left make up the text, but for what a NUL has hidden.
BufferInv ==
    /\ text \in Seq(Bytes) /\ input \in Seq(Bytes) /\ unread \in Seq(Bytes)
    /\ capacity \in Nat
    /\ open \in BOOLEAN
    /\ open => Len(input) < capacity \/ (capacity = 0 /\ input = <<>>)
    /\ NulFree => text = input \o unread
    /\ NulFree /\ ~open => unread = <<>>

ErrorTypes == {"INVALID_UTF8", "INVALID_ESCAPE", "INVALID_SUFFIX", "UNTERMINATED_STRING",
               "UNTERMINATED_LIST", "MISSING_SEXPR"}
Errors == [type : ErrorTypes, index : Nat, length : Nat \ {0}]
Tokens == [type : TokenTypes, index : Nat, length : Nat, had_error : BOOLEAN]

ContextInv == context \in Seq(Errors) /\ ErrorsInsideText

\* Every token but the end has bytes.
TokenInv(t) ==
    /\ t \in Tokens
    /\ t.index + t.length <= index
    /\ t.type # "END" => t.length > 0

Inside == {"escape", "unicode", "digits", "hex"}
Consumed == {"symbol", "atom", "string", "suffix"} \cup Inside
Resumed == {"comment", "symbol", "atom", "string", "suffix", "escape"}
Places == {"idle", "done", "exit", "start", "blank", "comment", "skip"} \cup Consumed

\* l is a record with these fields.
IsLex(l) ==
    l = [pc |-> l.pc, start |-> l.start, errors |-> l.errors, utf8_error |-> l.utf8_error,
         c |-> l.c, escape |-> l.escape, val |-> l.val, digits |-> l.digits,
         dots |-> l.dots, numeric |-> l.numeric, digit |-> l.digit, bad |-> l.bad,
         resume |-> l.resume]

LexShape ==
    /\ IsLex(lex)
    /\ lex.pc \in Places
    /\ lex.start \in Nat /\ lex.escape \in Nat /\ lex.bad \in Nat

\* The token and the escape being read have begun, and the bytes to skip are still
\* ahead or there were some: no error is empty.
LexInv ==
    /\ LexShape
    /\ index \in 0 .. Len(input)
    /\ lex.pc \in Consumed => lex.start < index
    /\ lex.pc \in Inside => lex.escape < index
    /\ lex.pc = "skip" =>
         /\ lex.resume \in Resumed
         /\ lex.bad <= index
         /\ lex.resume = "symbol" => lex.start <= lex.bad
         /\ lex.bad = index => Peek = BadUtf8 /\ ~Starved
         /\ lex.resume \in {"atom", "string", "suffix", "escape"} => lex.start < index
         /\ lex.resume = "escape" => lex.escape < index
    /\ TokenInv(token)

\* The end of the input is where nothing is left to read.
AtTheEnd == index = Len(input) /\ ~open

PeekedInv ==
    /\ has_peeked \in BOOLEAN
    /\ TokenInv(peeked)
    /\ has_peeked => lex.pc = "idle"
    /\ has_peeked /\ peeked.type = "END" => AtTheEnd
    /\ lex.pc = "done" /\ token.type = "END" => AtTheEnd
    /\ lex.pc # "idle" => at \in Peeks

\* Every activation has begun with a token before n.
StackBefore(s, n) ==
    /\ IsStack(s)
    /\ \A i \in DOMAIN s :
         /\ s[i] = [k |-> s[i].k, start |-> s[i].start, items |-> s[i].items]
         /\ s[i].k \in {"list", "quote"}
         /\ s[i].start \in Nat /\ s[i].start < n

StackInv == StackBefore(stack, index)

\* Where a function is entered, or left without a form.
AtInv ==
    /\ at \in Peeks \cup {"drive", "return", "wrap", "end"}
    /\ at \in {"drive", "next", "end"} => stack = <<>>
    /\ at = "list" => stack # <<>> /\ stack[1].k = "list"
    /\ at = "wrap" => stack # <<>> /\ stack[1].k = "quote"
    /\ at \in {"atom", "open_list", "quote"} =>
         has_peeked /\ peeked.type \notin {"RIGHT_PAREN", "END"}
    /\ at = "sexpr" /\ stack = <<>> => has_peeked /\ peeked.type # "RIGHT_PAREN"
    /\ at = "return" /\ stack = <<>> /\ ~ret.ok => has_peeked /\ peeked.type = "END"
    /\ at = "end" => has_peeked /\ peeked.type = "END"

IInv ==
    /\ text \in Texts
    /\ BufferInv /\ ContextInv /\ LexInv /\ PeekedInv /\ StackInv /\ AtInv /\ RootsAreLive
=============================================================================
