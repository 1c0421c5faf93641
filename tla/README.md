# Verification of the Lisp interpreter

This directory holds a TLA+ development of the interpreter in `src/` (the C
sources) and `include/`: modules that model its parts, TLC configurations that
model-check them on small instances, and theorems checked by TLAPS.

## 1. The system

`lisp [path]` reads S-expressions from a file or from standard input, evaluates
each of them and prints its value or an error with a backtrace.  It is one
single-threaded process.  Its hard part is not concurrency but *memory*: a
copying collector may move every object at any allocation, so that each C
variable that holds an object across an allocation must be registered
("rooted") and unregistered on every path out of its function, and the
evaluator is a web of mutually recursive functions with early exits.

| part | state it keeps | operations | talks to |
|---|---|---|---|
| arena allocator (`arena.c`, `util.h`) | `base`, `next`, `end` | init, alloc, reset, free, capacity | `malloc` |
| collector (`gc.c`) | two arenas, root array, type table, `collecting`, `jmp_buf` | root, unroot, alloc, collect, copy, clear forwarding, resize | arena; callbacks of the registered types |
| S-expressions (`sexpr.c`) | symbols, strings, numbers, cons cells | casts, printing, collector callbacks | collector |
| VM, environments (`vm.c`) | collector, global variables, functions; an environment is two parallel chains | allocate objects, set and look up in an environment | collector |
| evaluation context (`eval-context.c`) | error, stack of frames with their environments | push, pop, add symbol, look up, record an error | VM, collector |
| evaluator (`eval.c`, `eval-impl.c`, `builtin.c`) | the C stack; a context per top-level form | eval, call, 47 built-in names | context, VM |
| parse context (`parse-context.c`) | list of errors | add, count, print | collector |
| lexer (`lexer.c`) | buffer, its capacity, position, the open file | next token, fill the buffer | `fgets`, parse context |
| parser (`parser.c`, `s8.c`) | one token of look-ahead and its error flag | next S-expression | lexer, VM, parse context |
| driver (`main.c`) | the VM, the parser | read, evaluate, print | all |
| tests, fuzzer (`test.c`, `fuzz.c`) | – | run the above | all |

How they interact: the driver asks the parser for one S-expression, hands it to
`eval`, and prints; `eval` allocates a context, and `eval_internal` /
`eval_func` / the built-ins call one another.  Everything allocates through
`gc_alloc`; when the active arena is full the collector copies what the root
array reaches into the inactive arena through the `copy` callbacks of the types,
and swaps.  If the inactive arena fills up, the allocation *inside* a copy
callback does a `longjmp` back to `gc_collect`, which grows that arena, clears
the forwarding pointers of the abandoned attempt and starts over.

What is hard here, and what correctness means:

* **collector** – a collection abandoned half way, several roots of one object,
  one variable rooted twice, growth up to the limit.  Correct: the client cannot
  tell that anything moved, and every call returns or exits.
* **arena** – arithmetic at the end of memory and near `PTRDIFF_MAX`.  Correct:
  blocks inside, disjoint, aligned; nothing refused that fits.
* **evaluator** – each early exit must unroot what was rooted; every value that
  is live across an allocation must be rooted; the scoping of `let`, `begin` and
  calls; errors that keep the frames; recursion that does not end.  Correct: the
  value of a form does not depend on when the collector runs, and is the one the
  tests ask for; the root array is balanced; every session ends.
* **lexer** – reads beyond the buffer in the middle of a token or of a character;
  restarts after comments and errors; decodes bytes that need not be UTF-8 in
  nested loops.  Correct: every byte is read once and counted to one token or gap,
  a token is flagged exactly when it is flawed, every loop makes progress.
* **parser** – a flag that only the second peek writes; two passes over a string
  that must agree; recovery from unterminated lists and missing operands; roots
  on a recursion with early exits.  Correct: a form is what its tokens write, it
  is refused for its own flaws only, and no variable stays rooted.

## 2. Modules

| module | models | extends |
|---|---|---|
| `Arena` | the operators of `arena.c` and `grow_capacity` | |
| `ArenaClient` | one arena under any sequence of calls | `Arena` |
| `ArenaProofs` | the theorems on the arena | `ArenaClient`, `CommonFacts` |
| `Reachability` | *not code*: what pointers lead to, the least closed set | |
| `Gc` | `gc.c` with the callbacks of all types, and its client | `Arena`, `Reachability` |
| `ObjectStore` | *abstract*: what the collector promises, objects that never move | `Reachability` |
| `GcProperties` | invariants of `Gc`, its refinement of `ObjectStore`, termination | `Gc` |
| `GcInvariant` | the inductive invariant of `Gc` | `GcProperties` |
| `GcProofs` | lemmas and theorems on the collector | `GcInvariant`, `CommonFacts` |
| `StoreInvariant` | what the collector keeps of the objects in use | `GcInvariant` |
| `StoreProofs` | the proof that `Gc` implements `ObjectStore` | `StoreInvariant`, `GcProofs` |
| `CommonFacts` | lemmas on sequences, stacks, natural numbers and the arithmetic of alignment | |
| `Lexer` | `lexer.c`, with the errors of `parse-context.c` | `Arena` |
| `Parser` | `parser.c`, and the loop of `drive` that reads | `Lexer` |
| `ReaderProperties` | invariants of the lexer and the parser | `Parser` |
| `FormProperties` | what S-expression a sequence of tokens writes | `ReaderProperties` |
| `ReaderInvariant` | the inductive invariant of the reader | `ReaderProperties`, `CommonFacts` |
| `ReaderProofs` | the theorems on the reader | `ReaderInvariant` |
| `TextInvariant` | the part of it that relates the tokens to the bytes | `ReaderInvariant` |
| `FlawInvariant` | the part of it that relates the error of a token to its bytes | `TextInvariant` |
| `TextProofs` | the theorems on the tokens, their errors and the text | `FlawInvariant`, `ReaderProofs` |
| `EvalInvariant` | the inductive invariant of the evaluator | `EvalProperties`, `CommonFacts` |
| `EvalProofs` | the theorems on its stack, roots and errors | `EvalInvariant` |
| `ValueInvariant` | the part of the invariant that speaks of values | `EvalInvariant` |
| `ValueProofs` | the theorems on values, and on those a collection has left behind | `ValueInvariant`, `EvalProofs` |
| `SExpr` | S-expressions as values, validators, built-ins that only compute | |
| `Environment` | `env_init`, `env_set`, `env_lookup` on their two chains | |
| `Eval` | `drive`, `eval`, `eval_internal`, `eval_func`, the other built-ins | `SExpr`, `Environment` |
| `EvalProperties` | invariants of `Eval` | `Eval` |
| `MeaningProperties` | what a form means, and that `Eval` computes it | `EvalProperties` |
| `MCArena`, `MCGc`, `MCReader`, `MCEval` | instances for TLC | |

`Parser` composes with `Lexer`: they share `context`, and a peek of the parser is
a call that starts the lexer and takes its token.  `Lexer` uses `grow_capacity` of
`Arena` for its buffer.  `Eval` is fed with forms, not with text: what the reader
hands over is `results` of `Parser`, and `FormsAreRead` says what they are.

Definitions named `...` under a comment that starts with *Mutant* are not used:
they are plausible bugs, one for each property, and replacing the definition
that follows by them makes TLC report that property.

### Arena

An arena is the record of its three addresses on a machine whose `size_t` holds
`SizeMod` values.  `ArenaPadding`, `ArenaFits`, `ArenaBlock`, `ArenaBump` are
the lines of `arena_alloc`; `GrownCapacity` is `grow_capacity` with its two
clamps.  `ArenaClient` adds the blocks handed out since the last reset as a
history variable; `malloc` may return any of `Addresses`.

### Gc

The heap maps places (space, offset) to objects: an id that stands for the
payload and survives copying, the child pointers, the forwarding pointer.  The
number of children tells the registered types apart (leaf; parse error node;
cons cell or context; frame), because that is all `copy` and `get_children`
differ in.  `slot` is the C variables, `roots` the root array with repetitions.

The recursion of `gc_copy_object` and of `gc_clear_forwarding_object` is the
variable `stack`; every allocation in a copy is a step that either succeeds
(`Evacuate`) or jumps out (`Abandon`): resize, then phase `clear`, then `copy`
from the first root.  `phase` is where `gc_collect` is, `req` the request the
client waits for: its stage is the position in `gc_alloc_untyped` (the stress
collection, the first attempt, the loop that grows).

The client follows the rule of the code: a variable it uses after an allocation
is rooted.  After a collection an unrooted variable reads `NULL` in the model,
since the rule forbids to read it.  What happens when the rule is broken is the
subject of `Eval`.  The client builds no cycles and, but for the run on it, no
object two of whose children are the same.

`ObjectStore` has no addresses and no collections.  `ImplementsStore` maps each
state of `Gc`, also one in the middle of a collection, to a store: variables and
children are read through the payloads.  Every step of the collector must be a
stutter, or `Forget` (unrooted variables are lost), or the end of the call.

### Lexer

A byte is a number from 0 to 255.  `input` is what the buffer holds, `unread` what
the file still has; `GetInput` is one call of `lexer_get_additional_input`: it
grows a full buffer to `GrownCapacity`, lets `fgets` append up to a newline or
what there is room for, and cuts at a NUL, as `strlen` does.  It happens exactly
where the code looks beyond the buffer (`NeedsInput`): with no byte left, or in
the middle of a character of two bytes.

`lex` is the frame of `lexer_next_token`.  `lex.pc` names the loop it is in, one
turn of which is one step: blanks, comment, symbol, atom, string, suffix, and
inside of an escape `escape`, `unicode`, `digits`, `hex`; `skip` is
`lexer_skip_invalid_utf8`, and `resume` the loop it was called from.
`lex.utf8_error` is kept as the code keeps it, written by failing peeks only,
because one loop reads a stale value of it (see *Findings*).  The constants of
the code that can be reached by no byte (the lead patterns of three and four
bytes) and those with a digit too few are the code's.  `DigitsMod` and `WordMod`
are the widths of `digits_read` and `val`.

### Parser

`stack` holds the activations of `parser_parse_list` and `parser_parse_quote`,
`at` where the innermost function is, `ret` what the last one returned.  A symbol
or number is its bytes, a string what the second pass of `parser_parse_string`
writes; `Decoded` runs both passes, with the bytes that stay unwritten for
characters beyond 7F as `Unwritten`.  `roots` is the set of rooted variables,
each with the depth of its activation, since all roots of the parser are local
variables and none is rooted twice.  `results` is what `drive` got, each with the
tokens it was made of, and `taken` the tokens of the form being read; both are
history.  Allocations are not steps of their own: the parser publishes a cell
only after it is complete, and which variables must be rooted is `RootsAreLive`.

### SExpr, Environment and Eval

Cells are not changed once they are published, so that an S-expression is a
value: an atom, or a sequence of elements with what its last `cdr` is.

`Eval` is a machine: `konts` is the C stack, `mode` what the innermost function
is about to do (evaluate, call, apply a built-in or a body, return success or
failure).  An activation is named after its function and the place in it, and
carries the variables it needs later.  Frames and globals hold an environment of
`Environment`: the chain of symbols and the chain of values, which `env_lookup`
walks in step; a rebound name lies before the old binding.  `Forms` is the constant that
says what the forms of the programs are made of: it holds them and all their parts
(`FormsAssumption`), and not the symbol `'function`, which the reader cannot produce because
a quote is a token of its own (`lexer.c:524`).  The `SExpr** result` parameters are
modelled as what they are: a value is delivered to the nearest activation that
owns a variable (`Deliver`); functions that pass `result` on own none.  So a
built-in that succeeds without writing leaves the old contents, as the code does.

*Collections.*  Each step that allocates chooses whether a collection happens
(`\E collect \in BOOLEAN`).  A collection makes every unrooted variable that
holds an object `Stale`, a pointer to where the object was, in all activations
on the stack; rooted ones follow the object and stand for themselves.
`Unrooted` says which variables the code leaves without a root: `tmp` of
`eval_func` and `eval_result` of the built-ins.  To use a stale value is
undefined behaviour and ends the behaviour in `Fault`, as does a failed
`ASSERT`, for instance that of a cast when `eval_func` meets parameters that end in
something else than nil (`CallAborts`; no validated definition has such).  `nroots` counts the entries of the root array and is changed on each
path by what that path roots and unroots.

*Collections and undefined behaviour are coarser than in the code*: the
allocations of one step (a frame and its environment, the cells of a binding)
are one choice; where the code mixes safe and unsafe allocations in one step
(`function` on a built-in, a refused `define`), both outcomes are choices.  A
root that outlives its variable (see *Findings*) is counted, but the writes of
later collections through it are not modelled: the assertion in `drive` stops
the program at the end of the form.

## 3. Runs

All runs finish in less than four minutes, most in seconds.

| run | question | bounds |
|---|---|---|
| `arena` | are blocks inside, disjoint, aligned, refused only when nothing fits; does growth grow | 4-bit words, capacities 3, 6, 7 (the clamp), an aligned and an unaligned address, sizes 1–3, alignments 1, 2, 4 |
| `gc` | does the collector implement the store, with layout, forwarding and sharing right | 2 variables, 2 root entries, a frame, a cell and 2 leaves, alignment 2, arenas of 5 and 7 units |
| `gc_live` | does every allocation end | the stress build; a cell, a parse error node and a leaf, arenas of 1, 2, 3 units |
| `gc_shared` | *violation*, see below | the same in the ordinary build, with shared children |
| `reader` | are tokens, forms, flags and errors those of the text; is all of it read; are the roots balanced | about 14000 texts of up to 5 bytes around their prefixes, first capacity 3 |
| `reader_escape` | *violation*, see below | string literals with `\u{7F}` and `\u{80}` |
| `reader_comment` | *violation*, see below | comments with up to 3 bytes |
| `eval_pure` | has every form its meaning, and every failure its error, wherever a collection happens | about 6000 forms, depth limit 3 |
| `eval_sessions` | do the integration tests give their outputs, and runaway and failing sessions end within the depth, wherever a collection happens | 8 sessions of 3 to 13 forms translated from the tests, 19 that fail or try to forge a function; depth limit 20 |
| `eval_define`, `eval_branch`, `eval_and` | *violations*, see below | one session each |

Why these bounds reach the interesting cases:

* *gc*: a frame (three children) and a cell (two) can be linked either way, share
  the leaves, and do not fit where they fitted once copied in another order,
  because of the padding.  An arena of 5 units takes a frame and its first two
  children but not the third, so that a collection is abandoned with a child
  forwarded that only `get_children` of frames can lead the clearing to; it grows to
  the clamped 7, which live objects may still exceed, so that `grow_capacity` fails
  as well.  Arenas that double more than once are those of `gc_live`.  Two root
  entries suffice to root one variable twice, or two variables of one object.  The
  client may collect at any time, so that what the stress build does is among the
  behaviours; its own branch of `gc_alloc` is taken in `gc_live`, which has the one
  shape that is left, an object with one child.  The two variables, and the two
  leaves, are interchangeable in the specification and the properties, so that
  symmetry is sound; `gc_live`, which checks liveness, uses none.  The view leaves
  out objects of the active arena nothing leads to: no step reads them and each is
  gone after the next collection.
* *eval_pure*: every operand of a form is replaced by every smaller form, so that
  every error occurs in every position; four levels of nesting exceed the limit.
  `and` with a false first operand is left to `eval_and`.
* *reader*: the sets of texts each take one part of the grammar: everything next to
  everything (length 3, and 4 with fewer bytes), nested lists and quotes, what is
  almost a number, whole and broken characters of two bytes in every place, overlong
  ones and characters of three and four bytes, NULs, escapes, and `\u{...}` at each of
  its limits, those of Unicode (`10FFFF`, `110000`) and those of the code (`10FFF`,
  `11000`).  A first capacity of 3 makes the
  buffer grow twice and lets pieces of the input end inside tokens, escapes and
  characters.  `DigitsMod = 8` lets the count of digits wrap around with eight of
  them; `WordMod = 2^24` is the least the assumption `LexerAssumption` allows: six digits, the
  most an escape may have, do not wrap (they need 24 bits, the code has 32).  Each text is read from a file and, at once, from memory.
* *eval_sessions*, the tests: translated from `test/sprint-5` to `sprint-9`, with numbers that
  are integers (the division in `let.i` is replaced by a product), including a
  sort with three elements and mapping a lambda and a named function.
* *eval_sessions*, the others: each error path of each built-in that owns roots; recursion
  through `define`, `eval` and `or`, which goes on after the first failure; a
  `funcall` of `funcall` to a chain of 22; values used after they moved, in each of the ways; and sessions that cut a structure
  apart, put its parts together again, or put something in front of it and evaluate the result.

Properties worth a note:

* `ValueIsMeaning` compares the machine with `Meaning`, a recursive definition
  with no stack, context, frames or roots.  It says at once that arguments are
  evaluated left to right, that untaken branches are not evaluated, that the
  innermost binding is found, and that collections do not show.
* `RootsMatchStack` holds on every path, in the middle of a form too;
  `RootsBalanced` is the assertion of `main.c:22`.  It fails for one built-in.
* `DepthBounded` allows a frame more for each `funcall` in progress: `funcall`
  calls `eval_func` directly, so that a `funcall` of `funcall` passes the limit
  of 4096 by as many frames as it has arguments.
* `StructuresAreGenuine`: `funcall` looks at the mark `'function` in front of a list and
  takes the rest apart without a check.  That is harmless only because no program can get at
  the mark: `car` and `cdr` refuse a structure, no operand of another built-in is evaluated
  to a part of one, and a name with a quote cannot be written.  Were any of these different,
  a program could make `funcall` read the car of an atom.
* `FailureHasError`: a failure without an error would be printed as `()`.
* `GapsAreBlank`, `AtomsAreWhole`, `FlawsAreFlagged` and `StringsFit` describe
  tokens by the bytes they cover, without the loops, the position or the buffer.
* `FlawsAreFlagged` takes its reference from UTF-8 (characters of one to four bytes,
  none overlong, no surrogates, nothing beyond 10FFFF) and from the comments on the
  escapes (`lexer.c:292`, "arbitrary unicode codepoint"; one to six digits,
  `lexer.c:327`), not from the tests of the code, which differ from it.  The
  differences are named: `Tolerated` is what passes although it is ill-formed
  (two bytes beginning with C0 or C1, `\u{}`, and `\u{...}` with so many digits that
  their 8-bit count wraps), `Unsupported` is what is refused although it is
  well-formed (characters of three and four bytes, escapes beyond 10FFF).  A token
  without an error is well-formed but for tolerated pieces, and one with an error is
  not well-formed, or has unsupported pieces.  So the property fails for an error that
  goes unnoticed, for one that is blamed on the next token, and for any divergence
  besides those; with both sets empty it would be false of the code.
* `StringsFit` is about where the two passes over a string go, not about what they
  write: no byte is read outside the token and none written outside the object.
  That every byte of the object is written is `EscapesArrive`, which is false.
* `FormsAreRead` and `RefusedIffFlawed` compare each result with `Reads`, a
  recursive relation between tokens and S-expressions, and with the nesting of the
  parentheses; they hold in spite of the recovery, which is their point.
* `FlagsAreWritten`: `parser_peek_token` leaves `*had_error` unwritten when it lexes
  the token.  That is harmless as long as each reader of a flag is called with the
  token peeked, which is a property of the whole parser.

### Fairness

`Gc` assumes weak fairness of the steps of the allocator and collector: they run
in the thread of the client that called them, and nothing but their own code
decides when they continue.  No fairness is assumed of the client.  `Eval`
assumes weak fairness of the interpreter's steps, for the same reason; its input
is there from the beginning.  So does the reader: it is one thread, a file answers
each `fgets`, and each of its steps is enabled until it ends.

### Findings

* `gc_shared` (`sexpr.c:227`): in a cell whose car and cdr are the same object
  the get_children callback returns that child for ever, so that clearing the
  forwarding pointers after a failed copy does not return.
* `eval_define` (`builtin.c:769`): a refused definition leaves `args` rooted and
  the assertion of `main.c:22` aborts the program.
* `eval_branch` (`builtin.c:518`): `(if 1 (set x 2) 3)` prints through a pointer
  to where the 1 was, since `set` writes no result and `eval_result` is not
  rooted.  `cond`, `and` and `begin` do the same.
* `eval_and` (`builtin.c:446`): a false `and` reports failure without an error;
  at the top level nobody notices, inside another form that form is abandoned.

* `reader_comment` (`lexer.c:457`): bytes that are not UTF-8 in a comment, followed
  by a newline, fail the assertion of `lexer.c:211`.  `ASSERT` is enabled in every
  build (`util.h:67`).
* `reader_escape` (`parser.c:250`): for an escape that stands for a character of
  several bytes the second pass of `parser_parse_string` stores every one of them at
  the same place, so that one is written, without the bits of a lead byte, and the
  others stay what the allocator left there.  The trace is `"\u{80}"`; `\x80` to
  `\xFF` are affected as well.  Escapes beyond 10FFF do not get that far:
  `lexer.c:328` refuses them, a digit short of the limit in `lexer.c:151`.

Without a run of their own, in the lexer and the parser: characters of three and four
bytes are always refused (`lexer.c:127` compares a shifted byte with a constant it
cannot equal); overlong characters of two bytes, `\u{}` and escapes whose count of
digits wraps are accepted (all of these are parts of `FlawsAreFlagged`); invalid bytes
directly after an opening quotation mark end the string (`lexer.c:478`); a NUL hides
the rest of its line, and closes the input at the beginning of one (`lexer.c:85`); the
errors of a comment after the last form are dropped (`parser.c:451`).  The model has
all of these.

Without a run of their own, in the evaluator: `function` on a built-in reads unrooted variables
(`builtin.c:535`; `ApplyFunction` models it, and `eval_sessions` includes it);
`funcall` and the depth limit (see `DepthBounded`); two equal numbers with a product
of zero or less are not `=` (`builtin.c:302`; `NumbersEqual`); `define` records the error of
a refused definition in a context that may have moved (`ApplyDefine`).

## 4. Proofs

All theorems are proved for every value of the constants that the `ASSUME`s of the
modules allow: any word size `SizeMod > 2`, any set of variables and payloads, any
sizes, arities up to 3, alignment and initial region size up to `PTRDIFF_MAX`; in
particular for graphs of objects, roots and arenas far beyond what TLC explores.
TLC evaluates the assumptions for the values of the runs.  That `NULL` and `Garbage` are no
places, and `NULL` no payload and no request, is all that is assumed of them.

**Operators** (`CommonFacts`, `ArenaProofs`).  The padding is smaller than the alignment and leads
to a multiple of it; `count <= room / size` guards the product `count * size`;
`grow_capacity`, where it succeeds, returns more than there was and at most
`PTRDIFF_MAX`.

**Arena** (`ArenaProofs`).  `AInv`, the conjunction of `TypeOK`, `BlocksInside`,
`BlocksDisjoint` and `BlocksAligned`, is inductive as it stands.  Theorems:
`ArenaTypesAlwaysOK`, `BlocksAlwaysInside`, `BlocksAlwaysDisjoint`,
`BlocksAlwaysAligned`, and `ResizeAlwaysGrows` for the action property.
`AlwaysRefusesOnlyWhenFull` is the converse: what is refused fits at no aligned
place.  It needs that the padding leads to the *first* multiple of the alignment
(`FirstMultiple`) and that the division `room / size` rounds no object away
(`ProductFitsQuotient`), for numbers whose product is not linear arithmetic.

**Collector** (`GcInvariant`, `GcProofs`).  None of the properties of
`Gc` but the layout is inductive alone.  The invariant `IInv` adds, phase by phase,
what a collection has done so far:

| part | says | needed because |
|---|---|---|
| `WellFormed` | children as many as the arity; the first two of a frame not `NULL` | the copy has the fields of the original; `get_children` of frames tests neither |
| `OldObjectsWhole` | fields of old objects stay in the active arena | it is what `NothingDangles` says, kept through a collection |
| `CopiesUnforwarded` | copies have no forwarding pointer | `AssignRoot` takes its absence for "already updated" |
| `VariablesOld` | no variable is changed before the last copy is made | an abandoned attempt must leave valid roots |
| `CopyInv` | the activations on the stack know the copy of their object; a field of a copy is written, or an activation is still to write it; the roots passed so far have copies; *every object with a copy is a root, or has a parent whose copy is at a lower address* | `CopyComplete`; and the last part for `ClearInv` |
| `ClearInv` | every object that still has a forwarding pointer is referred to by a root ahead, or is a child of an object on the stack, or has a parent with a forwarding pointer that was evacuated before it; an activation has passed only cleared children (`Passed`) | after the clearing no forwarding pointer may be left |
| `AssignInv` | a root passed points to a copy, one ahead to a copy or to an object that has one | a variable may be rooted twice |

The argument with substance is that clearing by the *same traversal* that copied,
after the copies are gone, finds every forwarding pointer although it stops at
objects that have none.  A pointer that were left over when the last root is
done would have a parent with one that leads to a lower offset: the offsets of the pointers left
have no least element, which the naturals do not allow (`AllCleared`, from the
well-foundedness theorems of the library).  For the get_children callbacks,
which only compare the last child with the fields, `NextChildFacts` proves that they
pass over no child even where two fields are equal; that they then end is another matter
(`gc_shared`).  `BlockFacts`, `LayoutGrows` and `LayoutShrinks` are the lemmas
on allocation: a new place lies beyond every object of its space.

`InitEstablishes` and `StepKeeps` (one lemma per action or group of alike actions, below
it one step per conjunct) give `Spec => []IInv`, and from it the theorems
`TypesAlwaysOK`, `LayoutAlways`, `ForwardsAlwaysLeadToCopies`,
`CopyAlwaysComplete`, `NothingEverDangles` and, for the action property,
`OldObjectsAlwaysKept`.  `IInv` was model-checked on instances
with cells, frames and parse error nodes, and with shared children, before it was proved.

**Refinement** (`Reachability`, `StoreInvariant`, `StoreProofs`).  `Live`, what the
variables lead to, is defined as a least closed set and not by recursion, so that
induction over the length of a path becomes two lemmas on sets (`ClosureFacts`,
`ClosureLeast`): to show that everything in use has a property, show that the variables'
objects have it and that it passes to children.  `StoreInv`, kept together with `IInv`:

| part | says | needed because |
|---|---|---|
| `SlotsKnown` | variables point to objects, in every phase | `Live` contains what they point to |
| `IdsDistinct` | two old objects in use, or already copied, have different payloads | the store knows an object by its payload |
| `RequestFresh` | the payload asked for is of no object in use, through all the collections a call takes | `New` makes an object that was free |
| `EvacuatedAreLive` | only what the variables lead to is copied | a copy's payload is not that of garbage |
| `CopiesMatch` | each copy is the forwarding pointer of exactly one old object | `SharingPreserved`; and what a copy stands for |
| `FieldsCopied` | each field of a copy is unwritten or the copy of that field of its original | following pointers among copies is following them among originals |

`StoreRead` is the lemma the refinement turns on: the children in the store are those of
*any* function that gives every object in use its children, trimmed to what the
variables lead to.  A step is mapped by naming that function: the old one for all steps of
a collection and for assignments, the old one with a field or an object changed for
`Store` and `AllocOk`.  The clients' actions become `Pin`, `Unpin` (with the
cardinalities of the entries of a root array from which the last one for a variable was
taken), `Refer`, `Mutate`, `Call` and `New`; copying, clearing, growing, starting again and
updating a root change nothing in the store, the last since a copy
has the payload, and by `FieldsCopied` the children, of its original; the end is
`Forget`.  Theorems: `ImplementsTheStore` and `SharingAlwaysPreserved`.  `StoreInv` was
model-checked on instances with cells, frames and error nodes before it was proved.

**Reader** (`CommonFacts`, `ReaderInvariant`, `ReaderProofs`).  Proved for every set
of texts of bytes, every first capacity from 3 to `PTRDIFF_MAX`, and every width of
the counters; so for texts, lines and nesting of any length.  The invariant `IInv`
of `ReaderInvariant`:

| part | says | needed because |
|---|---|---|
| `BufferInv` | an open file has room for a byte and a NUL in the buffer; without a NUL in the text, what was read and what is left make it up, and nothing is left once the file is closed | `WholeTextRead`: `fgets` without room reads nothing, and the end of the file is concluded from that |
| `ContextInv` | every error has at least one byte and lies in what was read | it is `ErrorsInsideText` with the types |
| `LexInv` | the token, and the escape inside it, have begun before the position; bytes to skip are ahead, or some were skipped | no error is empty, although its start was noted many steps ago, and in another loop |
| `PeekedInv` | a peeked end of the input is the end: everything was read and the file is closed; while a token is peeked the lexer rests | `WholeTextRead`, for a token that may have been peeked long before `drive` returns |
| `StackInv` | each activation began before the position | the error of an unterminated list covers a byte |
| `AtInv` | which functions are entered with a peeked token, and of which type; a return without a form at the outermost level happens at the end only | `FlagsAreWritten`; that `drive` stops at the end only |
| `RootsAreLive` | itself | inductive with the others |

Theorems: `InvariantHolds`, and from it `TypeCorrect`, `ErrorsHaveText`, `AllIsRead`,
`NoFlagIsLost` and `RootsMatchTheParser`.  `IInv` was model-checked on the texts of
`reader` before it was proved.  The lemmas on stacks (`StackPushed`, `StackPopped`)
need no set the elements come from, since an activation is a record with an
S-expression in it.

**Tokens and text** (`TextInvariant`, `TextProofs`).  `IInv` says where the lexer is,
not what lies behind it.  `TextInv`, kept together with `IInv`, looks at the bytes:

| part | says | needed because |
|---|---|---|
| `HistoryInv` | when the last form has been taken, the tokens of this one are those it was made of; inside of a list or quotation there is a token | `LastEnd` is the end of the last token, in this form or in the one before; it must not move when `drive` takes a form and the next one begins |
| `GapInv` | from `LastEnd` to the position, or to the start of the token once it has begun, there is only whitespace and comments; inside of a comment there is a semicolon with no newline after it; a peeked token ends at the position | `GapsAreBlank` |
| `TrailInv` | when only the end of the input can follow, no error lies before `LastEnd`; before the first token of a form a comment with invalid bytes goes on to the end of the input, or has `utf8_error` set, so that the end of its line fails the assertion | `OnlyTrailingErrorsDropped`: that a form never begins after such a comment is the finding `reader_comment`, seen from the other side |
| `AtomInv` | the loop over a symbol or number has passed no delimiter; its variables `digit`, `numeric` and `dots` say what was read, `dots` exactly only up to one; a name that starts beyond 7F is no number | `AtomsAreWhole` |

The argument needs characters where the invariant speaks of bytes: `CharFacts` shows
that a character of one byte is that byte, and that of a longer one both bytes and the
codepoint are at least 128, where `HighFacts` finds nothing that the lexer looks for
(`Codepoint` is a recursive function of at most
two steps, which is unfolded and not reasoned about by induction).  What grows with the position
(`NoDelimiter`, `SomeDigit`, `OnePeriod`, `Blank`, `Remark`, ...) is grown by one
character at a time (`NoneGrows`, `FirstGrows`, `BlankGrows`, `RemarkGrows`), and a byte
that was read stays what it was when the buffer is filled (`GetInputAppends`).  Theorems:
`TextHolds`, and from it `NothingBetweenTokens`, `WholeAtoms` and `DroppedErrorsTrail`.
`TextInv` was model-checked on the texts of `reader` before it was proved.

**Errors of tokens** (`FlawInvariant`, `TextProofs`).  `FlawsAreFlagged` speaks of
tokens with an error and of those without, so the invariant has to say two things of a
token that is being read: as long as it has no error, its bytes so far are what the lexer
accepts; once it has one, nothing that may follow makes them so.  The invariant is about
what the code accepts (`ProperUnicode`, `Valid`); that this and the reference agree but for the
tolerated and unsupported pieces is shown of a finished token, at the end.  `FlawInv`, kept together with `IInv` and `TextInv`:

| part | says | needed because |
|---|---|---|
| `Items`, `Literal`, `Valid` | the bytes of a string literal or symbol: there is a set of positions, from each of which one character or escape leads to another | a string is extended at its end, one item at a time; a set of positions can be extended on either side |
| `StringSoFar`, `EscapeSoFar`, `SymbolSoFar` | the bytes up to the position, the escape or the invalid bytes are such items; inside of an escape, how far it has come, with `digits` and `val` as functions of its bytes | the case that no error has been recorded since the token began |
| `NoLiteral`, `NoSymbol` | for every text the input may still become (`Becomes`), no literal begins where the token did, and no symbol goes on from there to the position or beyond | the other case: the input grows and the loops go on after an error, for instance from an escape that was broken off to a quotation mark that ends a different string |
| the test of `l.errors` | which of the two cases it is; while bytes are skipped their error is not recorded yet, but the token is lost as soon as one has been | the error of a token is the number of errors when it ends compared with that when it began (`lexer.c:568`), and `lexer_handle_utf8_error` adds its own only after the skipping |
| `FlagInv` | the token returned has an error exactly when its bytes are not what the lexer accepts | `FlawsAreFlagged` |

That a broken item is beyond repair (`Blocked`, `EscapeBroken`, `BadByte`) rests on
`ItemUnique`: two items that begin at the same position end at the same position, so
that all literals that begin there agree on where their items are.

From `FlawInv` to `FlawsAreFlagged`: every item is a piece (`Pieces`) or tolerated
(`ItemIsPiece`), and every piece is an item or unsupported (`PieceIsItem`).  For escapes this
needs that up to six digits wrap neither the count (`FewDigits`) nor a word (`WordMod >= 16^6`
in `LexerAssumption`) and that more than six either are refused or have wrapped
the count (`ManyDigits`).  `ItemsAreQuoted` and `QuotedIsItems` carry this over to strings,
`ValidIsCovered` and `CoveredIsValid` to symbols, `LiteralToken` and `ValidToken` from the
input to the token's own bytes.

`HexNumber` and `Decoded` are recursive functions on positions, which need no induction
theorem: a function that satisfies the equation is shown to exist, and two of them to
agree, by looking at the least position where they would not (`LeastElement`; see
`HexValuesExist`, `HexLonger`, `DecodeExists`).  `DecodedFacts` shows that
`Decoded` never leaves a literal the lexer accepts, and that for any `val` the second pass
advances over as many places as the first has counted.  Theorems: `FlawsHold`, and from it
`FlagsAreRight` and `StringsAlwaysFit`.  `FlawInv` was model-checked on the texts of
`reader` before it was proved.

**Evaluator** (`CommonFacts`, `EvalInvariant`, `EvalProofs`).  Proved for every set of
programs, forms of any shape and depth, every `MaxDepth`, and every choice of the
allocations that collect.  The invariant `IInv` of `EvalInvariant` looks at the kinds of
the activations, the number of frames, the mode and the error, and at no value:

| part | says | needed because |
|---|---|---|
| frames are counted | while there is no error, there are as many frames as activations of `eval_func`, besides the call that is about to be made | `FramesUnwound`; after an error frames stay, and nothing is said of them |
| `Limited` | of the n outermost activations, for every n, those of `eval_func` are at most `MaxDepth` more than those of `funcall` | the return of a `funcall` lowers the bound: what is left must be within the lower one already |
| a call has room | before `eval_func` is entered there is one frame less than the limit | `eval_internal` tests the depth, `eval_func` pushes the frame, two steps later |
| `EvalOutermost` | `eval` is the outermost activation and no other is one | its return leaves no activation; so 5 roots remain, and no frame |

`Balanced`, the root count that the activations make, is kept by every step from a state with
`IInv` but one: a `define` that refuses its definition (`RefusesDefinition`, the finding
`eval_define`).  Hence the hypothesis of `RootsMatchUnlessRefused` and
`AssertionHoldsUnlessRefused`, that no step is one; `DepthAlwaysBounded` and
`FramesAlwaysUnwound` need none.  `FailuresExplainedUnlessSilent` excludes one more step, an
`and` whose first operand is nil (`AndYieldsNil`): with these two, no function fails
without an error.  The argument is laid out in two layers: lemmas on
stacks of kinds (`KindPushed`, `Entered`, `Called`, `LeftFunc`, ...), in which no action is
mentioned, and one lemma for each action, which shows to which of them it maps.  `IInv`
was model-checked on the instances of `eval_pure` and `eval_sessions` before it was proved.

**Values** (`ValueInvariant`, `ValueProofs`).  `IInv` looks at no value; `VInv`, kept
together with it, looks at all of them: what is evaluated, bound, waited for, still to be
evaluated and put aside.

| part | says | needed because |
|---|---|---|
| `IsSExpr` | a value and all of its parts are made of the program's symbols and the few that built-ins make; where `'function` occurs in a list, it is followed by exactly an id, parameters and a body | a part of an S-expression is one, so that `car`, `cdr` and the selection of an operand need no argument of their own |
| `IsValue` | and is not the mark itself | values are what names are bound to and what `cons` puts together: neither can make a structure |
| `StructureAt` | the end of a list may be a structure that has something in front; then what is in the place of its id is no list of symbols | `cons` may put anything before a structure, and the result may be evaluated as a form, for instance as a `define`: the id of an unnamed function must not be taken for parameters |
| `StoreOK` | every frame, the globals and the functions hold chains of the same length, with values, and for functions structures | `TypeOK`; that `FuncallError` and `Lookup` find what they expect |
| `KontsOK`, `ModeOK` | each activation has the variables its function goes on with, and a result that is a value or `Stale`; arguments are as many as the function takes | every action reads fields that an action many steps before has put there |

`IsSExpr(x)` is *not* a recursive definition but the existence of a set with `x` in it that
is closed under parts: S-expressions of any depth, without an induction.  `Vocabulary`
turns an assumption on the texts of programs (`FormsAssumption`) into an invariant of everything
they compute.  `Ample`, that the root array never has less than the activations' entries,
adds that `nroots` stays a natural number where `Balanced` fails.  Theorems:
`TypesAlwaysOK` and `StructuresAlwaysGenuine`, without further hypotheses.

`Fresh` is what `NoStaleUse` takes in addition: the activation a reported success goes to
owns a variable that has not been left behind (`Given`), and the outermost activation, that
of `eval`, is always one (`Grounded`).  Every step keeps it but three, which
`NothingStaleIsUsed` excludes: a refused `define` (`eval_define`), `function` on a built-in
(`builtin.c:535`), and a `let`, `set` or `define` that succeeds where the variable of the
waiting activation holds an old value (`LeavesStale`; one case is `eval_branch`).  So the three are
all there are, in every program and for every choice of the allocations that collect.  That the
hypothesis is not a restatement of the conclusion is `NothingStaleWithoutAssignments`: from
`Assigning \cap Forms = {}`, a condition on the text alone (the symbols `set`, `let`, `define`
and `function` do not occur), follows `[](NoStaleUse /\ RootsMatchStack)`; `lambda`,
`funcall`, `eval`, `cond` and all others are allowed, and `VInv` is what shows that such a
program cannot come by the symbols in another way.

`VInv` and `Fresh` were model-checked on the programs of all five runs of the evaluator (`Fresh`
with the three steps excluded) before they were proved, with the set in `IsSExpr` found by
recursion, since TLC cannot enumerate all sets.

**Only model-checked.**  Liveness (`AllocationEnds`, both `Ends`) and everything
under fairness, which the prover does not handle.  The properties whose own statement
is a recursion over the nesting of forms, written with `RECURSIVE`, for which the prover
has neither an induction theorem nor a translation: `FormsAreRead`, `RefusedIffFlawed`
and `ValueIsMeaning`.  `OutputsAsTested`, which is about the programs of the tests and
their outputs, and has no other instances.

## 5. Not modelled

* The prompt of the interactive mode, `lexer_free`, the command line and the opening
  of the file.  A file that fails to be read looks like one that ends.
* Floating-point numbers, and with them `div` and `mod`; numbers are integers in
  `Eval` and texts in `Parser` (`AtomsAreWhole` says that `strtod` understands them).
* What is printed, the error messages and the backtrace; of an error only its
  kind is kept, and in the reader its range.
* The C stack and its size: the recursion of `gc_copy_object`, of the clearing
  and of the parser is as deep as the data.
* Allocations inside the parser: a collection there only moves what is rooted.
* `test.c`, `fuzz.c`, the Valgrind annotations, logging, `DEBUG_CLEAR_ARENA`.

## 6. Plan

1. `Environment` at the granularity of its allocations, refined by the operators
   `Eval` uses.
