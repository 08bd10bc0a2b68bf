# A TLA+ model of the toy C compiler

The repository is a compiler for a subset of C (only `int`, no pointers) that
writes x86-64 assembly and calls gcc to assemble and link it. This directory
models every part of it that computes or keeps something, checks the models with
TLC on small instances, and proves with TLAPS for every instance what matters most
about the symbol table, the hash map, the driver, the temporary files, the lexer
and the code that statements and expressions become.

## The system

| part | source | state | operations |
|---|---|---|---|
| driver | `cc.c` | options, sources, `asm_files_to_link` | `main`, `assemble`, `assemble_many` |
| temporary files | `lib/tempfile.c`, `lib/array.h` | `tempfile_list`, the objects, signal dispositions, the disk | create, fdopen, close, reopen, rename, commit, delete; exit and signal handlers |
| lexer | `lexer.c` | position in the buffer, line, tokens | `lex`, `free_tokens` |
| parser | `parser.c` | position in the tokens | recursive descent, precedence climbing, `free_ast` |
| code generator | `x86.c` | `struct x86_ctx`: table in force, `stack_index`, scope number, label stacks | one generator per statement and expression |
| symbol table | `symtable.c` | a map from names to symbols, copied for each scope | put, find, call, bytes in scope |
| user labels | `labelset.c` | status of each label of a function | reference, definition, check |
| hash map | `lib/strmap.c` | an hsearch table and an array of keys | put, find, copy, resize |
| label stack | `lib/stack.h` | an array | push, pop, peek |
| tree printer | `dot-printer.c` | none | prints |

The driver runs lexer, parser and code generator on each source in turn; they
return or end the process with `die()`. What they write goes to a temporary
file, and `exit()` and five signals remove the temporary files that are still
active. The code generator calls itself for nested statements and, around each
block, function body and `for` with a declaration, `generate_new_scope`, which
copies the symbol table. The only concurrency is that of signal handlers with
the code they interrupt, and of the gcc that `system()` runs with its parent.

What is hard, and what is right when it goes well:

- *scopes*: a copied flat table must answer like a chain of scopes, hand out
  storage that nothing alive uses, and survive any order of redeclarations;
- *expressions*: the value, the side effects and the traps of an expression are
  what C says, although operands wait on the stack while others run;
- *the language*: what is accepted is C of the subset in the README, with the tree
  its grammar gives it; tokens are the longest lexemes and know where they stand;
- *the hash map*: a table of fixed size and an array of keys beside it answer like
  one map that grows;
- *the frame*: `%rsp` is moved at run time, `stack_index` at compile time. They
  are to agree on every path the emitted jumps can take, so that nothing live is
  below `%rsp`;
- *labels*: each is defined once, `break` and `continue` bind to their loop;
- *signals*: at every statement of the library the handler must find a list it
  can walk, remove what is temporary and nothing else;
- *partial failure*: any step of the driver may fail with other sources still to
  come or already written.

`PROJECT.json` lists each such hazard with its line and the properties about it.

## Modules

### `Scopes`, `Symtable`

`Scopes` is the specification of block scoping: a chain of frames, one for each
open scope; a name means its innermost binding, a new local gets storage that
overlaps no live one, leaving a scope forgets it.

`Symtable` is what the code does. `tabs[d]` is the table of scope `d`; those
below `scope` are the `saved_symtable` of the calls of `generate_new_scope` in
progress, `tabs[scope]` is `ctx->symtable`. `idx[d]` is likewise the saved or
current `stack_index`. A source program is a sequence of actions: `GlobalVar`,
`Prototype`, `Define`, `Declare`, `Reference`, `Call`, `OpenScope`,
`CloseScope`, `Finish`. Anything the code rejects sets `status` to `"died"`; the
`BUG` and the assertion of `symtable.c` set it to `"bug"`. `fdefs` and `vdefs`
count how often a label was emitted. A parameter list `()` is told from `(void)`
as the parser does (`empty_parameter_declaration`).

`Symtable` implements `Scopes` (`ImplementsScopes`): frame `d` of the chain holds
the symbols of `tabs[d]` that carry the number `d`.

### `Frame`

The statement generators. `work` is the stack of what the recursive calls have
left to do, `code` the instructions emitted; each action is the part of a
generator up to its next recursive call, for any statement the parser can put
there. When a function is complete it is run: `pc` and `depth`, which is
`%rbp - %rsp`. An instruction has in `at` the `stack_index` the generator had
when it emitted it, which is what the generator believes `depth` to be.

- An expression is one instruction, `Eval`, or `Branch` when it is the condition of a
  jump. It pushes and pops below `%rsp` and leaves it where it was, which
  `Expression` shows (`IndexIsRsp`), unless it has calls with arguments on the stack:
  for each such argument 8 bytes are pushed and 4 released (`x86.c:336-357`), and 4
  stay. The generator adds them to `stack_index` where it meets the call
  (`Generated`), the processor moves `%rsp` only where the call is executed, and
  within an expression `&&`, `||` and `?:` may skip it (`Behind`).
- Names are not looked up here (`Symtable` does that), so a declaration is never
  rejected. `generate_var_decl_list` is a sequence of declarations; a `for` with
  a list of declarations has one.
- The static counters of the label generators are one counter: the labels have
  different prefixes in the code, one number is enough to tell them apart.
- An expression that is left out (`for (;;)`, `return;`, `;`) is an instruction
  that does nothing.

`uses` records what the source used (break and continue, labels, gotos, calls with
arguments on the stack), for the properties that leave some out.

### `Tempfile`

A call is a sequence of steps (`todo`), one for each statement with an effect a
handler can see, and `Signal` may come between any two. As a handler never
returns to what it interrupted (it restores the default action and raises the
signal again) its steps replace those that were left. `arr` tells whether the
pointer to the array is null, good or stale. Any use of released memory leads to
`status = "undefined"`. A close that fails leaves the file `"torn"`.

- `signal_set_common` is one step: a signal between two `signal()` calls finds
  either disposition, and both are reachable around the step.
- Clients do not give two live objects one path, nor rename an object onto a
  path in use, its own included. `cc.c` does neither.
- `memmove` is one step; `realloc` always moves the block, the worst case.
- Calls on an inactive object that the library answers with `BUG` are not made.
  `unlink` succeeds. The handlers call functions that are not async-signal-safe
  (`free`); that hazard is not in the model.

### `Driver`

`main()`: options in any order, one loop round for each source, gcc, exits. A
call of the library is one step here, and `Cleanup` is what both handlers do (what a
second signal meets inside of it is in `Tempfile`). Only the call that
makes a file has two: `CreateAsm` is `open` or `mkstemps`, `ActivateAsm` is
`activate_tempfile`. Between them the file is there, with `-S` the user's old one
cut to nothing, and no handler knows of it; `Unregistered` names it.
Distinct sources have distinct names; gcc writes its output at once, at its end,
or fails; it may outlive a parent that was killed.

### `Expression`

`Generation` is `generate_expression`: from a tree to a list of instructions, each
with the `stack_index` the generator had then, the argument registers and the
label counters included. The recursion is that of the function `Code`, which has
the code of each expression at each `stack_index`, for each number of labels made
and each `require_value`; `Generate` puts the code of a part behind what was
emitted so far. The constants are the expressions (`Exps`, with `Height`, that of a
tree), the width of words, the argument registers, and what functions return and
leave in the variables (`Result`, `After`). The actions are the instructions: registers, flags, a
stack in units of 4 bytes (what `push` writes is 8) and the variables. `CValues` is what C
allows: every outcome of any order of evaluation of operands and arguments, or
undefined behaviour. Words have `Bits` bits.

- A function is external: its result depends on each argument, their order and the
  variables, which it changes; it destroys the registers the ABI lets it destroy.
- Names are not looked up (`Symtable`), a variable is one cell. Compound
  assignments are the trees that the parser makes of them.
- Overflow wraps, the shift count is taken modulo the width and `>>` of a
  negative number shifts zeros in (`shr`): C leaves these undefined or to the
  implementation, and `CValues` takes the values of the instructions.

### `Parser`, `DotPrinter`

`Parser` has one operator for each function of `parser.c`, recursive where the
function is; a result says whether the parser died, where it stands, the tree
and how many blocks of memory were allocated for it. A state is a sequence of
tokens, which grows as long as the parser would read on; `ParseTokens` parses
it. Beside it stands the grammar of annex A of C11 for the language of the
repository's README (`Rules`), and `Language`, which derives from it all
sentences of a vocabulary up to a length, each with its tree, without any use of
the parser. `DotPrinter` draws the picture of a tree node by node. Trees have
names and no pointers to tokens. Where the parser takes something else than C11
the rule says so, or the property exempts it:

- unary `+` leaves no node, so that `+a = 1` is accepted (`parser.c:123`);
- a declaration may follow a label, even where only a statement may stand
  (`parser.c:573`);
- the operand of a prefix `++` or `--` is read as a whole expression
  (`parser.c:128`), so that `++a + b` is rejected: `IncrementContinued`;
- in arguments and initialisers no comma may stand between `?` and `:`
  (`parser.c:329`): `CommaInside`;
- the initialiser of a global is a literal (`parser.c:676`);
- `free_ast` leaves the `struct ast_toplevel_item` of each item: `Released`.

### `Lexer`

`lex()` over the texts of a set (`Texts`; the run has all those that can be put
together from the pieces of a vocabulary), one action for each round of its loops. `Code`, `Places` and `LexemeLength` say
what the text means without reference to the chain of alternatives. The line
that is kept with a token is copied without a NUL when it ends in a newline
(`string-util.h:17`), so `junk`, whatever stands behind it in memory, is shown
too. Integers have `IntRange` values: a larger literal wraps without a word, and
one that starts with `0` is read as a decimal (`lexer.c:424`). The sentinel's
line is never freed.

### `StringMap`, `Strmap`

`StringMap` is what `strmap.h` promises: maps from strings to values that
remember the order of their keys. `Strmap` is the code: entries in a table of the size
that `hcreate_r` chose (external: `Slots`), the array of keys, `table_alloc`,
`keys_alloc`. `died` says of what the program died: a call out of order, no
memory, no room in the table, or a key that the array has and the table has not.
`Strmap` implements `StringMap`, up to what the values point to, since a resize
calls `val_cpy_fn` although `strmap.h:11-14` says values are not copied.

## Runs

| run | instance | states | result |
|---|---|---|---|
| `symtable` | 2 names, 3 scopes, 3 locals alive, calls in registers | 64 000 | all properties hold |
| `frame` | functions of about 10 instructions, 1 label, up to 1 parameter, 1 expression that leaves bytes | 5 028 000 | all properties hold |
| `frame_goto` | with goto | | `GotoSafe` fails |
| `expression` | 3-bit words, trees of up to 5 nodes, 2 argument registers | 224 000 | all properties hold |
| `expression_stack_args` | 1 argument register | | `Right` fails |
| `parser` | 9 vocabularies, up to 16 tokens | 869 000 | all properties hold |
| `lexer` | 8 vocabularies | 392 000 | all properties hold |
| `strmap` | 2 maps, 4 keys, tables of up to 4 | 53 000 | all properties hold |
| `tempfile` | 3 objects, 2 paths, 2 signals | 532 000 | all properties hold |
| `tempfile_memory` | 2 objects | | `HandlersSafe` fails |
| `driver` | 2 sources, 3 options | 118 000 | all properties hold |
| `driver_exit_code` | 2 sources, 3 options | | `ExitZeroMeansDone` fails |

What they show:

- *symtable*. Block scoping works: `SlotsDisjoint`, `InnermostWins`,
  `GlobalsOnce`, `NoBug`, `DeclarationsKept` and the refinement. `FrameBytes`
  (what `symtable_bytes_in_scope` releases is what the scope allocated) holds
  when all arguments go in registers; with arguments on the stack it does not,
  since the code removes `4*n` bytes after pushing `8*n`. Two names are enough to
  shadow one while the other is seen through; three scopes make a function, a block and a block
  inside it; `MaxIndex` allows three locals, so a slot is reused after a scope
  was closed while others stay alive. `NrCallRegs` is 2, not 6: the code depends
  only on whether there are more arguments than registers. `int f(int a);
  int f() {...}` is accepted, against the comment at `symtable.c:124-127`, and
  the other order is rejected. `DeclarationsKept` is about kinds, return types,
  bodies and initialisers, not about lists of parameters: the later of two
  prototypes takes the place of the earlier one (`symtable.c:146-147`), so that
  after `int f(int a); int f();` arguments are no longer counted.
- *frame*. In functions without `goto`, labels and calls with arguments on the stack,
  whatever `break`, `continue` and `return` skip and however often a loop
  repeats, nothing live is ever below `%rsp` (`StructuredSafe`): a skipped `add`
  (`x86.c:648`, `654`) leaves `%rsp` too low, where it overwrites nothing; a loop that
  continues from a scope with a variable takes 4 more bytes of stack with each
  round (the model stops at `MaxFrame`). `RspExact` says that without `break` and
  `continue` too `%rsp` is exactly where `stack_index` says. What is left out
  breaks them in the code and in the model: `if (0) l: int a;` skips the
  allocation of `a` without any jump statement, and in
  `if (c) f(1,2,3,4,5,6,7); int b = 5; g();` the index counts what the call leaves
  on the stack also when `c` is 0, so `b` lies 4 bytes below `%rsp` and the call of `g`
  overwrites it. `InnermostLoop` and
  `LabelsResolve` are about the label stacks and the counters. Ten instructions
  hold a loop with a block with a declaration and a break, and two nested loops;
  `MaxUser` keeps labels, gotos and stack arguments to the first ones, `MaxLeaving`
  allows one expression with a stack argument, which is enough to skip it or not;
  for such functions the run shows `InnermostLoop` and `LabelsResolve`.
- *frame_goto*. Behind a `goto` over a declaration `%rsp` is too high, and the next
  push or call overwrites the variable.
- *expression*. Every tree of up to 5 nodes over one operator of each kind of
  code (sign extension, short circuits, comma, `?:`, increments, assignments,
  calls), and every operator on every pair of words: value, side effects and
  traps are those of one of the orders C allows (`Right`), `%rsp` agrees with
  `stack_index` at each instruction on each path (`IndexIsRsp`), and the value of
  a void call is never used (`VoidChecked`; a void call behind a comma is
  rejected even as a statement). Two argument registers, so that a call has
  a third argument on the stack; five nodes are too few for such a call to
  be the left operand of an operator.
- *expression_stack_args*. With one register they are not: in `f(2, 2) - 2` the
  pop takes what was left of the second argument.
- *parser*. Accepted is what is in the language, with the tree of the grammar
  (`OnlyTheLanguage`), and all of the language is, but for the deviations above
  (`WholeLanguage`); `free_ast` frees every block once (`Released`); pictures are
  drawn right and no two trees of a vocabulary have the same one (`Drawn`). Each vocabulary has the tokens of one
  part of the grammar and a length at which its parts meet: all pairs of binary
  operators, increments and calls inside `?:`, an `else` behind three nested
  statements, a list of variables that turns out to be a function. Where a
  prefix is rejected no longer text is tried, as the parser died before its end.
- *lexer*. `LongestMatch`: the chain of alternatives gives the longest lexemes.
  `Located`: each token knows its line, number and column, behind comments too. The
  line it shows is, for the property as for the code, the copy and the memory behind
  it: that a NUL is missing is known to it, not refuted.
  `Rejected`: what has no meaning is reported at its first place. The
  vocabularies have the symbols that start alike in every order, comments that open and close
  in each other, words that start with keywords, and literals around the limits
  of `int` and `long`, which have 6 and 10 bits here.
- *strmap*. `Consistent`: array and table agree through resizes and copies.
  `RoomUnlessZero`: the program dies only of a call out of order, of a table that
  cannot be doubled, or of one that was initialised with size 0, which doubles
  to 0 (`strmap.c:77`) and is full when `hcreate_r`'s smallest table (3 entries)
  is. A map of size 1 is resized by its second and its third key; one of size 3 only
  by a fourth, for which 6 entries are more than `MaxTable` lets `hcreate_r` make, so
  that it shows the death for want of memory. `MCFewKeys` bounds the
  keys of both maps together to three and the step to a fourth; with a slack of 0
  in place of 16 the array grows as well.
- *tempfile*. With signals between any two statements the list is
  consistent (`ListConsistent`), published files stay (`KeptSurvive`), others go
  (`NoneForgotten`), nothing else is unlinked (`OnlyTempsRemoved`), and cleanup
  ends (`CleanupEnds`). `NoneForgotten` exempts the file of the call in progress:
  between `mkstemps` and `tempfile->active = 1` a signal leaves it behind.
  `Slacks` has the array's real constant 16 (24 entries at first, shrunk when
  an entry goes), and 1, so that it grows with two entries. Two paths for
  three objects: one path is given up and taken again.
- *tempfile_memory*. `free` and `realloc` come before the assignment of the
  pointer, so a second signal may meet freed memory.
- *driver*. Outputs are complete or absent and temporary files are gone, but for the
  file whose creation was the last thing that happened (`Unregistered`); the inputs
  of gcc are ready while it is waited for, outputs of earlier sources are kept,
  every run ends. `GccInputsReady` ends with the compiler: a gcc whose parent was
  killed loses its inputs, and nothing is said of its output. `OutputsStay` assumes,
  as the model does, that the sources have different names: of
  `-S a.c a.c` the second overwrites the first. Two sources make a first, a last
  and a later failing one, and
  three options cover each pair that `main` tests, with a third beside it.
- *driver_exit_code*. A failed close is printed and forgotten.

Most runs state `CHECK_DEADLOCK FALSE`: a compilation, a process, a function that
returned and a token sequence at its bound do stop. `lexer` and `strmap` have an
action for the end instead, and check that nothing else stops.

Each property of a passing run has a mutant, an operator above the definition
it stands in for with a plausible bug in it (comment *Mutant*), that makes TLC
report the property as violated.

## Fairness

`Tempfile` assumes `WF(LibraryStep)`: the kernel runs the process once a call was
made. Nothing is assumed of clients or signals. `Driver` assumes `WF(Main)` and
`WF(Gcc)`: both processes are scheduled, and gcc does not run for ever. The
compiler itself has no wait but `system()`.

## Proofs

`SymtableProofs` proves, for any set of names and any bounds, `TypeOK`,
`SlotsDisjoint`, `InnermostWins`, `NoBug`, `GlobalsOnce` and `DeclarationsKept`,
and that `Symtable` implements `Scopes` (`Refinement`). The only
assumption is the one on the constants in `Symtable`, `BoundsAssumption`: they
are natural numbers, and `MaxScope` is positive.

`SlotsDisjoint` is not inductive: it says nothing of how saved and current tables
are related, and closing a scope brings a saved one back. The invariant `IInv`
adds

- `ScopesBounded`: table `d` has no symbol of a deeper scope;
- `TablesCopied`: two tables in force agree on a name unless the inner one
  holds a declaration made further in;
- `IdxGrows`: the saved stack indices do not decrease inwards;
- `SlotsAllocated`: a slot of scope `e` lies between the index of the scope
  around `e` and the one in force;
- `SlotsApart`: slots within one table are 4 apart.

A new slot lies above `idx[scope]`, so above all others; two symbols of
different tables are either copies of one another or in ranges that do not
overlap. `InnermostWins` follows from `ScopesBounded` and `TablesCopied`.
`GlobalsOnce` and `NoBug` need only that the file scope table holds no local
when it is in force. The refinement has one lemma for each action.

Of `FrameBytes` it proves what is true of it, on top of `IInv`. `BytesInv`
counts the variables declared in each open scope: a declaration adds a name that
was not yet declared there and 4 bytes, the parameters are as many as their list
is long because none is listed twice, and a call adds what it leaves of its
arguments. Hence a scope never gives back more than was allocated in it
(`NeverTooMuch`), whatever is called; and exactly that, which is `FrameBytes`, when the
arguments of every call fit the registers (`MaxArgs <= NrCallRegs`, as in the
run). Without that hypothesis `FrameBytes` is false.

`StrmapProofs` proves, for any sets of structs, keys and values and any sizes,
`Consistent`, `RoomUnlessZero` and that `Strmap` implements `StringMap`. The
assumption is `StrmapAssumption`: a copier keeps what a value points to, and
`hcreate_r` makes room for as many entries as it is asked for. `Consistent` is
nearly inductive: a table must have room for the key behind a resize, and
for that `IInv` adds to it the types and `NotOver`, that a table that was not asked for
0 entries never holds more than it was asked for. From `IInv` it follows that
`copy_hsearch_data` finds every key (`CopyFacts`), hence that no key is lost, and
that doubling makes room unless it doubles 0 (`Room`). The refinement maps a
struct to its keys and to what its values mean (`View`) and has one lemma for
each action; a resize changes neither.

`DriverProofs` proves all the safety properties of `Driver`, for any number of
sources and options: `GccInputsReady`, `OutputsStay`, `NoTempsLeft`,
`NoPartialOutput` and `DoneUnlessLost`; the assumption is `DriverAssumption`, that
there may be a source. None is inductive, as each speaks of files that an
earlier step of the loop left. `IInv` says how far main() is with each source
(`Created`, `Closed`, `Queued`, `Committed`, `Written`) and ties everything else to
that: which tempfile objects are active (`AsmActive`), what is in the assembly
files (`AsmClosed`, `AsmFresh`, `Partial`; `JustMade` for one that is not yet
activated), what the queue and gcc were given (`QueueIs`, `GccIs`), which outputs are there (`OutputsAre`). The names do not clash
because the check of the options (`Path`) allows `-o` with `-S` or `-c` for one source
only (`FileNames`, `AsmDistinct`). One lemma for each action, and one for
all that end the process (`Stops`, `StopKeeps`).

`TempfileProofs` proves all the safety properties of `Tempfile` but `HandlersSafe`,
which is false: `TypeOK`, `ListConsistent`, `KeptSurvive`, `NoneForgotten` and the
action property `OnlyTempsRemoved`, for any objects, paths and signals, any constant
of `alloc_nr`, and a signal between any two statements. The assumption is
`ConstantsAssumption`: that constant is positive. What makes each of them hard is
that a handler replaces the steps that were left, so the invariant must hold in the
middle of every call. `IInv` says

- `Programs`: the steps left are the end of a call or handler as the code writes it
  (`Follows`); the last one tells which, and what it has done so far;
- `Mine`: at which steps the object of the call has its memory and its file;
- `Listed`: `ListConsistent`, no object twice on the list but while `ARRAY_REMOVE`
  has moved entries and not yet decremented `nr`, and then every file has an entry
  besides the last one;
- `Arriving`: a new object is named, has its handlers and its room by the time it
  is appended and activated;
- `Cleaned`: behind the cursor of the cleanup nothing is active, so nothing is
  when the process ends;
- `Apart`: no two files share a path, nor the destination of a rename with a file;
- `Safe`: what is kept is closed and no object has its path;
- `Remembered`, `Owned`: a temporary file is that of an active object or of the
  call in `pending`; the path of an active object is that of a temporary file.

One lemma for each step shows that it keeps `IInv`, one for each call that its
steps are as `Follows` has them (`Written`, `Join`), and `Leaves` is for all that start
a cleanup: it needs only that the list is consistent, whatever was interrupted.
`Undefined` steps keep everything but `status`, so the theorems also hold of
what was there when a handler met freed memory.

`FrameProofs` proves all the safety properties of `Frame` but `GotoSafe`, which is
false: `TypeOK`, `LabelsResolve`, `StructuredSafe`, `RspExact` and `InnermostLoop`, for any
depth and size of a function and any number of steps. The assumption is
`FrameAssumption`: the bounds are natural numbers. The code of a function exists
before it runs, but what makes it right is in the generators that are not yet done:
a jump may be to a label that is only emitted when its construct ends. So the
invariant is about the work left. `IInv` says that there is a *plan*, a sequence
with one entry for each task of `work`: the index, the scopes and the stacks of
labels that the task will find when it is its turn. The plan fits:

- `Planned`: an entry leaves to the next one what its task does (`Before`), the end of
  a scope or of a loop finds the variables and labels of that scope or loop (`Right`),
  a loop whose labels are on the stacks has its end among the tasks (`Owns`) and
  a loop that will jump back has emitted where to (`Backed`);
- `Resolved`: the code so far is what the index says (`Emitted`), and the label
  of each jump is either marked in the code or owed by a task of the plan, each
  label once (`Labelled`);
- `Fits`: a jump goes only to a place where the index is not larger than at the
  jump, or, without break and continue, where it is the same. `Discipline` says
  which of the two is claimed: neither once there are labels, gotos or calls with
  arguments on the stack, and then the plan leaves the index and the scopes open.

`Runs` is the rest: once the code is complete, `%rsp` is what the index says, or
lower. Each action has one lemma; the lemmas `...Plan` build the plan of the next
state. `StructuredSafe` and `RspExact` say nothing of functions without that
discipline, the other three hold for all. `StructuredSafe` is then that a variable in scope is above the index, and
the index above `%rsp`. `InnermostLoop` has an invariant of its own on top of `IInv`
(`Bound`): the loops around the statement are counted in the ends of loops among
the tasks left.

`LexerProofs` proves all the properties of `Lexer` for any text: `LongestMatch`,
`Located` and `Rejected`. The assumption is `LexerAssumption`: texts and the memory
behind them consist of characters, no character of a text is the NUL, and an int
is not wider than a long. `Reading`, the invariant while `lex()` runs, says

- `Positioned`: the line and column of `ctx` are those of `buf`;
- `Resumes` and `Splits`: the places of the tokens of the text are those read so far
  and those from `r` on, where `r` is `buf` or, in a comment, the place where it
  opened, with nothing up to `buf` that could have closed it;
- `TokensAt`, `TokensMean`: the tokens are at the first places, and are what the
  lexemes there mean.

`Read` is what is left of it when `lex()` is done or dies; after `free_tokens`
only the types of the rest are known, and nothing of the tokens that it filters.
That the first symbol that matches is the longest is a fact of the table
(`SymbolFacts`: a shorter symbol before a longer one starts with another character),
and that `strtol` and the sum of the digits agree one of arithmetic (`SameNumber`). The
induction theorems of the library cannot be used, so the inductions over
positions and digits go by least counterexamples (`LeastExists`, from the
well-foundedness of `<` on the naturals), and `Recursion` shows that the recursive
functions exist.

`ExpressionCode` and `ExpressionProofs` prove all the properties of `Expression`, for
any set of expressions that has their parts, any variables, any width of words from
two bits, any argument registers and any functions: `TypeOK` and `VoidChecked` of
every program, `Right` and `IndexIsRsp` of those in which the arguments of each call
fit the registers (`Exact`). Of the others both are false, since `x86.c:356` releases half of what was pushed:
`expression_stack_args` shows it for `Right`, and with the one register of that run
`0 && f(0, 0)` has two paths to its end with different `%rsp`, against
`IndexIsRsp`. The run `expression` has calls beyond `Exact`, and both hold there only
because its trees are too small to have such a call as an operand of a binary
operator. The assumptions are

- `ExpressionAssumption`: expressions are what the parser builds, finite trees in
  that a part is lower than the whole;
- `ProcessorAssumption`: words have at least two bits, the argument registers
  differ, and eax is none of them;
- `CalleeAssumption`: functions take and return words.

The functions `Code`, `CValues` and `VoidUses` recur over trees. `Recursion` shows
that they exist: a function whose values depend on those of lower arguments has,
for each height, a solution up to it, and two solutions agree. `TreeInduction` is
induction over trees, by a lowest counterexample. With these the argument has
three parts.

- *void calls*. What the generators report for a part is what C says is used, and
  besides that no more than what stands behind a comma (`UsedIsRight`).
- *layout*. The labels in the code of an expression are among those made between
  its start and its end, each of them once (`Span`), so the code of parts that are put together
  still has every label once; and behind it `stack_index` is what it was
  (`Layout`, `AllLaidOut`).
- *runs*. `Works(e, a, i)` says of a piece of code `a` what generate_expression
  promises of it: wherever it stands in a whole whose labels are unique, from any
  state at its start with `%rsp` where `i` says, the processor leaves it only
  behind its end, with the stack as it was and the value and variables of an
  outcome of `e`, or traps where `e` may be undefined. A run is not a sequence
  here but a set of states closed under the instructions (`Fine`), so the runs of two
  pieces are put together by a union. One lemma for each kind of expression
  (`CallWorks` has the loops over the arguments), and `AllRun` by induction.

`IInv` is then that the processor, while it runs, is in a state from which it gets on
(`Fine`) and that at the end the outcome is one of C's; what an instruction does to
a state is what the action does to the variables. The theorems do not say that
the code ends: without loops in an expression that is plain, but it is liveness.

Only model-checked: `Parser` and `DotPrinter` (`TypeOK`, `OnlyTheLanguage`,
`WholeLanguage`, `Released`, `Drawn`), which are written with recursive operators, and
what those compute for every input is an induction that the prover does not take; all
liveness (`CleanupEnds`, `Ends`), which is beyond the prover.

## Not modelled

- `read_file` reads short files wrongly when `read` returns less than asked
  (`cc.c:41`): `Driver` has no data of sources.
- User labels of two functions with one name, which are one label in the
  assembly file (`x86.c:660`): `Frame` generates one function.
- Alignment of `%rsp` at calls (`x86.c:349`): what needs it is the callee.
- Out of memory, the overflow check of `st_mult`, and calls in the handlers that
  are not async-signal-safe.
- The wording of errors and labels (`tok2str`, `error.c`), string helpers,
  the tests and the build.

## Plan

1. `Labels`: several functions, one `labelset` each, one name space of labels.
2. A composition of `Driver` with the statements of `Tempfile`, in place of the two
   steps of `CreateAsm` and `ActivateAsm` and the one of `Cleanup`.
