# Tyna, specified

Tyna is a compiler for a small systems language, written in C, with LLVM behind
it and a runtime for strings, arrays and files. This directory holds TLA+
modules that model its core logic, the configurations TLC checks them with on
small instances, and theorems about them that TLAPS proves for every value of
their constants. Paths below are relative to the repository's root.

    tlc -workers 2 -config LoweringJumps.cfg MCLowering.tla
    tlapm LoweringProofs.tla

## The system

A source file goes through `src/tool/main.c`: it is parsed, the standard library
is parsed and analysed before it, imports are loaded, semantic analysis walks
the tree in two passes (signatures, bodies), and, if nothing was reported, code
generation walks the same tree and emits LLVM IR, which is run, linked or
printed. The generated program calls the C runtime. The compiler is one thread
and recursive; what makes it hard is that two passes over one tree keep stacks
and tables separately and have to agree, and that the runtime's memory is
managed by a protocol spread over the generated code.

| Component | State | Operations | What is hard | What makes it correct |
|---|---|---|---|---|
| Scopes, jumps, deferred statements (`sema_scope.c`, `sema_stmt*.c`, `cg_symbols.c`, `cg_stmts.c`, `cg_control_flow.c`, `cg_function.c`) | two scope chains, the jump chain, the exit and continue blocks, the lists of deferred statements | enter and leave a construct, declare, use, jump, defer | the two passes are written apart; code is emitted where a scope closes, not where it stands; code after a jump is skipped | same jump targets, same bindings, no stack survives its function |
| Ownership and drops (`sema_lifetime.c`, `sema_expr_var.c`, `cg_stmts.c`) | `is_moved` of a symbol, the drops of a scope | move, assign, leave a scope | moves follow the text and drops the control flow | no value dropped twice or used after its drop |
| Module loader and program assembly (`module.c`, `main.c`, `cg_module.c`) | the modules, their exports, the global table, the entry function | import, analyse, emit | cycles, order, name clashes, errors of a nested handler | each module once, dependencies first, a name means one thing |
| Types (`type.c`, `sema_type.c`, `cg_types.c`) | interned types, instances of generics | intern, instantiate | recursive and generic types | equal types are one object, instantiation ends |
| Expressions (`sema_expr*.c`, `cg_ops.c`, `cg_calls.c`, `cg_values.c`, `cg_aggregates.c`) | resolved types, cloned bodies | check, coerce, emit | coercions, Results, cloning | analysis and emission agree on the type |
| Parser, lexer, tree (`parser/`, `lexer.c`, `ast*.c`) | position, tokens, the tree | parse | precedence, recovery | the grammar |
| Runtime strings and arena (`runtime.c`) | the stack of arenas, their blocks, counters, the intern pool | allocate, push, slice, free, promote, pop, intern | buffers move between arena and heap; small strings have no buffer | nothing freed is used, nothing is freed twice, counters balance |
| Containers (`utils.c`, `array.c`, `alloc.c`) | length, capacity, data | push, pop, free | growth that fails | never a write past the block |
| File system (`fs.c`), paths (`path.c`) | the target and the temporary file | read, write atomically | a failure of any call, a crash between two | the old contents or the new |
| Diagnostics, command line, runner | messages, options | report, run | - | errors stop the compiler |

`PROJECT.json` lists every component with its state of modelling, and every
hazard at its line.

How the components meet: the parser builds the tree, and, while it parses, the
types (`p->type_ctx`); an import found by analysis starts a parser and an
analysis of its own, on the same type context and a copy of the registry of
modules; analysis writes what it resolved into the tree (types, `is_moved`,
error sets), and code generation reads it from there, or works it out again.
That second reading is where most of the properties are: `Lowering`,
`ErrorSets`, `Ownership`, `TypeLowering` and `ProgramAssembly` each hold both
sides of one such agreement.

## Modules and plan

| Part | Modules | Run | Proofs |
|---|---|---|---|
| Scopes, jumps, deferred statements | `ScopeChain`, `SemaScopes`, `CgScopes`, `Lowering` | `LoweringJumps`, `LoweringNames`, `LoweringLostDefers` | `LoweringProofs` |
| Runtime strings | `Doubling`, `StringArena`, `StringRuntime` | `StringMemory`, `StringRisks` | `StringRuntimeProofs` |
| str values | `SmallStr`, `StrValues` | `StrValues` | `StrValuesProofs` |
| Files | `AtomicFile`, `FsAtomicWrite` | `FsAtomicWrite` | `FsAtomicWriteProofs` |
| Modules and assembly | `ModuleLoader`, `ProgramAssembly` | `Program` | `ProgramAssemblyProofs`, `ProgramNamesProofs` |
| Types | `TypeContext`, `TypeLowering`, `Types` | `Types` | |
| Errors and results | `ErrorSets` | `ErrorSets` | `ErrorSetsProofs` |
| Ownership | `Ownership` | `Ownership` | `OwnershipProofs` |
| Parser | `Grammar`, `Parser` | `Parser` | |

A run named `X` is `X.cfg` on the `MC` module of its part. What is left, in
order of worth: structs that own Strings in `Ownership`; imports, unions and
impl blocks in `Parser`; the growth of arrays.

A property that a real program can break has its exceptions as named premises
(`Plain`, `MovedAgain`, `SameNumbers`, ...) or as `risks`, which a state
machine records. Each premise names one thing the code accepts and does not
provide for; the section "What the premises exclude" lists them.

## Scopes, jumps and deferred statements

### Modules

* `ScopeChain`: chains of scopes and lookup (`sema_symbols.c`,
  `CGSymbolTable_find`). A declaration is a name and the depth of the construct
  whose walk entered it, enough to tell two of one name apart.
* `SemaScopes`: `Sema.scope` and `Sema.jump` (`sema_scope.c`).
* `CgScopes`: `Codegen.current_scope`, `defers`, `break_stack`,
  `continue_stack`, the terminator of the block at the insertion point
  (`live`), and what is emitted for jumps, declarations, uses, `defer` and for
  the deferred statements in `cg_pop_scope`. A basic block is named by the
  construct that created it.
* `Lowering`: one file walked by both passes. What either pass's stacks hold at
  a node depends only on the constructs around it and the statements before it,
  so one walk serves both: an action enters, leaves or visits a node in both
  passes, and the program is chosen as the walk goes. A refused program stops
  there, as `eh.has_errors` stops it in `main.c`.

`path` is the recursion of `sema_check_stmt` and `cg_statement`. A construct's
`on` says that code generation descended into it: it skips statements that
follow a jump in their block, while analysis visits them. An action `Enter...`
is the part of a case of `cg_control_flow_statement` before the body together
with the part of its `sema_check_..._stmt` before the body; `Leave...` is the
part after. `cg_pop_scope` takes three kinds of step, because emitting a
deferred statement is itself a visit of a statement: it takes the list off the
stack (`CloseScope`), emits its statements last to first (`EmitDeferred`), and
drops the symbol table (`EndScope`).

The variables `misdirected`, `misresolved`, `displaced` and `lost` are history:
no guard reads them.

A declaration and the header of a loop may read a variable (`init`): analysis
resolves it before it defines the new name (`sema_stmt_decl.c:126`,
`sema_stmt_iter.c:4`), code generation looks it up after it added the name
(`cg_stmts.c:236`, `cg_control_flow.c:314`).

Abstracted: types, values and drops; a switch on a string and a switch on a
union differ only in whether a case opens a scope in analysis. A "plain"
statement stands for every statement that leaves the stacks as they were.
Not modelled: the scope analysis opens for a name narrowed by `is`, blocks used
as expression values (they go through the same push and pop) and the name that
`let x = ... else { ... }` defines before such a block, a `switch` on a
string without any case (it leaves its block without a terminator), the second
terminator that follows a deferred `return` at the end of a function, drops and
arena pops (component "Ownership and drops").

### Runs

Bounds: `MaxDepth` constructs open at a time (the file's top level is one),
`MaxNest` extra `defer` keywords, `MaxDefers` deferred statements per scope.
Blocks may hold any number of statements. `CHECK_DEADLOCK FALSE` is needed
because a walk stops: at an analysis error, at a panic.

| Run | Shows |
|---|---|
| `LoweringJumps` | With four levels (a function, two constructs and a block in them: every pair of a loop or case and a construct that does not catch the jump) and jumps that are direct, deferred or doubly deferred: `TypeOK`; `StackAgreement`, the exit and continue blocks name the constructs analysis' jump chain names; `DirectJumpsLand`, a jump that is not deferred goes where analysis resolved it; `DeferredJumpsLand`, a deferred jump out of an enclosing construct does too; `Balanced`, nothing is left over for the next function. |
| `LoweringNames` | With one name, declared in every way the grammar has: code generation binds a use to the declaration analysis found, except after the four things `displaced` records (a declaration as the bare body of a `while` or a case, a deferred declaration, a declaration between a deferred use of the name and the end of the block, and a declaration or for loop that reads its own name: `let x = x;`, `for (x in x)`). |
| `LoweringLostDefers` | Violated: `return` leaves the deferred statements of the scopes it closes out. |

More disagreements are part of the model and have no run of their own:
`while (c) defer break;` reaches `panic("Break outside of loop")`;
`while (c) let x = 1; print(x);` reaches `panic("Undefined variable during
codegen ...")`, one of the cases `displaced` records; a
`defer` at the top level ends at `panic("Defer outside of scope")` (`panicked`
is "defer"), and in `defer print(x); let x = 2;` the deferred use is bound to
the later `x`, the third exception that `displaced` records. The fourth:
`let x = 1; { let x = x; }` passes analysis, which takes the second `x` of the
inner declaration for the outer variable, and is generated as a read of the
inner one, before anything was stored in it.

One name is enough for `NamesAgree`: a lookup compares names for equality only
and the declarations of other names never change its result. (With one name an
initializer that reads another name than the one declared occurs only in the
header of a `for` that declares none; two names are beyond this run, and
`NamesAreAgreed` covers them.) Four levels hold
three nested constructs; a jump concerns the innermost loop or switch and what
stands between, which is two.

No liveness is claimed of this component and no fairness is assumed: the walk is
a terminating recursion over a finite tree.

### Proofs

`LoweringProofs` proves, for every set of names, every depth and every set of
statements, from `NoNameAssumption`, `MaxNestAssumption` and `BoundAssumption`:

* `TypeCorrect`: `Spec => []TypeOK`. The stacks are popped with `Front` and read
  with `Last`; that they keep their types means that none is popped or read
  when it is empty. `TypeOK` is not inductive alone: that a stack is not empty
  when a construct is left follows from how high it is.
* `StacksMeasured`: `Spec => []Measured`. `TypeOK /\ Measured` is the inductive
  invariant. Each construct records the heights it was entered at (`at`);
  `Measured` says that those of a construct are those inside its parent, and
  that the stacks now are as inside the innermost one, or, while `cg_pop_scope`
  runs, as at its entry plus what has yet to be popped. A step that enters a
  construct extends this chain, one that leaves it falls back on the record.
* `FunctionsIndependent`: `Spec => []Balanced`, from `Measured` and that the
  root's record is the initial one.

* `JumpsAgree`: `Spec => []StackAgreement`; `DirectJumps`:
  `Spec => DirectJumpsLand`; `DeferredJumps`: `Spec => []DeferredJumpsLand`.
  Heights do not say what an entry names, so `Measured` is strengthened by
  `Agreed`: every jump context names the loop or `switch` that was entered at
  its height (`Contexts`), an exit block names what the context at its height
  names (`ExitsNamed`), a continue block is the exit target of a loop that is
  generated (`LoopsNamed`), code is live only in a construct that is generated,
  and a deferred jump that leaves the scope whose list holds it goes to the
  innermost context, or loop, around that scope (`DefersLand`, `Lands`). The
  last is what lets a jump survive the wait for the end of its scope, and, by
  `LandsOut`, a move to the list of an outer scope: a jump that leaves the outer
  scope leaves everything between. `PathOrder` orders the heights along the
  path; with it, in code that is generated there are as many exit blocks as
  contexts, but for a `switch` whose case has yet to push its own.
* `NamesAreAgreed`: `Spec => []NamesAgree`. The two chains of scopes differ in
  length and in what opens a scope, and `Found(chain, h, name)` is what a name
  stands for under the first `h` scopes of one. `Named` is the invariant about
  it, for as long as nothing is `displaced`: inside every open construct that
  holds generated code both chains, cut at the construct's heights, mean the
  same by every name (`LevelsNamed`), and where a declaration would be entered
  by both, that is, with only `loop`s between the node and a construct that is
  a scope on both sides, the innermost scopes are equal as well; and the uses
  among the deferred statements of a scope still find, under that scope, what
  they were resolved to (`DefersNamed`). A deferred use is emitted when the
  scope closes, so this is what must survive the statements that follow it.
  `Shaped` says what the walk makes of the path without regard to names, which
  the step of a declaration needs: a `loop` adds no scope (`Laid`), its body is
  generated if it is, and no code is dead at the top level (`DeadInside`), where
  analysis refuses what would end a block. A declaration in skipped code is
  entered by analysis only; it lands in a scope the generator has left or will
  not look into again, since nothing inside it is generated.

The proof has a lemma per action for `Measured`, one for `Agreed` and one for
`Named` (the actions that enter a construct share `Entering` and `EntersWith`,
those that leave one share `Cut`), and lemmas about `Front`, `Append`, `Last`,
lookups and the height of stacks that they share.

## Strings at run time

### Modules

* `Doubling`: the loops that double a capacity. Their result is stated, not
  iterated: the least capacity of the form `cap * 2^k` that suffices.
* `StringArena`: `malloc` and, on it, the stack of arenas
  (`tyna_string_arena_alloc`, `_owns`, `_push`, `_pop`, `alloc_buffer`). A chunk
  is one result of `malloc`, its index is its address, and no address is used
  twice: a freed chunk is not mistaken for a later one. Every operation that may
  run out of memory is the set of its outcomes.
* `StringRuntime`: functions of the compiled program calling the functions on
  `String` (`__tyna_string_new`, `_push`, `_into_str`, `_clone_str`, `_free`).
  A scope is a block or a function's outermost scope; `Call`, `CallWith`,
  `OpenBlock`, `CloseBlock`, `FallOff`, `Return`, `Try` and `ReturnString` do
  what `cg_function.c`, `cg_stmts.c`, `cg_control_flow.c` and `cg_ops.c` emit
  there: pushes of arenas, drops of every String of the scope, pops. What
  analysis refuses is in the guards: `moved` (`sema_expr_var.c`), and which
  functions have an arena (`sema_fn_decl_can_use_arena`): `Reachable` follows
  from it, since only functions without one have parameters that lead to a
  String of the caller.
* `SmallStr`: how up to `TYNA_SSO_MAX_LEN` bytes are packed into the two words
  of a `str`, read back and cut.
* `StrValues`: strs made from literals by `concat`, `slice`, `to_array` and
  `from_array`, and `intern`, compared and looped over. Each str is kept with
  the text it should be.

`risks` is history in both state machines: it records that the program did
something analysis accepts and the runtime does not provide for (a String moved
while its memory is on the heap, a global String that took memory of an arena,
an arena that could not be pushed, a text of the full fifteen bytes, ...). The
definition lists them. A property names the risks it excludes, so a run with one
risk at a time shows which harm comes of which, and that no other does.

Not modelled: `__tyna_string_promote_if_arena` (a function that returns a String
has no arena, by `sema_fn_decl_can_use_arena`; one that returns `String ! E` can
have one and reaches it, but results are in `ErrorSets`, without memory),
`set_len` (used by `fs.tn` only), the hash (a switch on a str compares the bytes
after it), `__tyna_compare_arrays`, the test counters, loops and moves of
globals (their `is_moved` follows the text; component "Ownership and drops").

### Runs

`StringRuntime` is scaled: an arena starts with 5 bytes, a String with 2, and 2
bytes are a small str, so that the second String of an arena needs a second
block and every length is short, full or grown. `CHECK_DEADLOCK FALSE` is needed
because a program ends, by an access to freed memory or at a bound.

| Run | Shows |
|---|---|
| `StringMemory` | Two Strings, three results of `malloc`, two nested scopes, two arenas, no risk. `HeapSound`: every block is of an arena on the stack and grants no more than it has (`ArenasSound`), and Strings of one arena never overlap, terminators included (`BuffersApart`). `LiveData`: no pop and no drop takes memory a String or str still has. |
| `StringRisks` | One of the Strings is global, two results of `malloc`, one kind of risky statement. `ArenasMatch`: the arenas on the stack are those of the functions running, and more only after a `?`, fewer only after a push that failed. `LiveData`, `MemorySafe` and `NothingLost` (memory of the heap has an owner) hold outside the risks they name. |
| `StrValues` | Words of two bytes, a `SsoMax` of three (the code's fifteen for words of eight: a byte less than two words), three literals, four strs, texts of up to four bytes, with every growth of the intern arena in place and elsewhere. `PoolSound`: a text is interned once, terminated, within the arena. `ValuesKept`: a str is read as its text, at its length. `SeenAsTexts`: `==` and `for` over a str answer for its text. |

Two Strings are enough for the first two runs: the properties relate two
buffers, or one buffer and the arenas. Three chunks are two blocks of arenas (or
a block that had to grow) and a copy on the heap. Two literals that agree in the
byte of the pointer word and differ after it are what the comparison can get
wrong.

### Proofs

`StrValuesProofs` proves, for every size of a word, every number of byte values
and from `SmallStrAssumption`: `PackedTextKept`, a text of at most two bytes
less than two words is read back exactly; `FullTextLosesLastByte`, of a text one
byte longer, the longest `TYNA_SSO_MAX_LEN` admits, the last byte is read back
as 0 and no other is changed. `UnpackedBytes` follows a byte through both
shifts.

It goes on to the three invariants of `StrValues` (`ValuesAreKept`,
`PoolIsSound`, `StrsSeenAsTexts`), with `StrValuesAssumption` as well: for any
literals, any number of strs and blocks, and an arena that starts with any
capacity. `Inv` says of every str (`Faithful`), made or only there as a literal,
that it lies inside a block that lives (`Inside`), whatever was done; that its
length is that of its text, unless a `malloc` failed; and that it is read as its
text, unless one of `Losses` was. `Inside` has to hold of lost strs too, because
a cut of one is again a str. Of an entry of the pool (`Entry`) it adds the
terminator and that it is not empty, and of the pool that no two entries are
read alike (`Apart`), until the arena moves. `Grows` and `Loses` are the two
things an operation does to memory: blocks are added and written on at their
ends, or, when the arena moves, one is lost. What a str is read as survives the
first (`ContentKept`), that it is inside its block survives both (`InsideKept`),
so each operation is proved once for what it makes, and nothing is said of the
old strs again. `InternNew` is the one that writes to a block others point into.
`RoomFacts` says what `ArenaRoom` gives whichever of its four ways it takes, and
`GrownFacts` that doubling gives enough.

`StringRuntimeProofs` proves the five invariants the two runs check,
`HeapStaysSound`, `ArenasStayMatched`, `DataStaysLive`, `MemoryStaysSafe` and
`NothingGetsLost`, from `RuntimeAssumption` and `ArenaAssumption` alone: for any
number of Strings, lengths, scopes, arenas and results of `malloc`, and with
several kinds of risky statement in one program, where the runs take one kind.
None of the five is inductive. `RuntimeInv` adds what they rest on:

* `Shape`: the variables stand in the order of their scopes, so that closing a
  scope cuts the end off the sequence; blocks have no arena; no variable points
  to memory that is yet to come.
* `ApartIn` (without "aliased"): of two Strings in one chunk one lies wholly
  before the other, and one in the heap begins where its chunk does. The latter
  is what makes `realloc` keep what lies before the terminator.
* `AnchoredIn` (without the four risks `Sharing`): a variable, moved or not, has
  its memory, and its arena has `Room`: there are as many arenas above it as
  functions with an arena above the variable's scope. Each of them pops one of
  its own, so none takes the variable's. That the memory is there now does not
  say that it survives the next return; `Room` does.
* `UniqueIn`: a chunk of the heap is that of one variable, so the drop of one
  takes nothing of another. It speaks of moved variables too, because they are
  dropped like the others.
* `StrsOwnIn` (without "viewed" as well): the memory of a str is of the heap and
  of no String, so that a push, which reallocates, leaves it alone.

`Granted` says once what an allocation may do to memory (old chunks keep what
they had, the new bytes were nobody's); lemmas carry each part of the invariant
over a grant, a release and the closing of scopes (`ClosesInv`), and a lemma per
action applies them. The exception "aliased" in `HeapSound` is needed: after
`let t = f()` where `f` returns a global String of the heap, the push that
shrinks or moves the memory of one leaves the other with a capacity that is no
longer granted.

## Files

`AtomicFile` is what `fs.tn` promises of a path that is written with
`write_atomic` and `remove_file` only: a register whose contents change at one
moment within each call, and a set of what a crash may leave there.
`FsAtomicWrite` is `__tyna_fs_write_atomic`, `__tyna_fs_read_all` and
`__tyna_fs_remove` with one action per system call. Every call may fail, `write`
and `read` may do part of what was asked, a process may be killed anywhere
(`Kill`), and the machine may stop (`Crash`): then the path leads to any of the
files it led to since the last directory sync, and a file has what was synced of
it.

The run checks the refinement `Atomic` (the abstract specification under the
mapping of `contents`, `survivors`, `write` and `answer`); `WholeFiles`, that a
reader and a crash find whole writes; `DirectorySound`, that a call that has
returned leaves no temporary file unless `fcntl` (whose early return forgets it)
or `unlink` failed, and that no two calls share one; `CallsReturn`, under weak
fairness of the steps of a call, because the system answers every call, and
`write` makes progress: for a count above 0 it does not answer 0 (`fs.c:242`
leaves its loop then, with whatever `errno` holds for a result).

Bounds: two writers, a reader, data of one and two bytes, two files made, one
crash. Two files are one that is in place and one on its way, or two on their
way; a second crash finds the same kind of directory the first one found.
`CopyMayFail` is FALSE: a `malloc` that fails in `__tyna_as_c_ptr` leaves
`write_atomic` with another pointer than the text's, and the promise with it.
Not modelled: `write_all`, which promises nothing, metadata, several paths,
temporary names left by a crash, a failing directory sync (ignored by the code).

### Proofs

For any processes, data, sizes, files and crashes, from `FsAssumption`:

* `DirectoryIsSound` (`FsAtomicWriteProofs`): `Spec => []DirectorySound`. The
  invariant `Inv` adds `CallSound`, what the local variables of a call mean at
  every stage (from `mkstemp` to the rename it has a file of its own, which
  holds no more than it was asked to write, and all of it, synced, once it is
  about to rename), and `ReadersApart`: a reader's file is one nobody writes any
  more.
* `FilesAreWhole`: `~CopyMayFail => (Spec => []WholeFiles)`, with `WholeInv`:
  every file the path may lead to after a crash is whole on the disk, and so is
  the file of a reader. A file becomes reachable by a rename only, and
  `CallSound` says what it holds by then.
* `AtomicFileImplemented`: `~CopyMayFail => (Spec => Atomic)`. The step of
  `AtomicFile` that changes the contents is `rename`; the one at which a read
  looks is `open`; the system calls before and after are stutters.

Both hypotheses `~CopyMayFail` are needed, as said above, and are the value the
run has. `CallsReturn` needs fairness and is model-checked only.

## Programs of several files

`ModuleLoader` takes the file on the command line to analysed modules: walks of
`sema_analyze` nested in each other through imports, each with a scope and an
error handler of its own, over one registry. `ProgramAssembly` takes them to one
LLVM module: the recursion over dependencies, which looks them up by the name of
the import; one table of link names; the statements of every file appended to
the first block of the entry function; the calls bound by
`cg_find_function`.

The run chooses a program at the start from four families: imports in every
order (renamed, circular, through two files of one name), names (who declares,
exports, imports and calls what), broken files (that do not parse, are not
there, or call what is not exported), and imports with the name of a function
that is called. Up to four files, with two named "a": a
circle through a file between two others, a diamond, and two roots of one name
need no more. `OncePerFile`: a file is analysed once and emitted once, the main
file last. `OrderKept`: what a file imports is emitted before it, and the
statements of all files run in the order of the files. `CallsAgree`: a call runs
the function analysis resolved it to. `CleanIsCompiled`: a program without an
error neither panics nor exhausts the stack. `Ends`: the compiler comes to an
end; weak fairness of `Next` says that a single thread goes on. `MaxVisits`
stands for the stack: a recursion deeper than there are modules has returned to
one of them and does not end.

### Proofs

For any programs that satisfy `ProgramAssumption` (any number of files, any
imports, repeated, renamed, failing or circular), without further hypotheses:

* `FilesGoThroughOnce` (`ProgramAssemblyProofs`): `Spec => []OncePerFile`. The
  walks of analysis are a chain, each importing the next, over files registered
  once (`LoaderInv`); those of `codegen_module_recursive` likewise (`Stacked`):
  a file on the stack is not emitted yet, and what it looked up so far is, but
  for the dependency that stands next on the stack. A file that comes a second
  time onto the stack therefore never leaves it. `LoopSound`: the modules before
  the one the loop of `main.c` is at have been emitted.
* `ImportsGiveTheOrder` (`ProgramNamesProofs`): `Spec => []OrderKept`, from
  `EmittedInOrder` and `EntryInOrder`, and from that the names of plain imports
  are those of the files they resolve to.
* `CallsRunWhatWasMeant`: `Spec => []CallsAgree`. `NamesInv` says what the
  scopes of analysis hold, what a resolved call carries, that the owner of a
  link name is the last file emitted that declares it, and what the calls of
  emitted bodies run.
* `NoErrorNoFailure`: `Spec => []CleanIsCompiled`. A call that was not resolved
  has reported an error or has the name of an import; and a stack longer than
  the set of files holds one of them twice (the pigeonhole principle), a circle,
  which plain imports exclude.

The conditions `Plain`, `PrivateApart` and `AliasesApart` are part of the
properties. The last was found by the proof: `sema_expr_call.c:28-36` returns
without a report when the callee is of the primitive type unknown, which the
name of an import is, and code generation then finds no function. `Ends` needs
fairness and is model-checked only.

## Types

`TypeContext` is the table of `type.c` that every module of a program shares: a
type is an index, as it is a pointer in C, and each getter answers the table and
the type. `Types` is the life of a program's types: built while parsing, from
names whose declarations may come later; given members and sizes by the
definition pass, in the order of the text, with imports in between; their drop
flags refreshed at the end of every module. `TypeLowering` is `cg_types.c`,
which finds LLVM structs by name.

The run takes every program of up to three items from four families (values,
generics, errors, Strings) cut into up to two modules anywhere. Three items are
a declaration, one that holds it and one that uses both. `ContextSound`: one
object per meaning. `TypesMeanWhatTheySay`: the type the parser handed out means
what was written (`Means`, which knows nothing of when templates are registered)
when it is handed out and when all is defined. A generic type used before the
definition pass registered its template, so in the file that declares it, is
handed out as an empty struct (`parser_type.c:166`, `sema_stmt_struct.c:48`):
the property names it (`UsedTooSoon`), as it names the other exceptions below.
`RoomEnough`: the size kept for a type holds what LLVM stores in it, union
members included. `DropsKnown`: the drop flags are those of the types as they
are. `LlvmBodies`: an LLVM name has the body of the type it stands for, and none
contains itself; a name is a sequence of words, and `WordsOf` says which
declared names have a `_` in them, so that `Box_i8` and `Box<i8>` do share one
(`Lookalike`). 191,623 states. `CHECK_DEADLOCK FALSE`: a refused or lowered
program stops. The module declares recursive operators, as the C functions are
recursive, so no theorem is stated of it.

## Error sets and results

`ErrorSets` has two halves: analysis fills the error set of each function while
it walks the bodies, in the order of the text; then the program runs on the sets
as they are. Functions return errors, hand on those of others (`return g()`,
`g()?`), and ask (`x is E`); which statements run is any choice. An error is a
place in a set, and nothing translates it. The bodies are two functions of up to
two statements, recursive or not, over an anonymous or a named set, and a third
that asks; two errors suffice for two orders.

`ErrorSetsProofs` proves, for all errors, named sets and programs, from
`ErrorSetsAssumption`:

* `TypeCorrect`: `Spec => []TypeOK`: sets hold declared errors, and an error
  handed on never has the number of success.
* `CodeGenerationNeverPanics`: `Spec => []NoPanic`. The invariant `Inv` says of
  every statement already checked that what it returns is in the set of its
  function; sets only grow, so it stays true.
* `ErrorsAreDeclared`: `Spec => []ErrorsDeclared`, with `DeclaredInv`: a call
  that was checked has copied the whole set of its callee, whose body was
  complete by then (`CalleesAbove`); half-copied sets are followed by the
  position in the copying loop.
* `ErrorsAreRecognised`: `Spec => []ErrorsRecognised`, with `RecognisedInv`: a
  set that starts with a copy of the callee's set numbers the errors of the
  callee as the callee does, and later additions do not move them.

## Ownership

The text of a body is written one statement at a time as analysis walks it, with
`is_moved` as analysis keeps it; a body it accepts is then run on every path:
arms, for-in loops of up to two elements, `return`, `break`, `continue`, drops
at the ends of blocks and the deferred statements after them. A String is handed
on by `t = s` ("assign"), to a parameter of type String ("pass") and by
`into_str`; `let t = s` is a declaration and an assignment right after it; "use"
is any other read. What became of a variable (`owner`) and which buffer it
points to (`holds`) are kept apart, because the code keeps them apart: an
assignment copies the pointer and marks its source, and the drops at the end of
a block go by type and free whatever the variable points to. A parameter is
dropped by the callee, or not, if it returns before its end. `freed` and
`spoiled` follow the buffers that were freed while a variable still points to
them. `MovesEnforced`: no path of an accepted body reads a String after it was
handed on. `DropsSound`: no String is read after its drop, dropped twice or
before it was declared (`DropsInOrder`); no buffer is freed twice or read after
it was freed (`FreedOnce`), except through a variable that was assigned to
another one, or from one, or passed: those two share the buffer and both free it
(`Shares`); and a body left without a jump leaves none undropped
(`NothingLeft`). `LoopsEnd`, under weak fairness of `RunNext` (the program
runs): every body without `continue` comes to its end. Eight statements and
braces hold a loop, an arm in it, a declaration, a move and a use; two
declarations are a value that is moved and the one it moves to, or one that
shares nothing next to one that was passed on. 732,336 states. `CHECK_DEADLOCK
FALSE`: bodies end or are refused. Not modelled: loops other than for-in, whose
jumps are in `Lowering`; members and elements; drops at `return`, of which the
code generates none.

### Proofs

For bodies of any length, nesting and number of Strings, and loops over any
number of elements, from `OwnershipAssumption` (a body and its end are two
statements, so `MaxText` is at least 2), `OwnershipProofs` shows
`MovesAreEnforced`: `Spec => []MovesEnforced`, and `DropsAreSound`:
`Spec => []DropsSound`. Neither is inductive; both rest on one invariant, `Inv`,
which was model-checked on the bounds of the run before it was proved:

* the text (`TextSound`): braces match and nest (`Brackets`, `OpenBlocks`), each
  statement stands in the innermost block open there (`Standing`), what it reads
  is declared earlier in a block still open (`Resolved`), `break` and `continue`
  stand in a loop (`JumpsHaveLoops`), and no read of a variable comes after a
  move of it in the text (`Marked`), which is all that analysis establishes;
* the place (`Placed`): the frames are exactly the blocks around the statement
  to run, whatever was jumped over to get there, plus the one being ended or
  repeated;
* the Strings (`Owned`, `Undropped`): one that is in scope, that is, declared
  before this statement in a block with a frame, has not been dropped, and if it
  was handed on, some move of it stands earlier in the text, unless a loop
  repeats a move; without a jump, one out of scope is not live;
* the buffers (`BuffersSound`): a variable that is not declared yet or was
  dropped points to nothing, and the buffer of a variable that shares none has
  not been freed and is pointed to by no other variable (`OwnBuffer`).

A read is in a block inside that of its declaration, so the declaration is in
scope, not dropped, and handed on only by an earlier move, which `Marked`
excludes: here the order of the text, which analysis went by, is tied to the
order of execution. At the end of a block all its Strings are in scope, so no
drop is stray; they leave the scope together with the frame. A buffer gets a
second variable by an assignment only, whose two variables `Shares` names, and a
declaration takes one no variable points to; so what a drop, a callee or
`into_str` frees is never that of a variable that shares none. The lemmas
`NextScope`, `LeapScope` and `BackScope` say what each way of going on does to
the scope. `LoopsEnd` needs fairness and is model-checked only.

## Parser

`Grammar` is the language by rules and the table of operator levels, with
nothing of how the parser works; `Parser` is the recursive descent: a stack of
frames for the calls of the C functions, the rest of each body as a list of
items, binding powers, lookaheads, and recovery (`parser_sync`). Tokens that are
parsed alike are one token (`-` for negation and not, `^` for the power
operator, `loop` also for `defer`); `const` is one of its own, since the header
of a `for` declares with `let` only. The run parses 36,509 token sequences,
right and wrong, in eighteen families (807,107 states).

A call or a field that goes wrong returns NULL to the loop of
`parser_parse_expression`, which does not look (`parser_expr.c:202`): the frame
stays and goes on with `Null` as its left operand (`LoseLeft`). It ends by
returning NULL, or at a `=`, where `is_lvalue` reads the NULL and the process
dies (`AssignToNull`): `x. = 0;` does this to the compiler.

`AcceptsTheGrammar`: no error is reported exactly for the programs of the
grammar, outside the exceptions listed below. The grammar says what follows a
closed end, a type, a `?` or a block: the parser's loop takes any operator or
suffix there, whatever the level (`x else { } + x;`, `x as T (x);`), and so do
the rules (`Tighter`, `Casts`, `Arms`). `TreeIsText`: the tree of an accepted
text has its tokens in order, nothing skipped, nested by the levels.
`ParsingEnds`, under weak fairness of `Next` (one thread that goes on): every
recovery gets on, and the parser returns or dies as said. The states are a path
per text, so the bound is the texts: every two or three constructs of a family
meet, and every operator and suffix with every closed end. Not modelled:
imports, visibility, unions, errors, `impl`, aliases, arrays and indexing,
`new`, `sizeof`, `::`, union and result types, `_` as a pattern.

## What the premises exclude

Read from the code, and shown by the runs when the premise is dropped:

* Jumps out of a scope skip its deferred statements (`LoweringLostDefers`;
  `README.md:71`).
* Deferred jumps out of the construct that closes, deferred declarations,
  declarations as the bare body of `while` or a case, and declarations and for
  loops that read their own name (`displaced`, `panicked`).
* A String of the heap moved by `let t = s` is dropped through both variables,
  and after `t = s` in an inner block, at whose end s is dropped, t is read
  freed (`risks` "copied", `Shares`; `cg_stmts.c:137`, `cg_stmts.c:245`). A
  function that returns a global String makes two Strings of one buffer
  ("aliased").
* Packed strs: `==` compares pointer words alone ("prefix"); the last of fifteen
  bytes is lost ("full"); `for` takes packed words for a pointer.
* A move in a loop of what is declared outside it (`MovedAgain`), of a constant
  (`MovedConst`), after a deferred read (`MovedUnderDefer`); deferred statements
  run after the drops of their block (`DefersReadOwn`); `continue` in a for-in
  loop skips the increment (`NoContinue`).
* An error handed on by a function whose set has another order is taken for
  another one (`SameNumbers`); sets of functions below, or called back, are
  copied before they are complete (`CalleesAbove`); `?` under a named set checks
  nothing (`NamedSetsReturn`); assigning another result to a variable widens the
  set of the function that made it (`ReusedApart`).
* Circular imports inside modules, two files of one name, renamed imports
  (`Plain`); private functions of one name in two modules (`PrivateApart`); an
  import with the name of a function that is called (`AliasesApart`); the
  statements after a top-level statement that branches are dropped. Errors found
  in an imported file do not stop the compiler.
* A generic type used in the file that declares it is an empty struct of its
  name (`UsedTooSoon`); a declared name with a `_` can be the LLVM name of an
  instance, and the two share one body (`Lookalike`): `Box_i8` and `Box<i8>`,
  `Array_i64` and `[i64]`.
* `type_equals` ignores the arguments of an instance, so `Box<Array<i8>>` and
  `Box<Array<i64>>` are one type (`Nested`); `*T` loses its star before a
  placeholder (`StarredHole`); types laid out before their members have sizes
  (`early`), or declared twice (`redefined`), and the size of fixed arrays,
  results and tagged unions (`Unsized`); all unnamed unions share one LLVM name;
  a struct inside itself through a fixed array is not detected.
* A file that ends where a statement should begin compiles without it
  (`CutShort`); a `<` is taken for type arguments when a `>` and a `(` follow
  anywhere later, so `x < x; x > (x);` is refused (`TakenForTypes`); `?` does
  not take a prefix operator or `if` behind it for an operand (`ReadOtherwise`);
  `(*` begins a cast, so `(*x);` is refused (`TakenForCast`); `switch x { }` is
  read as a struct literal (`TakenForLiteral`); a field of what ends in a type,
  a `?` or a block can be assigned (`FieldOfClosed`).
* An assignment to a call or field that went wrong ends the compiler
  (`Crashed`).

## Not modelled

The lexer, the syntax tree, paths and the standard library are functions of
their input without state the properties could relate. Typing rules of
expressions, arithmetic and member access in code generation are case
distinctions emitted in a straight line. The JIT, the linker, option parsing and
the layout of messages are input and output. Containers end the program when
memory runs out; `TynaArray`, which does not, is the one hazard without a
property.

Model-checked only: liveness (`CallsReturn`, `Ends`, `LoopsEnd`, `ParsingEnds`),
which needs ENABLED; and what recursive operators compute (`Grammar`, `Parser`,
`TypeContext`, `TypeLowering`, `Types`), which needs induction over data with an
operator as a parameter, beyond the provers installed.
