# Minigrace in TLA+

Specifications, model checks and proofs about [minigrace](../src/README), the
self-hosted compiler of the Grace language, and its run-time libraries. The
modules are translated from the source; `PROJECT.json` names, for each
definition, the lines it stands for.

- [The system](#the-system)
- [Modules and the code they model](#modules-and-the-code-they-model)
- [Runs](#runs)
- [Proofs](#proofs)
- [Where the code and its documents disagree](#where-the-code-and-its-documents-disagree)
- [What is not modelled](#what-is-not-modelled)
- [Plan](#plan)

## The system

A Grace program is compiled by `compiler.grace` (lexer, parser, identifier
resolution, module checks, code generation) to C or to JavaScript, and runs on
`gracelib.c` or on `js/gracelib.js` together with libraries written in Grace.
Inside one program everything is sequential; only the compiler runs several
processes, each waiting for the next. What is hard is not threads but *control
that leaves early* (exceptions and non-local returns: `longjmp` in the C library,
exceptions in JavaScript, both past state that is kept beside the stack), *a
collector that may run inside any allocation*, *collections that are changed
while something is iterating over them*, and *files left by earlier, perhaps
unfinished, compilations*.

| Component | Modelled by | State it keeps | Operations | Interacts with | Hard behaviour | Correct if |
|---|---|---|---|---|---|---|
| Object heap (`gracelib.c` 4265-5122) | `GraceHeap` | `objects_living` with size, cursor, high-water mark and `freed_since_expansion`; `GC_roots`; shadow stack; `gc_paused`; flags of objects | `alloc_obj`, `expand_living`, `rungc`, `gc_root`, `gc_frame_*`, `gc_pause` | called by all native code; follows the mark function of every class | a collection inside any allocation; an unchecked store guarded only by bookkeeping; flags left over from earlier collections | nothing in use is freed, garbage is, the table is exact and bounded |
| Control stack (`gracelib.c` 375-426, 3683-4116, 4592-4634) | `ControlStack` | `calldepth`, `return_stack`, `finally_stack`, `exceptionHandler_stack`, `error_jump`, `error_jump_set`, `exceptionHandlerDepth` | requests, also on super, block application, `match`, `tryCatch`, `graceRaise`, `block_return` | run by all generated code; heap through frames | `longjmp` past frames that hold state; jump buffers copied and restored by hand; a depth limit | control goes to the innermost live handler or the block's own method, `finally` exactly once |
| Objects (`gracelib.c`, `genc.grace`) | `ObjectChain` | per part: class, data array, super | construction, `findmethod`, `gracebecome`, clone | control stack, heap | an outer pointer shared by the parts of an object while they are initialised; contents exchanged while others refer to them | lookup finds the most specific method and that part's variables |
| Strings (`gracelib.c` 1775-2486) | `Ropes` | bytes, or two parts and a depth; size, length, hash, computed on the way | concatenation, flattening, comparison, search, substring, iteration | collector, which flattens | lazily built, shared, flattened by readers and by the collector | a string is immutable |
| `stringMap.grace` | `StringMap` | array of bindings, count | put, get, contains, iteration, expand | used by the compiler's own tables | collisions, growth through `put` itself, iteration with a count and an index | it is a map |
| Dictionary, set (`collectionsPrelude.grace` 1176-1860) | `GraceDictionary`, `GraceSet` | array with *unused* and *removed* marks, count, `mods`; iterators | put / add, remove, bulk requests, expand, iterators | lazy views of themselves, blocks of the program | vacated slots, stale iterators, arguments that iterate over the receiver | a map, a set; iterators fail fast or are complete |
| Lists (`gracelib.c` 1143-1580, `collectionsPrelude.grace` 901-1149) | `BuiltinList`, `GraceList` | array, size (and `mods`); iterators, loops | add, remove, at, reverse, loops | primitive arrays, blocks | blocks that change the list under a loop, a list as its own argument, the last slot | it is a sequence; loops and iterators are complete or fail |
| Module loading (`xmodule.grace`, `genc.grace`) | `ModuleLoading` | imports checked, compiled files; `.gct` and `.gcn` files with time stamps | check import, compile, read and write `.gct`, link | file system, compiler processes | files older than their source, cycles, a compiler that fails or is killed | a program is built from current modules, acyclically if no compiler was killed at the wrong moment |
| JavaScript run time (`js/gracelib.js`, `genjs.grace`) | `JsRequests` | `superDepth`, `overrideReceiver`, `onSelf`, `invocationCount` | requests, blocks, match, tryCatch, constructors, returns | generated code | globals that say what a request means, beside a stack that exceptions unwind | methods find their own self and super; a return ends its own method |
| Standard prelude, patterns | - | none of its own | control structures, `match`, patterns | control stack | backtracking of combined patterns | the documented result |
| Lexer | - | mode, accumulated text, indentation stack | one step per character | parser | interpolated strings nest, layout | tokens cover the text, indentation balances |
| Parser, AST | - | token list | recursive descent | identifier resolution | - | - |
| Identifier resolution | - | tree of scopes | declare, look up, reuse of inherited scopes | module loading | scopes read before they are complete | a name resolves to its innermost declaration |
| Code generators | what they emit: `ControlStack`, `ObjectChain`, `JsRequests` | names used, output | visit nodes | run-time libraries | - | - |
| Browser (`js/background.js`, tabs, timers) | - | worker, timers | messages, timers | browser event loop | answers without a request number | no answer or callback acts for a program that is gone |
| gUnit, minitest | - | results | run, assert | control stack | failures in the middle of a test | each test counted once |
| Mirrors, curl, REPL, debuggers, DOM / GTK / graphics bindings | - | little | - | heap, control stack | - | - |

## Modules and the code they model

### `GraceHeap` (with `GraceHeapProofs`)

`heap` is the allocator's own state: `living` is `objects_living`, `next`,
`max` and `size` its cursor, high-water mark and length, `fse` is
`freed_since_expansion`; `marked` and `dead` are the objects whose REACHABLE and
DEAD flags are set, `live` the blocks that `glmalloc` gave and `glfree` did not
take back. `refs` are the pointers an object's mark function follows. The C
locals of the running code are the set `held`: the collector does not see them.
`AllocObj` is `alloc_obj` as a whole, with the growth and the collection it may
start; the other actions are one C function each, and `Load`, `Forget`,
`SetField` are what the code between calls does.

`AllocObj` has one guard the C function does not: `Disciplined`, the protocol
of the callers. At an allocation every local still in use is reachable from a
root or a slot, or collection is paused. It is an assumption about thousands of
lines of generated code, stated in one place; without it `NoDangling` is false
after two steps, as it would be in C.

Marking is not a traversal here but its result: the least set that contains the
seeds and is closed under `refs`, not crossing objects whose flag is still set.

### `ControlStack` (with `ControlStackProofs`)

`cstack` is the C stack, one frame per method request, request on super, block
application, `Block_match` and `tryCatch`. A `jmp_buf` is the position of the
frame that set it. When that frame returns or is jumped over, all copies of the
buffer become `DEAD`, and a `longjmp` to one is undefined behaviour, where the
model stops. The globals keep their names. `callmethod4` is called up to three
levels deep between one piece of Grace code and the next (`match`,
`applyIndirectly`, `_apply`); `Height` says how far `calldepth` is raised, and
`MethodSlots`, `BlockSlots`, `CaseSlots` which entries of `return_stack` are
written on the way. A request on super goes straight to `callmethod4` and sets
no return point. A finally block that `callmethodflags` applies after a return may belong
to a method that the return has left: `StillHome` then gives it no method to
return from, since its frame number may be another frame's by now.

The Grace program is any program of a *kind*, a member of `Programs`: the
features it uses and how deep its C stack may grow. `escapeCleanup`,
`returnOverTry` and `returnInSuper` exist because the code mishandles them,
`returnInCase` because the code sends the return to the wrong place and no
document speaks of it; `blocks` and `superRequests` only make room for deeper
nesting of try statements in programs that do without.

`owed` is a history variable: try statements entered minus finally blocks begun.

Where a request, a block application or a `match` reaches the depth limit, the
error is raised as in the code. Two guards are not the code's: `Fits` in
`EnterTry` and in `MayReturn`. A try entered so near the limit that requests of
`tryCatch` itself (`match`, `finally`) overflow would lose its finally block, and so would
a return over a try whose finally blocks overflow; both are left out.

### `HashProbe`, `StringMap`, `GraceDictionary`, `GraceSet`; `MapSpec`, `SetSpec` (with `MapProofs`, `GraceSetProofs`)

`HashProbe` is the search that three Grace files spell out: five jumps
`t -> 3t + 1`, then one slot at a time. `Probe` gives the slot of each round in
closed form; after `size + 5` rounds the loop repeats itself, so
`SearchEnds` decides whether the code's loop ever returns.

The three tables share their shape: `inner` is the array, a count, and `rehash`
holds the calls of `expand` under way, whose loop requests `put` or `add` of the
same object, so that every round is a step (and may nest, which
`SizeIsExact` excludes). Whether `mods` differs from an iterator's `imods` is the
flag `stale`. Loops that consult the program (`keysAndValuesDo`, `removeAllKeys`,
`addAll`, `removeAll()ifAbsent`) are split the same way. Hash codes are
a constant (or a part of the kind of program): the model takes any function.

`MapSpec` and `SetSpec` say what a map and a set promise: what each request
answers. The tables are checked to implement them under the refinement mapping
that joins the array with what `expand` has not carried over yet.

### `BuiltinList`, `GraceList`; `ListSpec` (with `ListProofs`)

`BuiltinList` is the list of `gracelib.c`: `store` maps each list to its `size`,
`space` and `items`, where slots behind the last element keep old values. Its
loops (`do`, `do()separatedBy`, `keysAndValuesDo`, `fold`, `contains`, `asString`, `addAll`) are C loops that request
methods of the program in every round (`reduce` is not among them: it passes the
address of one local as two arguments, 1278, so its block never gets the elements), so `loops` is a stack of such loops,
each round is a step, and between two rounds every other action may happen to
the same list. `asString` alone reads the size once.

`GraceList` is the list of `collectionsPrelude.grace`, an array that `expandTo`
replaces. Elements are moved in it by `addAllFirst`, `removeAt` and `reverse`;
`stale` says whether `mods` has been raised since an iterator was made. Arguments
of bulk requests are sequences of values or the list itself: then `addAll` finds
one more element in every round until the array is full and `at()put` raises
BoundsError, and `removeAll` skips every other element. Where native code requests
`for()do`, the list gets the request `do`.

`ListSpec` is a sequence per list and what each request answers; the refinement
mapping is `Contents`, the part of the array below the size. That loops and
iterators hand out every element, once, is `LoopsAreComplete`, which needs the
loop's history (`given`, `made`, `onto`, `touched`). In `Libraries` it speaks of both modules:
of `LoopsAreCompleteStep` of native lists and `IteratesAllStep` of Grace lists.

### `Ropes`; `StringSpec`

`cell` is the memory: a string is `String` (its bytes) or `ConcatString`, which points
to two parts until something needs its bytes, and then holds them in `flat`.
`size`, `blen`, `ascii`, `depth` and `hash` are computed when the object is made or
first asked. `held` are the strings that the program has, the roots
of `Collect`. `ConcatString__mark` flattens what it reaches and does not go on to its
parts. One-byte strings are shared (`interned`), as in the code. A text is a
sequence of characters, and a character a sequence of bytes in UTF-8 (`Utf8`, by the
lengths that `getutf8charlen` reads off the first byte), because code that
counts one or the other differs. `StringSpec` has immutable texts; the refinement
mapping reads a rope's text through its parts as long as it is not flat.
Two kinds of requests are left out because what they do is undefined: `at` with an
index out of range, which C does not check (2254), and substrings that do not fit `buf`
(2314): it has room for four bytes for each of `cl` characters, and `cl + 1` are copied,
so every substring of one character is written past its end, and some of few characters
of many bytes (`InBuffer`). `StringSpec` leaves two answers open where the
JavaScript library and the tests disagree with the C code: `contains` when both texts
are equal (C answers false, 1077; `js/gracelib.js` 319-324 true), and substrings that begin
before 1 or beyond size + 1 (C answers a text; `js/tests/t165_string_test.grace` 262-263
expects BoundsError).
`hash_init` is a constant: the code draws it when the program starts.

### `ObjectChain`; `ObjectSpec` (with `ObjectProofs`)

An object is a chain of parts in `obj`, one per constructor, each with a `class`,
an index into `data` and a `super`; a data array begins with the pointer to the object
around its constructor (`data[0]`, here `outer`). `building` is the stack of
constructors under way: the inherits clause of one requests the next with the
same `self`, whose `outer` is exchanged meanwhile and put back after. `Become` is
`gracebecome`, which exchanges the contents of two objects; `Clone` copies parts and
*shares* their data. `ObjectSpec` says which method and whose variables a request
finds when references lead to a sequence of parts: those of the first part that has the method, or
else of `GraceDefaultObject`.

### `ModuleLoading` (with `ModuleLoadingProofs`); `ProgramBuild`

`src`, `gct` and `gcn` are the files of each module, with time stamps in whole
seconds; `procs` is the stack of compiler processes, where all but the last wait
(`compileModule` runs the compiler and waits for its `status`). A process checks
the imports in its `agenda` one at a time: an import whose files are newer than its
source is taken with the list in its `.gct` file, any other is compiled by a
new process. Then it writes its `.gct` file in two steps, as `writeGCT` does: `OpenGct`
empties it and leaves any part of its lines on the disk, `CloseGct` completes it. Then it has its
`.gcn` file made, and links if
it is the program. Anybody may edit a source, a compilation may fail where a
compiler can, and all of them may be killed between any two steps; `clock` moves on its own.
Two variables are history: `dirty` are the modules edited while a compiler ran, whose files
may be wrong and which nobody can recognise; `torn` are those that were up to date when
a compiler opened their `.gct` file to write it again, and that no compiler has completed since. A list
torn beside a `.gcn` file that is out of date does no harm, since the module is compiled
again; beside one that is up to date it is taken as it is (257-261, 332-358).

`ProgramBuild` promises that what is linked is the main module and all it needs,
each from its source as it is, without cycles that do not go through a torn module
(without the exemption TLC links a cycle: a program is killed while its list is written
again; then a module that it imports is made to import it, and is compiled). `exe` is the same variable in both.

### `JsRequests` (with `ObjectProofs`)

`stack` is JavaScript's: activations of generated code, of `match` and of `tryCatch`.
Its exceptions unwind it by themselves (`flying`), but what a request
means is passed beside it: `superDepth` (the part whose code runs),
`overrideReceiver` (self of a request on super), `onSelf`
(whether confidential methods may be requested), `invocationCount` (which numbers the
method a block returns from). Each is set, reset and restored at different places, and
`SelfAndSuper` and `ReturnGoesHome` (`ReturnGoesHomeInJs` in `Libraries`) say that what methods see is nevertheless right.
Of `superDepth` they say it of methods, constructors and the module, not of blocks: a block is applied with the whole
object there (1750), or with the block itself (`applyIndirectly`, 1710), not with the part that
its text is in, so that a request on super in a block of an inherited method begins at the wrong part. No document speaks of it.
`Missing` says which requests may name methods that do not exist. After one on
super, `overrideReceiver` stays set, and the next request of `apply` or `match`
goes to the wrong object (`Misdirected`): the catch block of a try is lost. No document speaks of
it, so there is no run against it. The objects of the model have no `asString` of
their own, which the library would request for error messages.

### `Libraries` (with `LibrariesProofs`), `MCLibraries`

`Libraries` joins components that theorems are about: a program uses a
`stringMap`, a dictionary, a set, built-in lists, a list written in Grace, objects that inherit, or strings,
or it runs in JavaScript, which `kind` says from the start. The
tables and the list in Grace share the variables `inner`, `count`, `iter` and others, which have the
same role in each. A property speaks of every kind of program it makes sense
for, so that one definition is what TLC checks on a small instance and what
`LibrariesProofs` proves of all of them. `Libraries` instances the proof modules of the tables, of the lists and of
objects, which extend the components, because its theorems rest on theirs (`ListProofs` extends
`GraceList` and instances `BuiltinList` as `B`; `ObjectProofs` extends `JsRequests` and instances `ObjectChain` as
`O`, so that `J!O` in `Libraries` are native objects); the proofs
about `Ropes` are in `LibrariesProofs` itself. `PutInVisit` of the `stringMap` and
`LazySource` of the set are FALSE in it (see *Excluded on purpose*).

`MCLibraries` gives `Libraries` its constants.
`Regular` are programs that the dictionary is right for; that they are is an ASSUME, `DictionaryAssumption`.
`StateView` leaves out two things that no guard reads: `answer`, which each
request writes anew and which the properties read only in the step that writes it, and the slots
behind the last element of a Grace list (an enlarged list overwrites them). `Symmetry`
exchanges values, which are only compared, and addresses of strings.

The other `MC` modules give one component its constants. What a component assumes of
them is evaluated by the run of its MC module, or by `libraries`.

## Runs

| Run | Question | Instance |
|---|---|---|
| `heap_table` | is the table exact, and collection too? | 3 addresses, table of 3, period 2, 1 slot, 1 pointer per object |
| `heap_progress` | pausing, and: is garbage freed in the end? | 3 addresses, table of 1, period 1, no pointers, no symmetry (it is a liveness run) |
| `control` | do the control stacks stay consistent? | four kinds of programs: complete tries to 5 frames, early returns to 4, nested tries to 6, requests on super to 4; depth limit 8; 2 handlers left over |
| `return_over_try` | does a return out of a try leave handlers intact? (it does not) | nested tries |
| `raise_in_catch` | is finally applied when a case block raises? (it is not) | 5 frames |
| `return_from_super` | does a return in an inherited method end that method? (it jumps to a buffer never set, or dead) | 4 frames |
| `libraries` | do the data structures of the libraries, and requests in JavaScript, keep their promises? | below |
| `dictionary_stale_binding` | does a removed key stay removed if keys collide? (it does not) | 3 keys, array of 8 as in the code |
| `set_search_loops` | do searches end? (not always) | 8 elements, array of 8 as in the code |
| `set_lazy_addition` | does an iterator notice `addAll`? (not if `addAll` uses it) | 3 elements, array of 8 |
| `module_loading` | is every program built from its sources as they are, and does every compilation end? | 3 modules, two of them programs, with two lists of imports each, 1 edit, clock to 2, 3 processes |
| `false_cycle` | is a program refused only for a cycle it has? (no) | 2 edits, 2 programs, clock to 1, 3 processes |

The instances in `libraries`:

| Part | Question | Instance |
|---|---|---|
| `stringMap` | is it a map, and are its loops complete? | 5 keys, hashes 0, 1, 4, 5, 7, array of 4 as in the code, two expansions |
| dictionary | the same, with fail-fast iterators, in programs that it is right for | 3 keys, array of 4; with removal hashes 0, 1, 7; without 0, 8, 16 |
| set | the same of the set | 3 elements, hashes 0, 1, 4, array of 4 |
| native lists | are they sequences, whatever the blocks of loops do to them? | one of up to 3 elements and one of up to 1, first space 1, 1 loop at a time |
| Grace list | the same, and do iterators fail fast? | up to 3 elements, 1 loop, arguments of two values or the list itself; arrays of 1, 2, 3 and 4 |
| strings | are they immutable, though ropes are flattened and collected? | 3 addresses, a character of one byte and one of two, literals of up to 1, length 4, depth 2, hash of 8 bits that starts at 5 |
| objects | do requests find the right method and variables while chains of parts are built, exchanged and copied? | 5 addresses, three constructors that inherit in a row, two constructions inside each other |
| JavaScript | do requests keep self, super and returns apart, also when exceptions unwind? | a module and an object with an inherited part, 2 calls, 4 activations, 1 block kept |

**Why the bounds are enough.** *Heap:* a table of three slots and three
addresses reaches every case of the growth decision (no holes, few, more than a
third), reuse of a freed address, and a second growth; the proofs remove the
bounds. *Control:* five frames hold a try inside a method, or two tries inside
each other, with the block and the case that run in them; six hold two tries
inside a method, the least that a return can leave one after the other. The
limit of eight is reached by nesting, so that the depth check is exercised.
*Tables:* the keys collide before an expansion and part after it, and the other
way round; the fullest array is reached, and expansion happens once in the set
and the dictionary and twice in `stringMap`. An array of four instead of eight
in the set and the dictionary makes expansion happen with three elements.
*Lists:* three elements are the fewest with a first, a middle and a last one; the array
is enlarged twice, is full and is not; a loop and the code it requests are two
actors, and further loops inside would be further actors of the same kind.
*Strings:* with depth 2 a rope of ropes exists, and `++` beyond it makes a String at once;
three addresses are few enough that those of parts are used again after a
collection. *Objects:* one object of three
parts, or two of which one becomes the other. *JavaScript:* a method, its block,
and a request on super inside. *Modules:* three are needed for an import that is
both direct and indirect and for a cycle that does not go through the program's own
imports; one edit gives a file older than its source, the clock gives the same second and a later one.

**Deadlock** is checked except in the heap runs, where the program may have died
of a full shadow stack, and the control runs, where it may have exited.

**Fairness.** `ModuleLoading` assumes weak fairness of `Step`: the operating system
runs the last process, and the programs it starts (gcc, the compiler) end.
`Start`, `Edit`, `Tick`, `Fail` and `Kill` are not promised. From that follows `CompilationsEnd`, for
imports that are not cyclic and not edited meanwhile: the agenda of each process shrinks or
is replaced by that of a module it did not have before. Elsewhere nothing in the code
promises that a program goes on, so there is no fairness, and the other
liveness property, `GarbageIsReclaimed`, carries its
condition itself: if the program allocates again and again and is not paused for
ever, then each object is freed or is reachable again.

**Excluded on purpose.** `StringMap` with `PutInVisit = TRUE` violates
`IteratesAll` (a put during `keysAndValuesDo` skips and repeats keys and can run
past the array), and `GraceDictionary` with `"lazySource"` violates `FailFast` as
the set does (`d.removeAllKeys(d.keys)` ends silently after half of the keys).

## Proofs

All proofs are about every value of the constants, in particular every finite set
of addresses, modules, keys, elements or objects, and every bound.

| Module | About |
|---|---|
| `GraceHeapProofs` | `GraceHeap` |
| `ControlStackProofs` | `ControlStack` |
| `MapProofs`, `GraceSetProofs` | `StringMap` and, as instance `D`, `GraceDictionary`, and `GraceSet`, with their refinements of `MapSpec` and `SetSpec`; both begin with what they need of `HashProbe` |
| `ListProofs` | `GraceList` and, as instance `B`, `BuiltinList`, with their refinements of `ListSpec` |
| `ObjectProofs` | `JsRequests` and, as instance `O`, `ObjectChain`, with its refinement of `ObjectSpec` |
| `LibrariesProofs` | `Libraries`: the theorems of the tables, the lists and objects, about every program that uses one of them, and those about `Ropes` with its refinement of `StringSpec` |
| `ModuleLoadingProofs` | `ModuleLoading`, with its refinement of `ProgramBuild` |

### The heap

`GraceHeapProofs` proves for every initial table
size, period, shadow-stack size and mode:

| Theorem | Property | In words |
|---|---|---|
| `TypesAreKept` | `TypeOK` | the state keeps its type; the store in `alloc_obj` is inside the table |
| `TableIsSound` | `TableConsistent` | the table has no duplicates and nothing beyond its mark |
| `HolesAreCounted` | `HolesCounted` | holes are counted exactly |
| `ObjectsAreRegistered` | `Registered` | each object is registered |
| `TableStaysBounded` | `TableBounded` | the table never outgrows three times the number of objects that can exist at once, or its first size |
| `NothingDangles` | `NoDangling` | no object in use is freed or flagged dead |
| `CollectionIsExact` | `CollectsExactly` | a collection leaves what is reachable and the new object, nothing else |

*Assumptions*: those of the module's ASSUMEs (finitely many addresses, positive
sizes), and the guard `Disciplined` of `AllocObj`.

*Argument*: none of them is inductive alone. The invariant is `IInv`, the
conjunction of the types, `Sound(heap)` and `NoDangling`. `Sound` joins the
facts that need each other: that the store is in range needs the exact
count of holes (if the table is kept as long as it is, more than a third of
it *is* holes), the count needs that nothing lies beyond the high-water mark and
that cursor and mark agree, exactness of a sweep needs that every set flag
belongs to a registered object (or marking would stop early), and that no object
is registered twice (or one sweep would free a slot's twin).
The proof goes along the data: `MarkCloses` and `MarkIsLeast` say what marking
computes; `SweepIsSound`, `RungcIsSound`, `ExpandIsSound` and `RegisterIsSound`
that each function keeps a record sound; `AllocKeepsInv` composes them;
the actions of the running code only shrink what is in use, or add what already
was (`UseShrinks`, `UseCloses`). Compaction needs a counting argument: the k-th
occupied slot is well defined and `Compacted` is a bijection
(`RankIsBijective`, `CompactedIsDense`).

### Module loading

`ModuleLoadingProofs` proves for every set of modules, every lists of imports that
sources may have, and every bound on edits, time and processes:

| Theorem | Property | In words |
|---|---|---|
| `TypesHold` | `TypeOK` | files, processes and the clock keep their types; no module imports itself, directly or not |
| `GctMatchesHolds` | `GctMatches` | a `.gct` file that would be used lists what the code beside it calls, unless its module is dirty or torn |
| `BuildsAreRight` | `IsBuild` | `ModuleLoading` implements `ProgramBuild`: initial states and every step; no cycle is linked unless it goes through a torn module |

*Assumptions*: `VariantsAssumption` (finitely many modules; a source does not
import itself), `NoneAssumption` and `BoundAssumption`.

*Argument*: the invariant `Inv` joins the types with `FilesSound`, a soundness of each process
(`Sound`), and `Stacked`. Its heart is `Complete(m)`, in two parts: `Made(m)`, m's `.gcn` file
was made from its source as it is (unless m is dirty), and `Listed(m)`, its `.gct` file
lists its direct imports (unless m is dirty or torn). Files that `UpToDate` accepts are
complete because a time stamp that is *greater* excludes an edit in the same second. Of
the modules in a process's `imports` only `Made` is kept, since no process compiles them
again; the list is looked at in the very next step, so `Listed` is needed only of the
one just imported (`Unseen`). `Checking` relates what is done to what remains in the agenda: what
the source calls has been imported or is pending, and an import that leads back to
the module itself still has its transitive check before it. When the agenda is empty,
`Checked` follows: the calls are among the imports, and no import calls the module, unless
its list was torn. `Stacked` ties each waiting process to the next one, so that the exit status it
receives is about the module it waits for. `LinkBuilds` draws the conclusion: that the
parts are current follows from `Made`, that they are closed under imports from the
linker, which fails on a call into a module that is not linked, and that they do not
lead back to the program from the lists, which is why a torn one is excepted.

### The control stack

`ControlStackProofs` proves for every `STACK_SIZE`, every number of frames, handlers
left over and blocks, and every set of `Programs` without three features:

| Theorem | Property | In words |
|---|---|---|
| `TypeCorrect` | `TypeOK` | depths, jump buffers and the three arrays keep their types; nothing is written outside them |
| `DepthIsRestored` | `DepthRestored` | code that runs finds the `calldepth` it started with, however calls above it ended |
| `HandlerIsInnermost` | `InnermostHandler` | `error_jump` leads to the innermost try that protects the code |
| `HandlersAreCounted` | `HandlersCounted` | `exceptionHandlerDepth` counts the handlers |
| `FinallyBelongs` | `FinallyBelongsToTry` | a waiting finally block has its try on the stack, or is about to be applied |
| `FinallyIsApplied` | `FinallyAlwaysApplied` | no finally block is lost |
| `JumpsAreDefined` | `JumpsWhileTriesComplete` | no `longjmp` goes to a call that is over |
| `ReturnsGoHome` | `ReturnGoesHome` | a return ends the method its block is written in |

*Assumptions*: those of the module's ASSUMEs, and `OrdinaryPrograms`: no program uses
`escapeCleanup`, `returnInSuper` or `returnInCase`. With the first two the
code loses a finally block and returns from the wrong method (the runs
`raise_in_catch` and `return_from_super` show it), and with the third it returns to the
wrong place too; no invariant could say where. Returns *out of* tries (`returnOverTry`) are not
excluded: then only the three properties that carry the condition `TriesComplete`
(or `JumpsWhileTriesComplete`) lose their force, as `return_over_try` shows they must.

*Argument*: none of the properties is inductive. The invariant `IInv` has four parts besides the types.
`Layout`: the stack is a pile in which each kind of frame stands only on the phases that
start it, and each frame occupies levels of `calldepth` of its own, so that array
entries of different frames do not meet. `Returning`: a block that frame `i` has
was made below `i`, and the entry of `return_stack` that its return will use still
holds its method, because code in between writes only at higher levels - unless
a finally block or a typed case block lies in between, whose requests may
overwrite the entry. `Handling`: `error_jump`, `error_jump_set` and
`exceptionHandlerDepth` fit the tries on the stack, *and what each `tryCatch` has saved of them
fits the tries below it*; therefore restoring is right at whatever frame an exception stops.
`Finallies`: a waiting block lies at the level of an active try or at one
that an unwinding frame has left, and `owed` counts those that have not begun.
Each part depends, for a frame, on that frame and those below. A step cuts the pile (a
return, an exception), changes the phase of the last frame, or puts at most two frames on it;
lemmas say once for each of these what is kept (`Kept`, `CutTo`), and each action cites them.

### Hash tables

What the search of `HashProbe` finds is stated in both modules (their `size` is a variable of one
and a number of the other), for every hash, size and set of slots
that stop it: its rounds visit every slot (`ProbesAll`: after five jumps it steps
through all of them, modulo the size); it ends exactly if something stops it, at the first
such slot it comes by (`SearchStops`, `StopsOnce`, `StopIsFound`); and it ends at the same slot
if slots it does not end at stop stopping it (`StopsFewer`).

`MapProofs` proves for every set of keys and values, every hash function and every first size:

| Theorem | Property | In words |
|---|---|---|
| `TypeCorrect` | `TypeOK` | types |
| `SearchesAlwaysEnd` | `SearchesEnd` | the search loop always stops |
| `SizeCounts` | `SizeIsExact` | `size` is the number of bindings, and `expand` does not nest |
| `KeysAreFound` | `Findable` | every key is where `findPosition` looks for it |
| `LoopVisitsAll` | `IteratesAll` | `keysAndValuesDo` visits each binding once |
| `TableIsMap` | `IsMap` | `StringMap` implements `MapSpec` |
| `DictionaryInvariance` | `DictInv` | the invariant of the dictionary, below |
| `DictionaryTable` | `D!TypeOK`, `D!SizeIsExact`, `D!Findable` | types, count, and every key where `findPosition` looks for it |
| `DictionaryIterates` | `D!FailFast`, `D!IteratesAll` | an iterator gives nothing after a change, and at its end has given each binding once |
| `DictionaryIsMap` | `D!IsMap` | `GraceDictionary` implements `MapSpec` |

`GraceSetProofs` proves for every set of elements, hash function and first size:

| Theorem | Property | In words |
|---|---|---|
| `TypeCorrect` | `TypeOK` | types |
| `SizeCounts` | `SizeIsExact` | `size` is the number of elements, and `expand` does not nest |
| `ElementsAreFound` | `Findable` | every element is where `findPosition` looks for it, whatever was removed |
| `IteratorsFailFast` | `FailFast` | an iterator gives nothing after a change |
| `IteratorsGiveAll` | `IteratesAll` | an iterator that ends has given each element once |
| `TableIsSet` | `IsSet` | `GraceSet` implements `SetSpec` |

*Assumptions*: `ConstantsOK`, which each module states of its constants. `LoopVisitsAll` also needs `~ PutInVisit`, and the two theorems about
iterators `~ LazySource`: with them they are false (see *Excluded on purpose* and
`set_lazy_addition`). `SearchesEnd` of the set is no theorem because it is false in general:
`set_search_loops`. The other theorems hold all the same, since a search that does not return
changes nothing. The theorems about the dictionary need `RegularPrograms`: a program that removes keys
has keys whose searches start in different slots of the first array (and then of every larger
one), and no program hands `removeAllKeys` an iterator over the dictionary itself. For others
they are false: `dictionary_stale_binding`.

*Argument*: `Located` says that the search for each key or element ends at the slot that holds it. A search passes no
slot at which it could stop. So storing something at the slot where the search for it
stopped takes away a stop for others only where theirs did not end; and in the set a
removed slot, which `findPosition` passed before, is one it passes still when another
element takes it.
That what is used is unique follows from `Located`, and then `size` is the cardinality of the
used slots. While `expand` runs, what has been stored came from the slots passed (`Expanding`), so
what is stored now is new, the new array is at most half full and `put` does not expand again. For the refinement, the
mapping joins both arrays: moving a binding leaves the union as it is, and every
other request changes one key.

`findPositionForAdd` of the dictionary stops at vacated slots too, so that `InPlace`, as `Located` is called there,
is inductive only together with a reason why no vacated slot comes before a key (`DictSound`):
in programs that remove, every key is in the first slot of its search, and nothing else is ever
(`AtHome`); in the others, nothing is vacated and the argument is that of the `stringMap` (`NeverVacated`).

### Lists

`ListProofs` proves for every set of lists and values, every size that lists may reach, every first
space and every depth of loops inside each other:

| Theorem | Property | In words |
|---|---|---|
| `GraceListInvariance` | `IInv` | the invariant of lists written in Grace, below |
| `GraceListTyped` | `TypeOK` | types; `size` stays within the array |
| `GraceListFailsFast` | `FailFast` | an iterator gives nothing after a change |
| `GraceListIterates` | `IteratesAll` | an iterator that ends has given the whole list; a bulk request over a loop adds what the loop's list had |
| `GraceListIsSequence` | `IsList` | `GraceList` implements `ListSpec` |
| `BuiltListInvariance` | `BuiltIInv` | the invariant of built-in lists, below |
| `BuiltListTyped` | `B!TypeOK` | types; no list counts or stores beyond its array |
| `BuiltListIterates` | `B!LoopsAreComplete` | a loop that nothing disturbed has handed out the list it started with; `addAll` appends exactly that |
| `BuiltListIsSequence` | `B!IsList` | `BuiltinList` implements `ListSpec` |

*Assumptions*: the two `ConstantsOK`: first spaces and bounds on sizes and loops are natural
numbers, `ERROR`, `SELF` and `BLOCK` are not values of the program.

*Argument*: the types are inductive, with the array and its length kept apart (`size` at most the
length); the rest is about loops. A loop is a frame in `loops`, and any request may come between two
of its rounds, also from a loop inside it. So the invariant says of each frame what
it may rely on *unless it has been disturbed*: then its list is still the one it found (`made`), and what it has
handed out (`given`) is the part of that below its index. An `addAll` has
made room for all that its source held, and what stands behind the first size of its
target is what it has appended so far (`Adds`; a list as its own argument is the case in which source and
target are one). A request that changes a list sets the flag of every frame about that list, so only one thing
has to be shown of it: that frames of other lists do not see it. For the refinement, each request's
effect on the array, by index, is compared with the operator of `ListSpec` on the contents:
slots that move by one (`removeAt`, `addAllFirst`) or change sides (`reverse`), and an enlarged array that
agrees with the old one below the size.

### Requests in JavaScript

`ObjectProofs` proves of `JsRequests` for every set of objects, parts, methods and blocks:

| Theorem | Property | In words |
|---|---|---|
| `TypeCorrect` | `TypeOK` | types |
| `SelfIsAsked` | `SelfAndSuper` | methods, constructors and the module find their own part in `superDepth`; self is who was asked; confidential methods are run by self or super only |
| `ReturnsGoHome` | `ReturnGoesHome` | a return ends the method that its block is written in |

*Assumptions*: `ConstantsOK`, and `InheritanceEnds`: an object is older than those
that inherit from it (there is a number `age` that decreases from each part to its super).
The code justifies it: `superobj` is assigned when the inheriting object is made, from one that
has been made. It makes the lookup along `superobj` well founded.

*Argument*: the invariant says that each activation has saved as `orig` the
`superDepth` that is right for the activation below it (`Piled`), and that
`superDepth` is right now unless an exception is unwinding past something other
than a try (`Handling`). What a `try` stands on is code, so that catching an exception restores the depth of
that code. `overrideReceiver` and `onSelf` are set between two steps only while an exception flies
that no method was found for; this is why a method's request finds its own receiver.

### Native objects

`ObjectProofs` proves of `ObjectChain` (instance `O`), for every finite set of addresses, every set of
constructors and methods, every `Parent` and every bound:

| Theorem | Property | In words |
|---|---|---|
| `NativeInvariance` | `ObjectInv` | the invariant of objects, below |
| `NativeTyped` | `O!TypeOK` | every part has the data array of its class; references lead to objects |
| `NativeOuter` | `O!OuterInInitialisers` | initialisers find the object around their own constructor |
| `NativeChainsAreObjects` | `O!IsObject`, `O!BuiltWhole` | `ObjectChain` implements `ObjectSpec`; a constructor that ends leaves every part it should, in order |

*Assumptions*: `O!ConstantsOK`: addresses are finitely many, and neither they nor constructors are `DEFAULT` or `NULL`.

*Argument*, in two parts. *Constructors*: `ChainInv` says what those under way leave each other. An initialiser and the
frames upon it have different objects, a frame that inherits and the one upon it the same
(`Nested`); so `data[0]` of an object belongs to the last frame that initialises it
(`OuterIsOwn`), which has saved in `lower` the outer of the frame beneath. An exception leaves a stack whose last frame
is an initialiser, of an object of its own, whose `data[0]` nobody above has written. An object under construction still has the
data array it was allocated with (`HasOwn`), since `become` is not requested for it and new objects,
and the copies of `clone`, go to addresses that are free. Nothing is assumed of `Parent` but its type: if it went in a circle, a
constructor would go on until the addresses are used up.

*Chains*: `ObjectInv` adds that the data of each part are laid out for its class (`Laid`), and that from every
object a path along `super` leads to an end (`Paths`). `Chain` is a recursive function on objects; that such a function exists is
only known because paths end, and it is proved once that the chain *is* the path
(`ChainOf`), that a path has no object twice, and that two paths from the same object are the same one. Everything else is
about paths: each request exchanges, inserts or appends a piece of one, and the lemmas say which
paths go on as before and which go on along another. `UnderWay` is what an object under construction needs: it shares no
part with what other references see (`Apart`), so that what is appended to it is seen through no
other; its parts so far follow `Parent` (`OwnParts`); and each frame knows where the next
part goes, which is what `LastOf` finds (`FrameOK`). `become` puts sub's part in front of every
place where sup's was, in all chains that lead through it, and leads references to sub to where sup's part has moved;
this is right because sub has no part but its own and nothing inherits from it. The copies that `clone`
makes are at places of their own, and no chain that was there before leads to them.

### Programs that use a library; strings

`LibrariesProofs` states the results of the tables, the lists and objects as properties of `Libraries`,
which are those that the run `libraries` checks, and proves three about strings:

| Theorem | Property | In words |
|---|---|---|
| `TypesHold` | `TypeOK` | types |
| `SearchesReturn` | `SearchesEnd` | the search of the `stringMap` always stops |
| `SizesCount` | `SizeIsExact` | sizes are the numbers of bindings and elements, and `expand` does not nest |
| `AllAreFound` | `Findable` | what a table has is where it is looked for |
| `IteratorsFail` | `FailFast` | iterators of the set and of lists in Grace give nothing after a change |
| `AllIsGiven` | `IteratesAll` | loops of the `stringMap` and iterators of the set give everything once |
| `StringMapIsMap` | `IsMap` | the `stringMap` is a map |
| `DictionaryRepresentation` | `RepresentationOK` | the dictionary's array, count and searches agree, for regular programs |
| `DictionaryIsAMap` | `DictionaryIsMap` | for these it is a map, and its iterators fail fast or are complete |
| `GraceSetIsSet` | `IsSet` | the set is a set |
| `ListLoopsAreComplete` | `LoopsAreComplete` | loops and iterators over lists give everything once, unless disturbed |
| `ListsAreLists` | `IsList` | both kinds of lists are sequences (`reduce` is not modelled) |
| `SelfIsRight` | `SelfAndSuper` | in methods self, super and confidential requests mean what they say |
| `ReturnsAreRight` | `ReturnGoesHomeInJs` | a return in a block ends the method the block is written in |
| `InitialisersSeeTheirOuter` | `OuterInInitialisers` | initialisers find the object around their own constructor |
| `ObjectsAreObjects` | `IsObject` | native objects are what `ObjectSpec` says, and are built whole |
| `RopePartsStay` | `PartsAreLive` | a rope in use is flat before the collector frees any of its parts |
| `StringFieldsAgree` | `FieldsAgree` | size, length, ASCII flag and hash describe the bytes a string turns out to have; flattening recurses at most `MaxDepth` deep |
| `StringsAreStrings` | `IsString` | `Ropes` implements `StringSpec`, for requests that stay within their buffers |

*Assumptions*: `LibrariesAssumption`, which is what the components assume, and
`J!InheritanceEnds` where JavaScript is concerned, and `M!RegularPrograms` where the dictionary is: a program
removes nothing, or its keys start their searches in slots of their own (below). Of strings it assumes that characters are
valid UTF-8 (sources are, and what is modelled cuts strings only between characters), that `NULL` is not a text, and that `hash_init` fits the hash's width.
Neither addresses nor characters need be finitely many.

*Argument*: a behaviour of `Libraries` is one of the component that `kind` names, and never one of another
kind (`MapRuns`, `DictRuns`, `SetRuns`, `BuiltListRuns`, `GraceListRuns`, `ObjectRuns`, `RopeRuns`, `JsRuns`), so that each component's theorem applies to it. The refinements
are stated as the abstract module's initial predicate and steps.

For strings there are two halves. *The objects*: `RopeInv` says that an object that is not flat has two parts that
are not freed and are less deep than it (`Whole`), that the fields of every object that is not freed, not only of those the
program has, describe the text it would give when flattened (`Described`; a rope may be flattened after
its parts were let go), that what the program has is not freed, and that the shared
strings of one byte have the text they are shared for (`Shared`). Depth makes reading a rope well founded: `RopeRecursion`
shows once that a function defined along the parts exists and is unique, and texts, sets of
parts read and heights are three cases of it. `Refilled` is the lemma about every step that
flattens: objects may be flattened with their own text, or freed when nothing that stays and is not
flat needs them, and no text changes. That a collection is of that form is what
the marking of ropes is for: what it reaches, it makes flat. *The bytes*: requests are answered
from bytes, `StringSpec` speaks of characters. Since the first byte of a character is never
a continuation byte and gives its length, a character is not the beginning of another one (`CharsDiffer`,
`CharStarts`); so texts with the same bytes are the same (`EncodeInjective`), a text whose bytes occur in another's occurs there
itself, at the beginning of a character (`HeadTexts`, `WithinTexts`, `TailTexts`), and bytes
compare as the characters where texts first differ do (`CompareTexts`). A string has as many bytes as
characters exactly if all are ASCII (`EncodeLength`), which is what `at` relies on. These facts are
proved by induction over the length, with sets instead of predicates.

### Only model-checked

- `GarbageIsReclaimed` and `CompilationsEnd`: liveness is out of reach of the prover.
- The dictionary in programs that are not regular: there `Findable` and what rests on it are false
  (`dictionary_stale_binding`). That its searches end is not claimed of it (`set_search_loops`
  is the same defect).
- The runs that expect a violation, naturally.

The functions that are defined by recursion over data (the lookup of `JsRequests`, `Chain` of `ObjectChain`) are reasoned about
without induction over an operator: a set of counterexamples has a least element
(`WFMin` of the library).

## Where the code and its documents disagree

- **Return out of a try** (`return_over_try`). `callmethodflags` (4008) copies the
  finished try's own jump buffer into `error_jump` and restores neither
  `error_jump_set` nor `exceptionHandlerDepth`; the saved depth is never used.
  The next exception jumps into a C call that is over. `doc/exceptions` promises
  the next handler or the top.
- **Exception in a case block** (`raise_in_catch`). `tryCatch` applies `finally`
  only after the case block returns. `doc/exceptions`: "The finally block is
  always applied".
- **Return in an inherited method** (`return_from_super`). `genc.grace` (1307) compiles a
  request on super to a direct call of `callmethod4`, past the function that sets
  return points. A block of the inherited method therefore returns through a slot that is
  empty or holds the buffer of a call that is over: undefined behaviour. `tests/known-failing/superBlockReturn.grace`
  expects the statement after the request to run.
- **Second binding** (`dictionary_stale_binding`). `findPositionForAdd` takes a
  vacated slot without looking whether the key is bound further on.
- **Endless search** (`set_search_loops`). Vacated slots never become unused
  again; when none is left, `contains` of an absent element does not return.
  The dictionary's search ends the same way.
- **Unnoticed change** (`set_lazy_addition`). Bulk requests raise `mods` once, then
  consult an argument that may be a view of the collection itself.
- **Cycle that is gone** (`false_cycle`). `addTransitiveImports` (263) trusts the list in
  the `.gct` file of an up-to-date module, which holds what its imports imported *then*; a
  program is refused with "Cyclic import detected: 'm' is imported by 'x', which is
  imported by 'm'" although it is not.

## What is not modelled

`PROJECT.json` lists every component with its status. In the components that
are modelled, these parts are left out:

- heap: statistics, debugging output, `gc_wouldHaveRun` (set, never used by a
  caller), the release functions of classes;
- control stack: tail calls, access checks, a block that outlives its method or
  is made outside every method and then returns, a return in a finally block, tries and
  returns over tries so near the depth limit that their own requests overflow;
- tables: requests that only build new collections out of others (`copy`, `++`,
  `**`, `--`), and `do` of the set and the dictionary;
- lists: `reduce` of the native list, `map`, `filter`, `==` and `sortBy`, lists in JavaScript, sequences, ranges and
  lazy collections;
- strings: `at` out of range and substrings that overflow their buffer, `replace`, quoting; numbers and primitive arrays;
- objects: `unbecome`, `==`, traits, and the flags of methods that closures add.
  `ObjectSpec` holds for `Become` of objects that are complete, the only ones
  `setsuperobj` is requested for;
- module loading: dialects, dynamic modules (`.gso`), modules without source, the
  JavaScript target. Nor is there a property that an importing module is
  checked again when a module it imports has changed: the code does not do that;
- JavaScript: constructors of parts that initialise themselves, checks for
  uninitialised arguments, `onOuter`, the built-in classes.

Components without a module:

- *lexer, parser, identifier resolution, code generation* are functions of their
  input, tested by the compiler compiling itself;
- *browser*: `background.js` answers messages of a page that is not in the repository;
- *bindings, debuggers, mirrors, curl, REPL* are thin and keep hardly any state;
- *gUnit, minitest, dialect checkers* are sequential clients of the collections and
  of try / catch.

`unicodedata.h` is a generated table, 261,105 of about 268,000 lines of
implementation; what the map covers is best compared with the remaining 7,000 lines
of C, and the Grace and JavaScript libraries.

## Plan

Done, in this order: `GraceHeap` and its proofs, `ControlStack`, the hash tables with
`MapSpec` and `SetSpec`, `BuiltinList` and `GraceList` with `ListSpec`, `Ropes` with
`StringSpec`, `ObjectChain` with `ObjectSpec`, `ModuleLoading` with
`ProgramBuild` and its proofs, `JsRequests`; then `ControlStackProofs`,
`MapProofs`, `GraceSetProofs`, `ObjectProofs` and `ListProofs`, joined in `LibrariesProofs`, which also proves what is known
of strings. What remains, most important first:

1. `GcClients`: `GraceHeap` composed with `ControlStack`: `gc_pause` and the shadow
   stack across `longjmp`.
2. Ranges, sequences and lazy views; lists in JavaScript.
3. `Scopes`: declaration, lookup and reuse of scopes in identifier resolution.
4. `Lexer`: modes, interpolation and indentation.
5. `TestRunner`: gUnit and minitest.
