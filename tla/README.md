# A TLA+ verification of sobek

sobek is an ECMAScript engine in Go: a parser, a compiler to bytecode, a virtual
machine, the built-in objects and a bridge to Go values.  Much of it turns data
into data, one input at a time, and is covered by test262.  This project models
what such tests hardly reach: combinations of constructs that no test lists,
operations in the middle of which user code runs, state kept across such a call,
representations that change behind an object's back, goroutines that share
state, and interrupts that may arrive at any instruction.

## Inventory

| Component | State | Operations | What is hard |
|---|---|---|---|
| ordered map (`map.go`) | hash buckets, doubly-linked list of entries, iterators' cursors | set, getOrInsert, get, has, remove, clear, newIter, next, copyTo | entries vanish under an iterator's cursor; colliding keys; -0 |
| promises (`builtin_promise.go`) | state, result, two lists of reactions, handled; alreadyResolved per pair of functions | resolve, reject, then, await, reaction jobs, thenable jobs, combinators | re-entrancy from a `then` getter, a thenable or a handler; the rejection tracker |
| job queue (`runtime.go`: leave, leaveAbrupt, RunProgram, runWrapped) | jobQueue, the batch of each leave() on the Go stack | enqueue, drain, drop after an interrupt | nested drains; interrupts |
| exceptions (`vm.go`, `func.go`) | tryStack, iterStack, callStack, refStack, pc | try, leaveTry, enterFinally, leaveFinally, throw, handleThrow, restoreStacks, vm.try, runTry, __call | user code run while unwinding; Go panics and JavaScript exceptions on one stack; slices that move |
| VM run loop (`vm.go`) | pc, interrupted | run, Interrupt, ClearInterrupt | the flag is set by another goroutine |
| profiler (`profiler.go`, `vm.runWithProfiler`) | enabled, list of trackers, buffer, running; req, finished and frames per tracker | StartProfile, StopProfile, registerVm, the sampling and cleanup goroutines | five kinds of goroutines; lock-free handshake over req |
| generators, async functions (`func.go`) | a saved part of the VM's stacks | next, throw, return, await | the saved part is cut off and pushed again elsewhere; finally blocks on return() |
| module records (`modules*.go`) | status, dfs indices, pending dependencies, cycle roots, capabilities | Link, Evaluate, top-level await, dynamic import | cycles, failures half-way, completions in any order |
| parser, lexer (`parser/`) | current token and its flags, scopes, errors | one function per production, mark and restore | text parsed twice; one flag for line breaks; literals that turn out to be patterns |
| compiler (`compiler*.go`) | code, blocks, scopes | an emit method per kind of node and use of it | jumps patched later; what a jump out of nested blocks has to pop; completion values; folded and dead code |
| VM instructions (`vm.go`) | value, reference, iterator and try stacks, stashes | one exec per instruction | pushes and pops that must match on every path, thrown ones too |
| arrays (`array*.go`) | slice with spare capacity or sorted items, length, two counters | own-property operations, the methods with fast and generic paths | representation switches; counters that license the fast paths |
| typed arrays, buffers (`typedarrays.go`, `builtin_typedarrays.go`) | bytes, views with offset and length | constructors, methods, DataView accessors, detach | buffers detached in a callback; overlapping copies; bounds |
| objects (`object.go`) | values, names, how many names are in order | get, set, define, delete, keys, for-in | names shared with iterators and copied on write; lazy ordering |
| proxies (`proxy.go`) | target, handler | the internal methods with their checks | checks that read a target which changes meanwhile |
| wrapped Go values (`object_go*.go`, `object_dynamic.go`) | the Go value | as objects | defined by Go's reflection |
| strings, regular expressions, numbers, dates, JSON | none beyond their values | conversions | numeric and text edge cases |

How they interact.  The host calls RunProgram or a Callable.  The parser makes
a tree of the text, the compiler code of the tree, and the run loop of the VM
executes it; an instruction may call Go code of a built-in,
which may call JavaScript again in a run loop of its own (`__call`), so the Go
stack and the VM's stacks grow in step.  Exceptions travel over both: inside one
run loop by handleThrow, between Go levels by panics.  When the outermost call
ends, `leave()` runs the promise jobs; when it was interrupted, `leaveAbrupt()`
drops them.  The profiler's goroutines look at each running VM through its
tracker.

What makes each correct:

- ordered map: iteration in insertion order that neither skips nor repeats
  whatever is added or removed meanwhile; unique keys; lookup finds what is in.
- promises: decided once, reactions run once, jobs all run before control goes
  back to the host, the trackers see what they are documented to see.
- exceptions: control goes to the innermost handler, the stacks are cut back to
  what that handler's code expects, iterators are closed, finally blocks run
  once and pass their exception on; interrupts stop the script.
- profiler: one sampling goroutine, no torn frames, samples in the right
  profile, goroutines that end.
- parser: the tree is the one the grammar gives, however the text is laid out,
  and a text without one is rejected.
- compiler and VM: a program does what the language prescribes, in that order,
  and leaves the stacks as they were, however it ends.
- arrays, objects: nobody can tell in which representation they are stored.
- typed arrays: memory is touched only while the buffer holds it and inside the
  view, and copies read what was there before.
- proxies: what a client has been told stays true.
- modules: each body runs once, after what it requires; the promise settles.

The list of hazards with their lines is in `PROJECT.json`.

## Modules

### MapData, OrderedMap, OrderedMapProofs

`MapData` is the abstract specification: the list of records that the language
definition calls [[MapData]], in which a deleted record keeps its place.  An
iterator is an index into it.

`OrderedMap` is `map.go`.  An entry is its allocation number and 0 the nil
pointer; `key`, `val`, `iterPrev`, `iterNext` are the fields of `mapEntry`, and
the hNext chain of a bucket is a sequence.  A removed entry keeps its pointers
and has the key NoKey, as in the code.  Hash is any function of the keys, so
that collisions are covered.  `set`, `getOrInsert`, `get`, `remove` and `clear`
are one action each; `next()` is `nextBegin`, one `nextTrackBack` for each turn
of its loop, and `nextAdvance`, so that the loop's termination is a property.
Nothing else happens while it loops (`Quiet`): Go code is not interrupted.
`clear` states the outcome of the loop over the list, whose entries are those
with a key by ListInOrder.  `has` is `get` without its value, and `copyTo` is a
sequence of `set` on another map.

`ret` is what the last operation returned, so that the refinement
`ImplementsMapData` is about results as well as state.

### PromiseJobs, PromiseJobsProofs

Promises, their resolving functions, reactions, the job queue and the entries
into the runtime.  `frames` is what is running: entries (`program`, `call`), the
drain loop of `leave()` with the rest of its batch, and callbacks (`handler`,
`getter`, `thenCall`).  While a frame runs JavaScript any promise operation may
happen: `newPromise`, `callResolve`, `callReject`, `then`, `await`.

Values are `Primitive`, `AnObject` (an object whose `then` is a getter or a
method of the script's) and promises.  A resolve function called with an object
pushes a `getter` frame, so that everything that user code can do there
interleaves with the rest of resolve.  Go handlers do one thing, call into the
runtime again: that is the only way they differ from JavaScript
ones here.  The promise that Promise.prototype.then makes for a thenable job
cannot be reached by anybody and is not made.

`unhandled` is what a host that follows the rejection tracker has noted;
`ran` and `resumed` are the reactions whose job ran and for which Resumed was
called.

`abort` assumes that an InterruptedError unwinds the VM's stacks as it should;
one case where it does not is under Divergences.

### TryStack, TryStackProofs

The VM's stacks and the code that runs on them.  `ctl` is the nest of regions
that control is in (see the module's header): it stands for pc and for the Go
stack, and is what the stacks ought to agree with.  `tryStack` holds the frames
with catchPos and finallyPos ("armed", "off", or "marker" for tryPanicMarker),
the region they belong to, finallyRet, exception and the lengths that
handleThrow restores.  `cap` is the capacity of the slice: `pushTryFrame` marks
every handleThrow in progress as `stale` when append moves it.

`handleThrow` is split where user code runs: up to restoreStacks, then
`CloseIterator` and the return() methods, then `catches`, `entersFinally` or
`reachesGo`.  An exception is a number; 0 is an uncatchable one, and
`deferred` says that handleThrow was called by a deferred function after a Go
panic, which decides where a panic out of it goes.  break, continue and return
(`Exit`) are the compiled exit code: the regions between are left one by one by
`leaveTry` and `enumPopClose`, as emitBlockExitCode emits them.

sp, stash, privEnv and refStack are restored from the same frame in the same
statement as iterStack and callStack and are not kept apart.

`CallContexts` differs from the code in one place, which shows in no property:
while handleThrow unwinds to the marker of a `__call` from a Go function, it has
already given vm.prg back as nil (vm.go:884-888), so that a return() called there
pushes one context (func.go:430-437), and two in the model.  Either number is
pushed and popped by the same call.

### Profiler, ProfilerProofs

The five parties of the profiler, with one action for each access to shared
state: req is loaded and stored in different steps, and so are finished, the
list and the frames.  `p.mu` is held over several steps only by the sampling
goroutine, so it is locked exactly while that goroutine scans (`Unlocked`).
Nested run loops of one VM share its tracker and are one here.  StartProfile and
StopProfile are called by one goroutine: they store `globalProfiler.w` without a
lock, so concurrent calls are outside what the package offers.

### ModuleEval, ModuleEvalProofs

Evaluation of linked modules (`modules.go`).  The variables are the maps of
`evaluationState` and `r.modules`; a module record and its instance are one, and
0 is the nil instance.  The recursion of innerModuleEvaluation is the stack `go`:
`Evaluate` and `RequireNew` enter a module, `Require` is what happens after the
call for a requested module returned, `ExecuteAsync` and `Execute` end an
activation, and an exception in `Execute` ends the walk.  A body with top-level
await settles whenever no walk and no job runs (`BodyEnds`, `BodyThrows`); what
follows is one job: `gatherParent` and `gatherReturns` are
gatherAvailableAncestors, `ExecAsync` and `Exec` the loop over execList.
Rejection is one step, as it calls no user code: the set of modules that
asyncModuleExecutionRejected reaches.

Three behaviours of the code differ from the language definition and limit what
the properties say.  (1) The dfsAncestorIndex that modules.go:259 lowers is that
of the required module, so that every member of a cycle is its own root; hence
DependenciesFirst is about the modules that a module requires directly: one that
requires a member of a cycle does not wait for the other members.  (2) A failed
module is in r.modules and counts as evaluated afterwards; hence "or failed in an
earlier evaluation".  (3) asyncEvaluation of a module that was rejected or run
from execList stays set, and an evaluation that meets it later waits for ever;
hence the premise of EvaluateSettles and the `Evaluations = 1` of PendingExact.
The repository's test262 skip list (tc39_test.go:160-161) has two tests of
top-level await on module graphs.

### Bytecode, ExprCode, StmtCode, Evaluation

`Bytecode` is the machine: one operator per instruction (`exec` of vm.go), a
state with pc, the value stack, references, iterators, handlers and scopes.  What
a script can observe is a sequence of events: reads and writes of variables and
properties, calls, operators on operands that are not constants, steps of
iterators.  An event may throw, and yields a value of which nothing is known
until an instruction tests it; `kinds` records what the tests found.  So the run
of a program branches exactly where its code does.

`ExprCode` is compiler_expr.go: nodes with a type t, a variant x and parts k, and
for each the code of its uses (emitGetter, emitSetter, emitRef, emitUnary,
emitDelete, patterns, calls, constant folding).  `StmtCode` is compiler_stmt.go:
the compiler is a record of the code so far and the enclosing blocks, and exits
(`emitBlockExitCode`) and completion values (`scanStatements`) work on it as in
the code.

`Evaluation` is the reference: the language's own evaluation of the node, which
reads the run's trace and says whether each event is the next one prescribed and
how the program must end.  `Evaluates` compares at the end of each run;
`StacksRestored` says that every stack is back at its height.

### Lexer, Patterns, Parser, Grammar, Parsing

The source is a sequence of lexemes, each with what is in front of it: nothing,
a line break, or a comment with one.  The parser is a record (see `Lexer`) of the
position, the token, the two semicolon flags, the scopes and whether there is an
error; a parse function takes it and returns it with a node.  `mark` and
`restore` are copies of the fields that the code copies.  `Parser` has one
operator per parse function, `Patterns` the reinterpretAs functions.

`Grammar` is the reference: `Text` writes a tree, with parentheses exactly where
precedence needs them and "EOS" where a statement must be ended; `Legal` says
which trees are programs.  `Parsing` picks a tree and a layout (semicolons or
line breaks, a line break or comment in any one gap) and parses it: `Parses`,
`Rejects` and `LineBreakEnds` compare tree and result.

### ArraySteps, AbstractArray, ArrayStore, ArrayStoreProofs

`ArraySteps` writes the methods of Array.prototype, as the generic path of
builtin_array.go does, as lists of accesses; whoever performs them says what an
access does.  `AbstractArray` performs them on what the language has: elements
with attributes and a length.  `ArrayStore` performs them on the slice or the
items, with the fast paths where the code takes them, the counters objCount and
propValueCount, the spare capacity, and `expand` and `_setLengthInt` switching
representations.  `ImplementsArray` is the refinement, results and exceptions
included; `ShortcutsSound` says that the counters license only what is true.
sort.Stable, which is Go's library, is stable insertion (`InOrder`).
`CallsAssumption` says what arguments calls have: indices that are numbers from 0
on, ends to count from that are any, values.
Methods with callbacks take a step per element, so that the callback's calls
interleave (`walk`).

### TypedArrays, TypedArrayProofs

`block[b]` is the memory that buffer b holds, 0 when it is detached.  A method is
a sequence of instructions as its code has them: checks, scripts (conversion of an
argument, a callback, a species constructor) and touches of bytes.  At each
script the program may detach buffers.  `AccessesInBounds` says that every touch
is inside its view (`InView`) and that the buffer still holds the memory
(`InReach`);
`Delivers`, that copies between views that overlap, of different element sizes
too, deliver the elements that were there.  `PutUnmoved` is set() with an index to
which the offset of the view is not added, as in T.from and T.of;
`checkTypedArrayMixBigInt` is the reading of two constructors' names, which may
call a getter or throw.  `Given` says what views and calls there
are: MCTypedArrays checks it of those of the run, and the proofs start from it.

### Properties, AbstractObjects, PropertyTable, ObjectProofs

`Properties` has properties, descriptors and the validation of a definition.
`AbstractObjects` is the language's: names in creation order, indices first, and
for-in as it is defined.  `PropertyTable` is baseObject: values, the slice of names with
its array and spare capacity, lastSortedPropLen and idxPropCount, the marker that
makes the next change copy the array, and the iterators that share it.  An
assignment looks up the prototypes by number only where Object.set with another
receiver begins (`idx` of a Climb): setForeignIdx sorts the names and skips
objects without an index, and at the first that has one it goes on by name.
`ImplementsObjects` is the refinement, `TableConsistent` the invariant behind it.
Calls that the code makes on prototypes, one inside the other, are folds here: a
walk goes up as long as nobody has handled the call (`climbed`, `enumerateNext`),
and its result is handed to the caller that waits (`settled`).  A for-in step includes the first enumNext, as no user code runs before it.

### Proxy, ObjectProofs

`base` is the object at the end, `op` the operation in progress with what its
checks have read, `facts` what the client has been told and may rely on for ever.
Between any two reads the program may change base, as the target may itself be a
proxy; `NeverContradicted` says that no answer contradicts a fact.

A property that a trap reports is an object, which the code reads for the checks
and, unless it is a plain value, once more for the answer (proxy.go:588-592);
`Returned` is what the second reading may give and `toValueProp` what is made of
it.  The constant AnyResult says what a trap may return.  If it is TRUE, the second
reading is any of Shapes, an accessor may have neither getter nor setter, and data
no value.  Then a client can be told what no check has seen, and NeverContradicted
fails, as it does in the code (see Divergences).  The run and the theorems have it
FALSE: then the objects are `Candid`, read as the same twice, an accessor with a
function, data with a value.

### MC modules

Each `MC` module gives the constants that a cfg cannot: a hash function, sets of
handlers, graphs, programs, calls.  `MCObjects` joins PropertyTable and Proxy, as
two systems that never act in the same behaviour: each starts from its own
initial states and the other's variables stay put.

## Runs

| Run | Result | Shows |
|---|---|---|
| ordered_map | pass | list, buckets and cursors stay consistent; every operation is one of MapData; next() returns |
| promise_jobs | pass | promises decided once, reactions run once, tracker exact, no job left behind, RunProgram's drain never nested, settled for good; every job runs, every call returns |
| try_stack | pass | the stacks agree with the code; handlers, pending exceptions, iterators |
| try_interrupt | pass | an interrupted call of RunProgram returns |
| try_grow | violation | a finally block's exception is lost when tryStack moves during handleThrow (vm.go:876) |
| profiler | pass | one sampling goroutine, no torn frames, samples in their own profile; after a stop the goroutines end and StopProfile returns |
| module_eval | pass | bodies run once and after what they require; pending counts are exact; promises of Evaluate settle |
| compiler | pass | each program performs the events the language prescribes, whatever throws and however tests go, and leaves the stacks as they were |
| parser | pass | each tree is found again in every layout, illegal ones are rejected, line breaks end statements where they should |
| arrays | pass | the two representations and the fast paths implement the abstract array |
| typed_arrays | pass | methods touch only elements of their views, while the buffer holds them, and copies deliver |
| objects | pass | property tables with shared names implement the language's objects and for-in; no proxy contradicts itself |

Bounds, and why they are enough:

- ordered_map: four entries, +0, -0 and two more keys of which some collide, two
  iterators.  Three entries are the least with a first, middle and last one; the
  fourth is added after removals and clear, with cursors on removed entries.
  The theorems remove all bounds.
- promise_jobs: three promises, one `then` or `await`, one thenable job, one
  interrupt, frames four deep: an entry, its drain, a handler, and the getter or
  the nested entry in it.
- try_stack: regions five deep apart from those of closing iterators, which
  nest further: two statements and two loops in a function, or a statement in a
  return() in an unwinding out of a loop and a statement.  One exception is
  enough: the properties follow where it is, and a statement holds at most one.
  InitCap is 16: the frames never outgrow the array, so that these properties
  are about everything but its moving, which try_grow is about.
- try_interrupt: one interrupt at any moment, regions four deep.
- profiler: two VMs, three trackers (one VM registers twice), two sessions.
- module_eval: all 125 graphs of three modules without repeated or self-requests
  (chains, forks, joins, cycles with and without a tail), each with all eight
  choices of the modules with top-level await; every module may be evaluated, and
  two bodies may throw.

- compiler: some 17,000 programs.  Every construct is a part of every other one,
  in each position that the compiler treats apart; statements nest two deep inside
  a loop with jumps out of it.  What the compiler emits for a part depends on its
  kind and on the blocks around it, and two levels inside a loop give every pair.
  A run is followed for ten events (MaxEvents): two constructs without a loop end
  before, and a loop gets its second turn.
- parser: some 100,000 texts: every construct in every position of another, with
  and without semicolons, and a line break or comment in each gap in turn.
- arrays: three calls on arrays of at most five elements; the thresholds of the
  representations (SparseFrom and the others; 4096, 10 and so on in the code) are
  shrunk so that three calls switch there and back.  Callbacks of the walks call
  further methods.
- typed_arrays: buffers of eight bytes, elements of one, two and four bytes, so
  that all overlaps of views of different sizes occur; species constructors that
  return an array of their own, one over the same buffer, or one too short; one
  call and one more on what it made.  Everything is FALSE: copyWithin, T.from and
  T.of are not called where they leave their view, and no script detaches a buffer
  between a check and a use that the code does not look at again (Divergences).
- objects: four calls on three objects of a chain, two loops at once; three names
  are the least with a removal in the middle.
- proxies: two operations, of which the second may contradict the first, and two
  changes of the target in between or during them; candid results only (AnyResult).

### Fairness

- OrderedMap: next() goes on once it is called.
- PromiseJobs: what the runtime does by itself (draining, ending callbacks,
  unwinding) goes on.  A callback ends because it is assumed to: a script that
  loops for ever is the subject of Interrupt, and a Go handler that calls the
  runtime again and again ends at last (strong fairness of handlerEnds).  Starting new operations is not
  fair, and the bounds on them are what makes drains finite.
- TryStack: the VM's goroutine keeps running and Go functions return.  Nothing
  is assumed of which step a script takes, so that InterruptStops holds for
  scripts that try to go on.
- Profiler: goroutines run; a VM that is traced executes instructions; a waiter
  for p.mu gets it, as sync.Mutex is starvation-free and the sampling goroutine
  unlocks it after each scan (strong fairness of StopStep).

- ModuleEval: a walk and a job go on, and what a body awaits comes about, so that
  a running body settles, one way or the other.

Deadlock is checked in every run of a system that goes on for ever.  module_eval,
parser, arrays and objects end: every module is evaluated, the text is parsed, or
the bounded number of calls is used up.  The machine of the compiler run may
stop where its program has ended or where the run is not followed further; to be
stuck anywhere else is a deadlock.

## Proofs

All are for every value of the constants that meets the named assumptions; TLC
evaluates these in the runs.  Each proof is by an inductive invariant, which is
made of the invariants that the runs check and, where that is not enough, of
parts that the proof module states.

### OrderedMapProofs

For any keys and values, any hash function, any number of entries and iterators:

- `Inductive`: Spec => []IndInv.  IndInv is TypeOK, ListInOrder,
  BackPointersSkipNothing, ScanSkipsNothing, ChainsComplete, KeysUnique and
  FreshIsBlank (entries not allocated yet are blank).  None of them is inductive
  alone.  The core is BackPointersSkipNothing: between an entry, removed or not,
  and its iterPrev no entry has a key.  Removing e keeps it, because the entry
  after e takes over e's iterPrev and removed entries point at e or below; a new
  entry keeps it, because it has the largest number and points at the last entry
  with a key, which ListInOrder gives.  With it, tracking back from a removed
  cursor passes no live entry (ScanSkipsNothing).
- `Safety`: its parts, by name.
- `SizeAlwaysLive`: size is the number of entries with a key, counted step by step.
- `Refinement`: Spec => ImplementsMapData.  The list of all entries ever made, in
  order of allocation, is the abstract list, a cursor is its index;
  nextTrackBack is a stutter, and nextAdvance takes the first record ahead by
  ListInOrder and ScanSkipsNothing.

The assumptions are `OrderedMapAssumption`: +0 is a key other than -0, nil is
not a key, Hash is a function from keys to buckets.

### PromiseJobsProofs

For any numbers of promises, thenables, reactions, frames and interrupts:
`ConsistentAlways`, `ReactionsRunOnce`, `TrackerAlwaysAgrees`,
`NoJobEverLeftBehind`, `ProgramsDrainAlone`, and the action property
`SettledStays` (no step changes a settled promise).  The invariants of the run
are inductive together.  An action moves frames, and then settles a promise,
registers a reaction or enqueues a job, so the parts are stated for the frames in
between, and each of these changes has lemmas of its own.  ReactionsApart (an id
is registered with one promise, or waits in one job) carries ReactionRunsOnce,
FramesOK (the frames begin with an entry, and leave() runs on behalf of one)
carries NoJobLeftBehind.  OneDecider says that nobody decides a promise twice; that
a pending promise has somebody left to decide it is claimed before the first
interrupt only, since aborted drains drop jobs.

### ProfilerProofs

For any finite set of VMs and any number of trackers and sessions:
`ConsistentAlways`, `FramesNeverTorn`, `SamplesStayInProfile`, under every
interleaving of single accesses to shared state.  The three together are
inductive.  The handshake is the argument: a VM in `sampling` has req at DoSample
or Stop, whoever adds a sample has loaded SampleReady, and a tracker belongs to one
VM until it is finished (SampleHandedOver, TrackersApart); so the VM that writes
the frames and the goroutine that reads them never hold the same tracker.  The
trackers in the list are all of the session whose buffer is set.

### ModuleEvalProofs

For every graph of any size, cyclic or not, every choice of modules with top-level
await, any number of evaluations and of bodies that throw:

- `ConsistentAlways`, `BodiesRunOnce`, `FulfilledModulesAreDone`.  The part to
  find was the counting in JobsOK: pendingAsyncDependancies of a module covers the
  entries of asyncParentModules that it is still to hear of, at every point of a
  walk or a job, and one that begins or is in execList has none left.  So
  gatherAvailableAncestors meets an entry only while the count is above zero
  (the decrement at modules.go:372 never wraps), and a module comes into execList
  once, before its body began.
- `DependenciesAlwaysFirst`: Spec => []DependenciesFirst.  OrderInv adds to the
  above: the stack is exactly the walk, which goes along requests (WalkExact), so
  that a module still evaluating when it is required reaches the one that
  requires it; any other that was required is done, has failed, or has the
  requiring module among its asyncParents (RequestsOK); and one that is told of
  another became asynchronous after it (EntriesOrdered).  When a body begins, its
  module has heard of all its entries.  It has heard of one although the body is
  not done only if that module is in the same execList, without await, and then
  the order of execList puts it first.
- `RootsAreOwn`: dfsAncestorIndex is never lowered and each module that a walk
  completes is its own cycleRoot, for every graph: what modules.go:259 amounts to.
- `PendingAlwaysExact`: Spec => []PendingExact, the other half of the counting.
  CountInv says what a count counts, Owed: the entries of a module that a settled
  body has yet to tell it of, with those that nobody ever will, because the module
  that owns them failed before its body settled.  The count is never below that,
  and equal to it while the host has evaluated one module only.  That needs three
  more facts: nobody waits for a module before the walk has completed it
  (Parentless), a first walk meets neither an error nor a body that has settled
  (FirstWalk), so that every increment goes with an entry, and an error has
  reached everybody who waits (ErrorsSpread), so that what is lost is owed to
  failed modules alone.  Two evaluations break the last two, which is difference
  (3) above.

### ObjectProofs

For any objects, tables and calls in any order, loops in progress included,
`AlwaysTableConsistent`: the names of an object are those of its values, each
once, and the first of them are sorted and counted.  It starts from
`PropertyTableAssumption` and `CallsAssumption` (the objects are numbered, calls
are about objects, names and loops that exist).  Alone, TableConsistent is not
inductive: a change of one object's names in place could be seen by another
object, or could undo the mark that makes somebody copy.  The invariant Good
adds Memory: every slice lies in its array, an array of names belongs to one
object, an array that a loop reads too is marked, and no two loops read the same.
The lemmas follow the operations from below: what `useArray`, `copyNames`, `append`
and `overwrite` do to an array nobody else has or that was copied (Only: the other
objects keep their names), then that sorting one more name keeps what is sorted
(Ordered), then _put and _delete, then the calls.  A walk up the prototypes, a
visit of all names and the creation of the tables are folds, each of which keeps
Good at every step.  While a loop is restarted its own slice may be stale, so that
Memory is stated without one iterator; enumerate makes it true of that one again.

For any names, property shapes, descriptors, prototypes and objects at the end of
the chain: `FactsAlwaysHold` (what clients may rely on is true of that object)
and `NeverContradictedAlways`, whatever the traps answer and the program changes
between two reads of a check.  `ProxyAssumption` says that the inputs are
properties, descriptors and objects as the engine makes them (a data property has
no getter).  Both theorems assume ~AnyResult, that the objects traps return are
candid; the lemma `ResultsAre` is where that is used: what is told is then what was
checked.
The argument: objects change only in the ways that Evolves allows, Evolves keeps
Holds, and what a check has read (Reported, KeysRead) is still true of the facts
when it is done, since facts that arose meanwhile were true of the object too.

### TryStackProofs

For any exceptions, any depth of the nest and any number of iterators that
return() methods open in turn:

- `StacksAlwaysMatch`: without interrupts, TypeOK and StacksMatchCode: all three
  stacks, tryStack, iterStack and callStack, are those of the code that runs, and
  callStack is never popped when empty.
- `AlwaysConsistent`: Consistent, which adds HandlersMatchBlock and PendingKept,
  without interrupts and while NoneStale, that is, while no handleThrow in
  progress points into an array that vm.tryStack has left.
- `UnwindingAlwaysCloses`: without interrupts, UnwindingClosesAll.
- `FramesAlwaysKept`: these two by themselves.
- `NoHandlerEverSkipped`: NoHandlerSkipped, under the same two conditions.

Both conditions are the code's.  The run try_grow shows what happens without
NoneStale: handleThrow writes the exception where nobody looks for it, and
PendingKept fails.  And with an interrupt the frames need not be those of the
nest (vm.go:890, under Divergences): popTryFrame pops whichever is last.

The invariant, `Sound(w, c, ts, m)`, is about a nest of regions, a stack of frames
and a number of items, which may be those in the middle of a step: handleThrow
is called on what is left once a finally block, a loop or a Go level has been
popped.  It has three parts.  Nest: what may be under what; an unwind region is
directly over the region that handles its exception, and restoreStacks calls only
return().  Matched: the n-th frame is that of the n-th region that has one, and
with w, which stands for NoneStale, has its handlers and its exception.  Counted:
the items that a frame remembers beyond those of the loops around its region
never decrease up the nest, and change only where restoreStacks calls, so that a
truncation to iterLen removes exactly what was pushed above.  There are lemmas
for a push, a pop and a cut of the nest, for a change of the region at the top,
and for handleThrow (`Throws`), out of which every action is put together.
ItemsMatchCode, which counts from the innermost call of restoreStacks, follows at
the end (`ItemsIs`).

callStack is a sum over the nest, which CallsUpTo defines by a recursive function.
`CallsUpToIs` replaces it by two cardinalities (`Calls`), from the least index at
which the two would differ.  The invariant that goes with Sound (`Called`) is that
callStack holds the contexts of the regions there are, and that each frame
remembers as many as there were when it was pushed; so handleThrow cuts callStack
back to those of the region that it continues.

### ArrayStoreProofs

- `ShortcutsAlwaysSound`: ~Everything implies Spec => []ShortcutsSound, for arrays
  of any length, any literals and calls, any thresholds of the representations,
  any number of calls: propValueCount is not below the number of elements with
  attributes, the spare capacity of the slice is nil, and no element is at or
  above length.

The assumptions are `ArrayStoreAssumption` and `CallsAssumption`.  ~Everything
leaves out the calls that Diverges lists, and the proof shows which of them
matter here: defineProperty where the representation changes, which does not
count the property, and unshift and splice of an array whose length cannot be
written, which move elements before they find that out.

The invariant is that the array is in SoundArrays (records of the right types
with the three properties, whose slice is within its memory and whose items are
finitely many, without which counting them would say nothing) and that a walk
is at an index (WalkOK).  There is a lemma for each access, in either
representation and across `expand` and `_setLengthInt`, which switch it; one for
each fast path; one for each way to make an array.  A method on the generic path
is a list of accesses applied by FoldLeft, which the library defines by a
recursive function on the subsets of the indices.  `FoldExists` shows that there
is such a function, and `FoldStays` and `FoldFamily` that it stays where each
access stays, from the least prefix that would be an exception; `PerformStays`
puts them together.

### TypedArrayProofs

- `AlwaysInBounds`: Given and ~Everything imply Spec => []AccessesInBounds, for
  buffers, views and sources of any length and type, any arguments, any arrays
  that the program's constructors return (to T.of, and to T.from unless it maps an
  iterable, only ones without an offset), and scripts that detach any buffer they
  can reach, at any conversion or callback.

`Given` asks what the constructors ensure (views 1 and 2 lie within their buffers,
numbers of elements and results of toIndex are not negative) and what Starts leaves
out (the methods of buffers are called on the whole buffer).  ~Everything
leaves out three things the code does, all under Divergences: memory used after a
conversion or a getter that detaches the buffer (`ScriptSparing`), copyWithin
beyond its view, and T.from and T.of before it (`Diverges`).

A method is a sequence of instructions with jumps, so the proof is about such
programs.  `Safe(e, X, P, Y)`: there are labels, a set of situations (which
buffers are attached, what view[3] is) for each instruction of P, from X at the
first to Y at the end, such that an instruction does no harm in its situations and
leads into those of the next.  Programs are put together by Join (one after the
other), Branch (isValidIntegerIndex and what it guards) and Loop (a body for each
index, of any number); sort, whose comparisons may leave the middle of the inner
loop, is labelled by hand (Inserts).  Every method has a lemma, some share one;
`AnyMethod` and `FirstMethod` collect them.  The invariant, Harmless, is that what
is left of the program is Safe from the situation at hand, and that buffers that
are attached have the length their views were made for.  The situations say why
the code is right: a check adds a buffer to what is known, a script takes away
every buffer that it can reach, and each access needs that of its view.

### Only model-checked

- All liveness properties, and the refinements other than OrderedMap's
  (ImplementsArray, ImplementsObjects).
- TryStack: what holds once a script is interrupted (run try_interrupt).
- What the methods of arrays compute.  That a fold stays in a set is proved as
  above, by a least counterexample for that set; what it amounts to in the end, as
  for the order of sort or the result of splice, would be an induction for each
  method, and the theorems of induction that take an operator cannot be used.
- Delivers: which elements the methods of typed arrays leave, for the same reason.
- Compiler and parser: built of recursive operators, which the prover cannot
  expand; their results are for the programs and texts of the runs.

## Divergences

Where the code does something else than its comments or the language say, the
models follow the code.  Where a property would fail for such a reason, the
inputs are left out of the runs (`Diverges`, `TurnsBadly`, `ScriptSparing`, the
programs of the MC modules), so that the properties are about everything else.
One is shown by a run of its own, try_grow.  The others that were met:

Promises, try stack, profiler:

- func.go:43-44 says that the Resumed and Exited calls of AsyncContextTracker are
  never nested.  A Go handler that calls a Callable while leave() drains starts a
  nested drain (runtime.go:2627), Resumed inside Resumed.
- func.go:42-43 says that each Grab is followed by one Resumed and Exited; a
  reaction without handler is grabbed for and never resumed
  (builtin_promise.go:204).
- An interrupt that hits a return() called by handleThrow in a deferred function
  leaves contexts on callStack, and RunProgram returns without leaveAbrupt
  (vm.go:890; runtime.go:1589 and 3101 say otherwise).
- The profiler's cleanup goroutine can end before a VM stores profReqSampleReady
  over profReqStop (profiler.go:285-289), which then traces until its run ends.

Compiler and VM:

- A parameter with a default that an earlier initialiser refers to:
  `function f(a = () => b, b = 2) { return b } f(1, 5)` throws a ReferenceError
  (compiler_expr.go:1455-1474, vm.go:3994-4035 and 4587-4596).
- enterDummyMode copies the innermost block only (compiler.go:1622-1640): a break
  in code that never runs, inside a scope, makes leaveBlock overwrite an unrelated
  instruction.
- `f?.(...args)` with a nullish f jumps past endVariadic: its marker stays on the
  stack.  `(a?.b)()` with a nullish a.
- `delete new F()` is compiled as a call; `delete` of other non-references does
  not evaluate its operand; `delete super[f()]` throws before it.
- `try {return 1} finally {L: try {return 2} finally {break L}}` returns 2.
- The object of a member target of a pattern is converted before the value is
  read; `super[k]()` loads super before the key; `-x` converts an object twice
  (vm.go:1708-1728); `x++` as a statement on an object that converts to a BigInt
  throws.
- Completion values: `L: while (1) {5; {break L;} 6}` gives undefined; a finally
  whose nested try breaks keeps the value of the try body.
- A computed key of a literal is intercepted by an inherited setter (vm.go:2072);
  defineSetter ignores enumerable (vm.go:2637-2655); an assignment to the name of
  a sloppy function expression emits nothing (compiler.go:199-206).

Parser:

- A line break after a keyword used as a name is lost (lexer.go:277-297), a
  comment with one after async is none (lexer.go:602-625), and one before `;`
  leaves an empty statement behind (parser.go:274-283), so that
  `if (a) throw b\n; else c` is rejected.
- Rejected though legal: `([a = 1] = [], b) => a`,
  `function f(a = async () => await 1) {}`, `[...a /* , */] = z`,
  `new (import(x))`, `for (let async of x)`.
- Accepted though illegal: await as a name in functions of a module; yield or
  await in the parameters of arrow functions that were a sequence; yield in the
  body of an arrow function of a generator; `let [a.b] = x`, `({...a,} = b)`,
  `({...f()} = x)`, `[({a})] = x`, `[(a = 1)] = x`, `((a)) => 1`,
  `((a), b) => 1`, `(a) && b ?? c`, `new a?.b()`, `await a ** b`,
  `#constructor() {}`, a lone `#p`, `({a = 1})`; return in a static block;
  functions as bodies of loops; continue to a label that is no loop's; a field
  `a = 1, b`; any token as a specifier of import or export;
  `import a from 's'` without a semicolon.
- `export async` without `function` is accepted as a declaration with a nil
  Function, whatever follows being the next statement: `export async a => b`
  (statement.go:1154-1162 and 239-246); modules_sourcetext.go:287-288
  dereferences it.  A line break after `export async` thus matters where a
  semicolon does not, and such texts are in no layout of the run.
- The parser takes `super` anywhere; where it may stand is the compiler's rule, so
  that Grammar says only that it is followed by a property or a call.
- `import async from 's'` gives a nil clause, `#get` and a line break are taken for
  a getter, and for-await at the top level does not set hasTLA while
  `async () => await x` there does (expression.go:963-973).

Arrays:

- defineProperty that makes expand switch the representation does not count the
  property: `length = 0` later removes an element that is not configurable.
- objCount is not decremented by `_setLengthInt`, pop and shift on their fast
  paths, is incremented by a redefinition, and counts holes after map and
  setArrayValues: a slice with a hole can be taken for a full one.
- checkStdArrayObj ignores extensible and the writability of length.
- Methods read the length or take the slice before they convert their arguments,
  in which user code may change the array.

Typed arrays:

- copyWithin (builtin_typedarrays.go:520-543) copies up to the end of the buffer
  and not of the view: with to > from it overwrites bytes after the view.
- T.from (but for an iterable that is mapped) and T.of call set() without adding
  the view's offset (builtin_typedarrays.go:1379, 1399, 1409, 1418; _putIdx, at
  1389, adds it).  With a constructor of the program's that returns a view at an
  offset they write before that view.
- checkTypedArrayMixBigInt (1064, 1553) reads the names of two constructors, which
  may be getters, between the check that a buffer is attached and its use.
- map, from and set with an array-like do not look at the destination's buffer
  again after a callback, getter or conversion that may have detached it.
- The export of a detached typed array slices a nil buffer
  (typedarrays.go:1392-1398).

Objects and proxies:

- `_defineOwnProperty` that turns a writable property into an accessor leaves
  writable set; a descriptor with writable on an accessor keeps the getter.
- setForeignSym compares the receiver with o.val and not with the prototype
  (object.go:689-714); for-in skips names inherited through a proxy
  (object.go:1220-1248).
- A proxy's getOwnPropertyDescriptor reads the trap's result twice, and reports
  the second reading, which nothing has checked (proxy.go:570-592).  Even if both
  are the same, toValueProp (builtin_object.go:114-160) makes a data property of an
  accessor with neither getter nor setter, and leaves data without a value without
  one: a client that was told of a non-configurable accessor can be told of a data
  property.  Getters of the trap's object that change the target between the
  readings are not modelled.
- keys skips properties whose value is undefined
  (proxy.go:806); preventExtensions over a proxy calls the inner trap twice
  (proxy.go:358-371); keys uses p.target after a lookup in the handler that may
  have revoked it.

## Plan

1. Proofs: ImplementsArray for single accesses; ImplementsObjects, from
   TableConsistent; TryStack for interrupted scripts, as far as the stacks still
   match.
2. Generators on top of TryStack: enter, resume, yield, return through finally
   blocks; storing and restoring of the stacks' tails (`func.go`).
3. ModuleEval: linking with its failures, the host's resolve function failing
   half-way, dynamic import.
4. The promise combinators on top of PromiseJobs; iterator helpers.
5. User code inside the methods of arrays: getters, conversions, species.

## Not modelled

Regular expressions, number formatting, dates, JSON, strings and the other
conversions are functions of unbounded text or 64-bit values with no state to
interleave: TLC would check a handful of inputs of the many that their tests
have.  Wrapped Go values are defined by Go's reflection, weak collections by its
garbage collector.  Of the compiler, scope analysis and direct eval; of the
parser, characters inside lexemes and recovery after the first error.
`PROJECT.json` has the reason for each part.
