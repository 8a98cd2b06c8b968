# C-to-Rust-Assure: models, checks and proofs

C-to-Rust-Assure translates a C code base to Rust with LLM agents, function by
function along the call graph, and then measures by differential symbolic
execution how far the translation behaves like the original. This directory
holds TLA+ modules of the parts that decide *what is translated, in which order,
what is kept, what the backend gets to see and what the symbolic harness shows of
it*, the TLC runs that check them on small instances, and TLAPS proofs for
instances of every size.

Line references below are to `src/src/python/`, with `gpt_translation/` left out
for the mixins, and to `src/src/Symbolizer/Pass/` for `SymbolizerPass.cpp`.

## 1. The system

### Inventory

| Part | State it keeps | Operations | Correct when |
|---|---|---|---|
| SCC search (`translation_utils_mixin.py:180`) | discovery numbers, lowlinks, node stack, stack of iterators | start a node, visit a new or a met callee, finalize a node | returns every component of the call graph once, callees first |
| SCC translation loop (`translation_pipeline_mixin.py:2321`, `translation_utils_mixin.py:247`) | counters and queue of Kahn's algorithm; split blocks, failure dumps, `merged_funcs.rs`, manifest on disk | pop a unit, accept, fail, repair by hand, release its consumers, finish | each unit is decided once, after its callees; nothing is left over; the files agree |
| Agent sessions (`agent_mixin.py:260-460`) | attempt, session id, message, deadline, `rust/out.rs` | start a unit, invoke opencode, pause, judge the result | bounded time; errors go to the session that made them; a broken provider ends the run |
| Agent checks (`agent_mixin.py:462-610`) | `agentFile`, the translation so far | refuse units with failed callees, check an edited file, cut functions out | no translated function is lost |
| Split (`split_merged.py`) | `<fn>.rs` files | closure of a function over blocks, write and compile, fall back | a file holds its function and what it calls |
| Contract check (`checkBackendContract.py`) | none | pair `.i` and `.rs` | the backend gets one `.rs` per function |
| Type registry and batches (`type_registry.py`, `translation_pipeline_mixin.py:922-1116`) | type graph, Rust code of each type | batch order, translate a batch, delete references to empty types | types before users, no dangling reference |
| Evaluation driver (`run_eval`) | run directory, STATUS, the directories of all rounds | five stages | a failed stage is not reported OK; a round scores its own files |
| Symbolic-execution backend (`performSymbolExecution.py`, `symbolicExecution.py`) | two worker pools, offset files, KLEE processes and outputs, tables | compile, instrument, run KLEE, convert, compare, count | both sides use their own files; the table is about the final graphs; a hanging KLEE is killed |
| Distance and score (`distance.py`, `score.py`) | none | canonical graphs, edit distance | symmetric, zero on equal graphs |
| Performance check (`performance_mixin.py`) | round, best version | ask, build, measure | never replaces a translation by a worse one |
| Test-case backend (`testcase_backend.py`) | crate, verdicts | translate the tests, run them | never fails the run |
| Symbolizer harness (`SymbolizerPass.cpp`) | `visited_structs`, `boundary_nodes`, `leaf_buffers`; the objects of the generated `main` | bind an argument's fields, stop at a type being expanded, call the target, dump the arguments | both walks visit the same objects, finitely; struct pointers and leaves are bound before the call; a field is printed from its own buffer |
| C dependency extraction, code clean-up, KQuery parser, rustify pass, reports | syntax trees, text | conversions | not modelled, see section 7 |

How they interact: `translateAll` (one thread; `multiThreading` is `False` at its
only call, `translationValidator.py:907`) sets up the agents, translates types,
then runs the loop. The loop calls `agentTranslate` for each unit, which runs
agent sessions on the shared file `agentFile`. The loop hands over to
`split_merged.py` through files only (`split_blocks/`, `split_manifest.json`,
`merged_funcs.rs`, failure dumps); the contract check and the backend see only the
resulting directory. `run_eval` calls the stages one after the other and finds what
each has left by name and age. The backend's jobs load the Symbolizer pass into
`opt` and hand its output to KLEE; pass, KLEE and converter meet only in file names
and in the names of fields. opencode is a child process in its own process group with
the translation file in its hands.

What is hard to test: orders of callees and functions that Python leaves to
dictionaries and sets; failures of any unit at any place of the call graph; an
agent that may leave the file in any state; provider errors before and after an
edit; exceptions that cut the loop short; the naming agreements between stages;
types that refer to each other in every possible way, walked twice by code that
shares nothing but a set of types and a spelling of names.
`PROJECT.json` lists these hazards at their lines.

## 2. The modules

| Module | Models |
|---|---|
| `CallGraph` | the call graph (`funcMap[f].dependFunctions`), with reachability and components defined without any traversal |
| `SccOrder` | abstract: components appear one by one, callees first |
| `TarjanScc` | `findStronglyConnectedComponents`, one step per turn of its loops |
| `UnitOrder` | abstract: each unit is decided once, after the units it calls |
| `SccTranslateLoop` | `createSccTopoQueue`, `_runSccTopoTranslateLoop`, `agentTranslate`, the hand repairs |
| `AgentSessions` | `_agentRun`, `_agentInvokeWithBackoff`, outcomes of `_agentInvoke` |
| `SplitMerged` | extends `SccTranslateLoop` with `split_merged.py` and `checkBackendContract.py` |
| `TypeBatches` | `topo_batches`, `preTranslateComplexStructs`, `agentTranslateTypeBatch`, `agentFinishTypes`, the cascade of deletions; its order refines `SccOrder` |
| `LeafContract` | abstract: buffers are recorded before the call, and a field is printed from its own |
| `SymbolicHarness` | the two walks of the `main` that `SymbolizerPass` generates |
| `SymExecBackend` | `symbolicExecution.py` with its pools and jobs, the Symbolizer's offset files, rows and counts of the score |
| `RunEval` | rounds of `run_eval` and the directories they find |
| `CallGraphTheorems`, `TarjanSccProofs`, `TranslationProofs`, `TypeBatchesProofs`, `AgentSessionsProofs`, `SymExecBackendProofs`, `RunEvalProofs`, `SymbolicHarnessProofs` | theorems and proofs (section 4) |
| `MC*` | instances for TLC |

### State and code

`TarjanScc` keeps the code's variables under their names. A frame of `workStack`
holds the callees its iterator has not yielded (`todo`); which one comes next is
left open, so every iteration order of dictionaries and lists is covered. The
loop that pops a component is one step: nothing else can run in between.

`SccTranslateLoop`: `incoming`, `queue`, `cur`, `pending` are
`sccIncomingEdges`, `sccQueue`, `sccId` and the consumers the last `for` has not
come to. `file` is `agentFile`, as a function from the functions in it to who
wrote each last; that is all the properties tell apart. `Accept` covers the
unit's whole way through `compileWithFeedback` (or `compileSccWithFeedback`),
`agentTranslate` and the success branch; the edited file is any file (`Edited`)
that passes `PassesCheck`, since an agent may rewrite or add what it likes, and
rustc's and the stub check's verdicts are the choice between `Accept` and `Fail`. A
unit with failed callees can only `Fail`. `Fail` writes the dump; with the
interactive option the loop then waits in `"fix"` for `HandFix`, `SkipFix` or
Ctrl+C (`Raise`). `Raise` is also the fatal provider error of `AgentSessions`.
`Init` allows functions in the file already: agents of type batches may add some.

`AgentSessions` runs units one after the other. `Runs` is what one opencode
process may do to `rust/out.rs`, its reply, its session id, the error it ends on
and the time it takes, up to the kill at `AGENT_TIMEOUT`. `broken` is the
environment: from the moment it becomes true every invocation meets a status of
`_FATAL_API_STATUSES`. `Modes` distinguishes editing in place (`agentTranslate`,
type batches), writing from nothing (`testcase_backend.py:336`) and requests
without a check (`agentRequest`).

`SplitMerged` lets the loop run to its end, then takes the functions in any
order. `rs[f]` is the file `<f>.rs`: whose bodies it holds and where it comes
from. `Visit` is a turn of `closure_blocks`; `WriteRs` is the writing, compiling
and falling back for one function with rustc's answers left open. After an exception
there is no manifest: `run_eval` warns and goes on, `split_merged.py` returns at once
(`SkipSplit`), so `merged_funcs.rs` stays beside what dumps there are, and the
contract check judges that.

`TypeBatches` reduces Rust text to the set of types it defines. Batches are
components of the type graph; which of the ready ones comes first is decided by
kind and name in the code and left open here. The file an agent hands back is any
set of types, because only compiling and lost functions are checked; a failed
batch registers its types all the same (`agentTypeNodes`), on which
`CascadeCutsNothing` rests. `CascadePass` is one round of the `while` of
`_cascadeDeleteEmptyTypeReferences`; which struct definitions have their own line
for the reference is a choice. The blank definitions of the code's second fallback
do not occur: every registered struct has its C text. For the same reason the filter
of batches for types without C text (`translation_pipeline_mixin.py:943-956`) passes
everything.

`SymbolicHarness` has one step per field of a struct. A frame of `stack` is a call
of `initialize_inner_objects` (`"bind"`), `null_boundary_pointers` (`"null"`) or
`print_nested_klee_exprs` (`"dump"`); `by` is what its caller erases from
`visited_structs` on return, `depth` the nesting below a boundary node. Objects have
two addresses: the *name* the pass spells (`arg_value_0.field_4`) and the *place*
at which memory holds them. They differ below a `Vec`, whose element goes by the
`Vec`'s name. Kinds of fields are those the pass tells apart; `box` is `Option<Box<T>>`,
an `i8*` that only the struct map knows as a pointer to `T`. The `ASSURE_*` switches
have their defaults.

The dump is straight-line code: which fields it comes to is decided by types and
names when the pass runs, and only what the loads find is decided at run time. `at`
is what the pointer followed to the struct held: its object, NULL, or something
*elsewhere*. Following a pointer that is NULL harms nothing; the path ends at a field
that is loaded below it (`Loads`: a scalar, a `Vec`'s length, the slot of a pointer
that is followed in turn, a leaf without a buffer), while skipped and excluded fields
and those with a buffer load nothing there. `Target` sets at most one struct pointer,
to NULL or elsewhere: to another object of the harness, as in `head = head->next`, to
one of its own, or to one it has freed. What lies elsewhere is unknown, so pointers
found there are NULL or lead elsewhere, and a load there may or may not end the path
(`DumpDies` is a choice then). One pointer is enough: which fields the dump comes to
does not depend on what pointers hold.

`SymExecBackend` has one step per external tool of a job. `job[s][f]` is the place
of the job of function `f` on side `s` in `process_c_file` or `process_rust_file`;
`found` and `sym` are what the pass and KLEE left for the later tools: without a
target function the pass makes an empty `main` and no offsets, so KLEE prints no
values. `offset[f]` is the file both sides write under one name in the working
directory, `moved[s][f]` where the job puts it. `klees` are processes, not jobs, so
that one can outlive the other. A function stands for one of its arguments. Bitcode,
rows and values are choices over what the tools can give; steps of `main` whose
failure is caught and whose output only names things (struct maps, argument map,
duplicate graphs) belong to the action of the stage they are in. `write_json` may
fail to open its file, which the pass reports and survives; together with a C job
that died after the pass, the Rust job then takes the C offsets. `unsaved` remembers
such jobs, and `OwnOffsets` names them as its one exception.

`RunEval` keeps the directories in order of age, each with the round that made it.
Front end and backend are reduced to what they leave: nothing, a directory
without its end product, a full one; `"bare"` is a front-end directory that has no
function yet, `"complete"` one with its manifest. `Killed`, the container being
stopped, may strike at any stage. Run ids are compared as wholes: the pattern
`individual-funcs_${RUN_ID}_*` would also match the directories of an id that begins
with `${RUN_ID}_`, and the model assumes there is none.

## 3. The runs

| Run | Instance | Shows |
|---|---|---|
| `tarjan` | graphs of 4 functions up to renaming, the sparser ones also with a self call and an external name | the search implements `SccOrder`, with liveness; open stack entries reach an open frame |
| `split` | every graph of 3 functions up to symmetry, repairs allowed | loop: counters exact, nothing left over, file closed under calls, refines `UnitOrder`; after it: closures are reachability, files hold their functions, a translation that ended fails the contract only for a group, one cut short passes only with nothing accepted |
| `split_live` | one graph of 3 functions of every shape, no repairs | every run raises or comes to a verdict of the contract check |
| `types` | every dependency graph of 3 types, kinds typedef, struct, static | batches implement `SccOrder`, with liveness; whichever batches fail, the cascade cuts nothing |
| `harness` | layouts of up to 3 struct types with up to 3 fields, one and two arguments, both sides | both walks end, are balanced and cut chains of struct pointers; no field is left unbound but the kinds named in section 4; the dump skips where the binding stopped; leaves find their buffers, their own ones (`LeafContract`) |
| `agent` | 2 units, 3 attempts, 2 pauses, all modes | the five session properties, and every unit ends |
| `backend` | 2 functions, 2 workers | own offsets, bounded KLEEs, rows about final graphs, 0.0 only for compiled functions, result.csv only when complete; the round ends though KLEE may not |
| `rounds` | 3 rounds, 2 run ids | other rounds' files are scored only if the round made none; scored directories passed the two gates |
| `hand_fix`, `failure_scene`, `stale_backend`, `boundary_dump` | smallest instances | the findings of section 6 |

Bounds. Four functions let two cycles share a node or overlap, the case in which
lowlinks must travel through several frames; every graph of four functions is a
renaming of one whose functions are sorted by calls made and received. For the loop
and the split three functions give chains, two consumers of one unit, two callees
of one consumer, a cycle with a caller, a cycle with a callee and a cycle of
three. For the agent, three attempts and two pauses let a session id be lost and
found at each place, the deadline (5) falls inside the second attempt, and two units
suffice to see a second one lost. `ClockStop` stops the clock one past the
bound that `UnitTimeBounded` allows, so the bound can be missed.

Two functions on two workers let jobs of one pool run side by side, and one that
hangs hold up the barrier; the offset file of a function concerns its two jobs only.
With one worker, where a job waits for the other, the same properties hold (the
constant `MaxJobs` of `MCSymExecBackend.cfg` set to 1).

Three types give a chain, a fork, a join, two cycles sharing a type and a cycle of
three. typedef (no agent for simple ones), struct (seed of the cascade) and static
(deleted whole) are the kinds the code treats differently; enums and externs are
handled as statics, unions are cut as structs are.

In `harness` two mutually recursive types with three fields put a boundary node
below a pointer, in a by-value struct, next to leaves on either side of the field
that stops the walk, and in the second argument after the first. A third type is
only needed below a by-value struct in a boundary node. `NullDepth` is 2 instead of
the code's 4, so that the limit is reached. Layouts in which a `Vec` leads to its own
type without a pointer between are left out: neither the code nor the model ends on
them (section 6), so `HarnessEnds` says nothing of them. The run has about 370,000 states.

Two rounds make a directory stale, a third lets a stale one follow a failed one,
with and without a common run id.

Symmetry is used in runs of safety properties only (`split`, `rounds`); functions are
interchangeable, and so are run ids.

Deadlock is off where the system may stop: after the last unit, after the last
component, after the verdict, after an exception, after a round.

Fairness. The code up to the split is one thread of a Python process that never waits
without a timeout, except at the repair prompt; hence weak fairness of the whole
next-state relation of each process, and none of the environment's `Break`. The same
holds for `types` (one thread; `agent` shows that an agent's runs end) and `harness`
(a pass and the `main` it generates are sequential and wait for nothing).
`split_live` switches the prompt off: with it on a user may wait for ever (every
retry of a repair that does not compile is a stuttering step). In `backend` the main
thread and each job are weakly fair: a pool thread runs when it can, and the timer
of `run_command_and_log` fires. Nothing is assumed of KLEE (`KleeEnds` is not fair).
The other tools have no timeout in the code (`run_command`), so their ending is an
assumption.

## 4. The proofs

All theorems hold for every value of the constants that meets the named
assumptions. Each component has one inductive invariant, called `IInv` (`SplitInv`
for the split), that is a conjunction of named parts and was checked by TLC on the
component's run before it was proved; the harness has three more on top of it.

| Module | Theorems and the property of the run they state |
|---|---|
| `CallGraphTheorems` | lemmas: components partition the functions; `SccOrders` lists each once, callees before callers; sequences |
| `TarjanSccProofs` | `SearchTypeCorrect` (`TypeOK`), `StackIsHeld` (`StackReachesOpenFrame`), `SearchIsOrdered` (safe part of `ImplementsSccOrder`) |
| `TranslationProofs` | loop: `TypeCorrect`, `CountersExact`, `LoopLeavesNothing`, `FileClosedUnderCalls`, `MergedAlwaysChecked`, `Refinement`; split: `ClosureIsExact`, `FilesHaveTheirFunctions`, `ContractFailsForGroups` (`OnlyGroupsBreakContract`), `UnfinishedNeverPasses` (`UnfinishedIsRefused`) |
| `TypeBatchesProofs` | `TypesTypeCorrect`, `CascadeIsIdle`, `TypesAreOrdered` (safe part of `ImplementsTypeOrder`) |
| `AgentSessionsProofs` | `SessionsTypeCorrect`, `BreakdownIsCheap`, `MessagesFit`, `EditsKeepSession`, `UnitsAreBounded` |
| `SymExecBackendProofs` | `BackendTypeCorrect`, `OffsetsAreOwn`, `KleesAreBounded`, `EqualMeansCompiled`, `TableMatchesGraphs`, `ResultIsComplete` |
| `RunEvalProofs` | `RunEvalTypeCorrect`, `ScoresItsOwn`, `GatesHold` |
| `SymbolicHarnessProofs` | `HarnessTypeCorrect`, `VisitedBalanced`, `ChainsCut`, `PointersHeld` (`NoLoosePointer`), `LeafContractKept` (`KeepsLeafContract`), `WalksMatchUp` (`WalksAgree`), `LeavesBuffered` (`LeavesHaveBuffers`) |

### The search

`StackReachesOpenFrame` is not inductive: that a node is popped in time depends on
its lowlink, which the property does not mention. `IInv` of `TarjanSccProofs` says
of the stacks that numbers grow along both, that a later node of the stack is
reached from each earlier open one, and that each node of the stack reaches an open
frame numbered no later than itself; of lowlinks, that each is the number of a node
of the stack its owner reaches, and that a callee no iterator still holds has been
met and, while on the stack, is known to the lowlink of the frame that owns its
caller; and of finished nodes, that they call finished nodes only. When a frame
closes with its lowlink equal to its number, `UpperIsComponent` shows from these that
the part of the stack from its node up is closed under calls to nodes not finished
and reaches the node, hence is the component; `PopsUpper` that the popping loop takes
exactly that part. The step is then a step of `SccOrder`; every other step stutters.

### The loop and the split

`IncomingIsExact` alone is not inductive. `IInv` adds where each undecided unit is:
it is in the queue exactly when its counter is zero and it is not the current one, no
unit is queued twice, queued units are undecided, the current unit has all its
callees decided, `pending` holds consumers of the current unit only. `Release` then
queues a unit exactly when the last callee is taken off. For `NothingLeftOver`,
suppose units are undecided when the queue is empty; the one with the smallest index
calls only units before it (`SccOrders`), all decided and released, so its counter is
zero and it would be queued. For `AcceptedKeepsItsCallees` the file only grows
(`PassesCheck`) and a unit is accepted only with its callees in it.

The split reads what the loop left and changes none of it (`LoopOrSplit`,
`SplitReads`), so the loop's invariant carries over. The closure adds: what it
`need`s is reached from the target, and every callee of a needed unit is needed or
still on the stack; with an empty stack the needed functions are closed under calls.
For the files: an accepted function is in the merged file (`AcceptedKeepsItsCallees`;
`MergedAlwaysChecked`, a theorem that no run repeats), so its closure, written to its own
file, holds it; a failed one that is alone in its unit has its dump, which `NextDumps`
carries through the loop.
`ContractFailsForGroups` therefore speaks of a loop that no exception has ended; and
after one, a unit taken on has put `merged_funcs.rs` where the contract check finds it
(`TakenIsMerged`, `VerdictInv`), which is `UnfinishedNeverPasses`.

### The types

`indegree` counts the components a component waits for, less those taken. That one
is free while any is left (`SomeComponentIsFree`) needs a component with a smallest
set of reached types. `typeNodes` holds the types of every batch before `next`, so
`agentFinishTypes` gives the file to every type and no registered type is empty when
the cascade begins, unless the file is.

### Sessions

`lost` is at most one because a unit lost to the provider either ends the run or
is still at work, with nothing in its file. A message holds the task exactly while the
unit has no session; what is in the file was edited in a session, which `_agentRun`
keeps. For the time, `Clock` says when the attempt under way began and `Spent(try)`
how long the tries before this one took at most. `SumTo`, the recursive function
behind `LongestAttempt`, is shown to be defined, monotone and natural without
induction over an operator: if a fact failed for some number it would fail first
somewhere (`FirstFailure`), right after a number for which it holds.

### The backend

The two pools work in turn, so while C jobs run no Rust job has left anything.
`OffsetsInPlace` follows the one file both sides write: from the pass of a job that
found its target up to `fetch` it is that side's own, or the job is in `unsaved`. A
job that has not ended has no graphs, and a job ends once; so when both pools are done
the graphs are final, and the table is written from them. `klees` are exactly the jobs
that wait for KLEE, and there are no more jobs at work than workers. Assumed: `Fns` is
finite and `MaxJobs` positive.

### The rounds

Directories are listed by age, one of a kind per round, and belong to rounds that
have begun; the running round's are there only past its own stages. The last of
the list is then the round's own if it made one (`NewestIsOwn`). Metrics are of
rounds that are over, whose directories later rounds do not touch (`DirsStay`).

`GatesHold` says what the two gates ask and no more. A bare front-end directory, left
by a failed round of the same id, passes the contract check with no function in it, and
a backend directory whose round was killed after its `result.csv` is taken for whole:
both may be scored, in the code as in the model. That they are scored only by a round
that made none itself is `ScoresItsOwn`.

### The harness

`ChainsAreCut` needs: each call made through a pointer, and no other, erases the type
it came from; no type is erased by two calls; together they are `visited_structs`. The
hops are then as many as the erased types. Only struct pointers and boxes are hops. A
`Vec`'s data pointer is followed without a look at `visited_structs`, so neither the
theorem nor the code bounds the calls made through it (section 6).

`PointersHeld` adds `PointersInv`: a pointer that is still unbound belongs to a field
that an open call has not come to. And for the give-up depth it adds `DepthInv`: a
call's `depth` is the number of names below the boundary node it is in. Three things
stay symbolic in the code and are outside the theorem: function pointers
(`SymbolizerPass.cpp:611`), `Vec`s nested deeper in a boundary node than
`null_boundary_pointers` goes, and what the raw buffer of a boundary node's `Vec` is
read as (section 6).

For `LeafContractKept`: a name fixes the type of what it names, a place differs from
its name only below a `Vec`, the second walk never goes below one, and no leaf is
recorded after the call.

`WalksAgree` and `LeavesHaveBuffers` compare the second walk with all of what the first
one made. `MatchInv` keeps that:

- the first walk never comes back: nothing is named or placed beyond the field an open
  call is at (`FreshInv`), so each struct and each pointer it makes has a place of its
  own and none made before is touched (`GrowsFresh`);
- a field no open call awaits is `Bound`: a leaf has its buffer, a struct by value its
  node or is `GivenUp`, a struct pointer is at or below a boundary node, or has its
  node under its own name and points to it unless the target has set it;
- the types visited are those of the nodes on the way to the current one that are left
  through a struct pointer (`Above`; `ExpandedIsVisited`, `VisitedIsExpanded`), in both
  walks: a boundary node is of a type above itself (`BoundaryOK`), so the second walk
  skips it, and an object that is not below one is of a type not above itself;
- each call of the second walk is on a node of the first or inside a boundary node
  (`Seen`), and the pointer it was led by holds its object unless the call is inside a
  boundary node or at or below a pointer the target has set (`Led`; `FoundWhere` for one
  more hop). A path ends only at a call whose pointer does not hold its object (`DiedOK`).

`LeavesHaveBuffers` does not depend on where paths end: at every leaf of a struct the
first walk made the buffer is there by `Bound`, whatever the pointers hold. Below a NULL
pointer in a struct that a boundary node holds by value there is no such struct; the dump
goes on there and leaves the leaf's label out (`DumpLeafUnbound`), and the path lives on
if nothing else is loaded.

### Assumptions and limits

Assumptions: `Funcs`, `Types`, `Fns`, `Ids` are finite, names of `Externals` are no
keys, graphs map functions to sets of names, no type depends on itself
(`topo_batches` drops such edges), `NullDepth` and the times are natural numbers,
`MaxJobs` and `MaxRounds` are positive; nothing else. TLC evaluates them in every run.

Only model-checked:

- everything under fairness: `EventuallyJudged`, `EveryUnitEnds`, `BackendEnds`,
  `HarnessEnds` and the fairness that `ImplementsSccOrder` and `ImplementsTypeOrder`
  promise of `SccOrder` (liveness and ENABLED are out of the prover's reach).

## 5. Mutants

Each property is checked against a fault of the code it is about: the `Mut...`
operators stand before the definition they replace and say in a comment what
was forgotten.

## 6. Findings

1. `hand_fix`: an accepted hand repair never enters `agentFile`, from which
   `merged_funcs.rs` is written; units calling it are refused.
2. `failure_scene`: a failed group leaves `scc_<members>.rs` instead of a
   `<fn>.rs` per member, and the contract check then aborts the evaluation of the
   whole code base.
3. `stale_backend`: a backend that dies before it makes its directory goes
   unnoticed when an earlier round left one; the round is scored on that one.
4. `boundary_dump`: `null_boundary_pointers` goes into the structs a boundary node
   holds by value and stores NULL into their struct pointers. The dump's guard
   (`SymbolizerPass.cpp:1514`) looks up the nested struct's own type, which is not
   being expanded, and follows the NULL; KLEE ends the path at the first load below it.
   The comment at line 609 says the dump already skips struct pointers at this boundary.
   Example: `struct A { A *next; struct B { B *link; int v; } b; }`, where the dump
   reaches `next->b.link`, skips `link` below it and loads `v`. Without `v` nothing is
   loaded and the path goes on.

Observations made while modelling, without a run of their own:

- A unit's agent may rewrite functions accepted earlier. Split blocks keep the text
  of the time of acceptance, `merged_funcs.rs` has the later one; the doc comment of
  `_dumpSplitBlock` (`translation_pipeline_mixin.py:2289`) says they are identical.
- An agent that deletes `rust/out.rs` while editing in place leads to `None.strip()`
  (`agent_mixin.py:449`) instead of the message written for that case.
- `count_edit_distance` (`processOutput.py:58`) compares a column with the text
  `"0.0"`; a table without a `Rust Empty!` row is read as floats and counts as 0.
- The element of a `Vec` is named by its `Vec` (`SymbolizerPass.cpp:2319-2323`), so
  the leaf at its `field_0.field_0` shares the key of the `Vec`'s data pointer. This
  is the exception `KeepsLeafContract` makes.
- `bind_vec_element` and its callers have no guard on `visited_structs`:
  `struct Node { kids: Vec<Node> }` is expanded without end, although
  `assure_design.md:109` says that the same struct type is expanded once.
- In a boundary node a `Vec`'s data pointer is an `i8*` and gets the raw symbolic buffer
  of a leaf (`SymbolizerPass.cpp:768`). The comment at line 757 says that a buffer holds
  no pointer; the target reads this one as the `Vec`'s elements, and these may hold struct
  pointers, as in `struct A { next: Option<Box<A>>, links: Vec<B> }`, `struct B { node:
  Option<Box<A>> }`. For `Vec`s elsewhere `bind_vec_element` was written because of just
  this (lines 2224-2231).
- The `continue` at `SymbolizerPass.cpp:1522-1524` skips the erasing of the type that
  was put into `visited_structs` just before it. It needs a function pointer whose
  LLVM pointee is a struct (an `Option<fn>` lowered to `{}*`), a kind of field the
  model leaves out; all function pointers of the model have function types.
- The cascade of deletions never has anything to cut today, because
  `agentFinishTypes` fills every type; it can only run when the whole file is empty.

`EqualRowsAreCompiled` answers LIMITATION.md L2: a function that failed to compile
has no Rust graphs, so its rows are never 0.0, and numerator and denominator of
the score cannot drift apart that way.

## 7. Not modelled

Text: prompts, clean-up of Rust source, dedupe of items, signatures cut out for
prompts, import fixes, FILE* adapter (its success or failure is a choice in
`WriteRs`). Syntax-tree queries that build the call graph. Generated parsers. The
rustify pass. Reports and token counts. The C++ target of the same code paths. The
performance check that runs after the loop's last write.

Of the Symbolizer: system structs, slices and arrays, the walk over the return
value, function pointers to struct arguments, the content of buffers, non-default `ASSURE_*` switches, and
the rewriting of the target module (bodies removed, panics and allocators replaced).
The dump never goes below a `Vec`'s data pointer, so the element objects of the first
walk are compared with nothing in the second.
Of the types: how the registry merges entries; `_tarjan_scc` is taken to give the
components, as `TarjanScc` shows for its twin.

Most C lines of the repository are not this program: `inputs-complex/` and the test
cases are third-party programs kept as inputs of the translation. They are data
here, so the share of the repository's C lines that the modules stand for is small.
`PROJECT.json` lists each component with its reason.

## 8. Plan

1. `Performance`: rounds, best version, fallbacks.
2. `Distance`: operators against reference definitions; the pairing of C and Rust
   argument names.
3. The modes without replay (`translateAndCreateRustFiles`, `compileAndRetryLoop`).
4. Proofs for the parts of 1 to 3, along the same lines.
