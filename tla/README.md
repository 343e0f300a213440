# TLA+ models of usd-optimize

Specifications of `usd_optimize`: the concurrent core that runs operations (source/core, the
command line, the Python package and the validators), and a part of the operations themselves as
algorithms on small stages. They are model-checked with TLC and, where TLAPS can reach, proved.
Everything is translated from the sources; `PROJECT.json` maps each definition to its lines and
lists the hazards, the runs, the mutants, the findings and the theorems.

Run a model with `tlc -config X.cfg M`, a proof with `tlapm M.tla`.

## The system

usd_optimize applies *operations* (about fifty plugins: merge, decimate, deduplicate, ...) to a
USD stage. Callers are a command line, a Python package, and a validator framework.

| component | state | operations | talks to |
|---|---|---|---|
| `Report` (Report.cpp) | queue, mutex and condition variable, writer thread, output stream, `m_shutdown` | `initialize`, `log`, destructor | logged to by OperationLogger from any thread |
| `Operation` (Operation.cpp) | arguments, context, stage, report of each instance; the static `s_logger`; the logger's `m_report`, `m_fromOperation` | `execute`, `usdOptimizeLog`, argument setting and reset | carb logging (default logger, level threshold), Report, nested operations |
| configurations (Core.cpp `executeConfig`, ParseJson.cpp `_parseJson`) | a copy of the caller's `ExecutionContext`, the results, the process-wide stage cache | one loop over the commands | Operation::execute, the caller's context (`reportPath`, a malloc'd string) |
| arguments (Argument.cpp, Operation.cpp, PythonOperation.cpp) | per instance: value, default, bounds, enum | register, set from JSON, Python or words, clamp, reset | everything that executes an operation |
| registry (Core.cpp) | operations, Python operations, renamed operations and arguments | register, deregister, load plugins and mappings, get, map | everything that runs operations by name |
| shutdown queue (Core.cpp) | callbacks, their mutex, `m_shutdownStarted` | register, run | Python's `Py_AtExit`, the command line's exit, services |
| `FindOverlappingMeshes` service and operation | singleton: detector with CUDA buffers, results, `m_processMutex`, registration flag; islands of one execution | `processStage`, `shutdown`, readers; `generate` | the shutdown queue |
| `Coalescer` | timestamp, `m_timerActive`, `m_cancelled`, mutex and condition variable, detached threads | `trigger`, `cancel`, `wait`, `isActive`, destructor | the client's callback |
| `OmniOperation` pipeline | prim counter, tokens in flight, output queue, prims to delete, statistics | two filters of `tbb::parallel_pipeline`, the filter's destructor | `processMesh` of the operation, the stage |
| command line, Python package, validators | options; contexts in the stage cache; parameters of rules | drive the above | registry, configurations, operations |
| operations on the scene | the stage: prims, references, instances, bindings, relationships | prune, flatten, deduplicate, organize, remove, convert materials | USD composition, one after another in a configuration |
| operations on meshes and values | the stage: geometry, subsets, primvars; attributes, samples, transforms | merge, split, optimize primvars, units and axes, time samples, pivots, extents | the geometry library, value resolution |

What makes it hard: reports are written by a second thread that outlives its last message only
by a join; logging is routed through one static pointer with one flag shared by all the threads
of a parallel loop; executions nest; each run has many ways to end early and much to put back
(a logger, a level threshold, arguments, a stage cache, the ownership of a C string); timers
are detached threads; two mutexes are taken in both orders around shutdown; the stage may
only be written on one thread of a pool; names are renamed at several places on the way from a
configuration to an argument; and the operations edit a stage that they searched before, in which
references, instances, bindings and relationships lead from one prim to another.

What makes each part correct:

- Report: every message is in the file, once, in order, when the report is closed; the
  destructor returns; nothing touches the stream after it is closed.
- Operation: BEGIN and END nest in a report; while there is a report, messages go there and
  nowhere else; no use of a destroyed report; after the execution the logging of the process is
  as before.
- Configurations: in order and up to the first failure; each string is freed once; the caller
  learns the report's path; the stage cache is left as found.
- Arguments and registry: whichever way in, an operation reads what the caller said, or its default,
  within its bounds; a handle in use is usable; a saved configuration replays; exit codes tell.
- Coalescer: a callback only after a quiet delay, one for every burst, no thread of the object
  left when it is gone.
- Pipeline: the stage is edited on the calling thread only; every result once; it ends, also
  after an exception.
- Shutdown: accepted callbacks run once, in order; a detector is always covered by one; no
  deadlock of the two mutexes. Islands are the connected components of the pairs.
- Scene: what is drawn stays; references lead somewhere and never in a circle; no relationship is
  left dangling.
- Meshes: every face and crease is shown as and where it was; the parts of a geometry fit together;
  splits are complete.
- Values: every point, size, direction, limit and mass stays where it was, at every time; extents
  bound their points; the samples that go are those the analysis tells.

## Modules

| module | models | checked by |
|---|---|---|
| `AppendLog` | what a report promises: accept, store in order, close only when complete | a property of `Report` |
| `Report` | Report.cpp, every critical section an action | `Report.cfg` |
| `OperationExecution` | `Operation::execute`, `ScopedOperationLogger`, `usdOptimizeLog` | `OperationExecution.cfg`, `OperationWorkers.cfg` |
| `ConfigRun` | `executeConfig`, `_parseJson`, the context functions of Defs.h | `ConfigMalformed.cfg`; in `Session` |
| `Arguments`, `Registry`, `CommandLine` | argument values and how they are set; operations by name and their renames; the words of a command line | in `Session` |
| `Session` | a process: every way in (configurations, one operation, `analyze`, `optimize`, a held operation, validators' rules, the command line) over the four above | `MCSession` with `ConfigRun.cfg` |
| `Coalescer` | Coalescer.cpp | `Coalescer.cfg`, `CoalescerDestroyed.cfg` |
| `MeshPipeline` | OmniOperation.cpp, `executeImpl` and `OutputFilter` | `MeshPipeline.cfg` |
| `Shutdown` | the shutdown queue of Core.cpp and the FindOverlappingMeshes service | in `OverlappingMeshes` |
| `IslandDetector` | the islands of findOverlappingMeshes over `UnorderedIndexSet` | in `OverlappingMeshes` |
| `OverlappingMeshes` | `generate` on the service, with other executions and the shutdown in between | `MCOverlappingMeshes` with `Shutdown.cfg` |
| `Stage` | a layer with references, instances, classes, bindings; what several operations use of Utils.cpp | in `Scene`, `Meshes` |
| `PruneLeaves`, `FlattenHierarchy`, `DeduplicateHierarchies`, `OrganizePrototypes`, `DeduplicateGeometry`, `RemovePrims`, `OptimizeMaterials` | the operations of these names | in `Scene` |
| `Scene` | these operations one after another | `MCScene` with `Scene.cfg` |
| `VirtualMesh`, `Clustering` | the geometry library: slicing and merging of meshes; merge boundaries, spatial clusters and buckets, and the merge operation | in `Meshes` |
| `SplitMeshes`, `OptimizePrimvars`, `RemoveUnusedUVs` | the operations of these names, with the checkers of the last two | in `Meshes` |
| `Meshes` | these operations one after another | `MCMeshes` with `Meshes.cfg` |
| `Attributes` | value resolution, time samples, transforms; what several operations use | in `Values` |
| `StageMetrics`, `TimeSamples`, `Pivot` | editStageMetrics, optimizeTimeSamples, pivot with computeExtents | in `Values` |
| `Values` | these operations one after another | `MCValues` with `Values.cfg` |
| `Induction` | lemmas: induction over numbers, numbered sequences, folds and sums | TLAPS |
| `ReportProofs`, `OperationExecutionProofs`, `SessionProofs` (with `ConfigRun`), `CoalescerProofs`, `MeshPipelineProofs`, `IslandProofs` (with `Shutdown`), `ValuesProofs` | theorems | TLAPS |

The `MC` modules give the small stages, operations and scripts, and the symmetry of operations,
arguments and files. Each component has *faulty variants* (`M_...`): a definition as a slip in the
code would have it. Putting one in the place of what it varies makes TLC report the property it is
listed with, which shows that the property speaks about that code.

### From the code to the models

**Report.** `phase` is where the owner is (`new`, `open`, `failed`, then the three parts of the
destructor), `writer` where the writer thread is. `queue`, `shutdown`, `held` (the local `msg`
between `pop` and `<<`) and `out` are the members of the same purpose. `accepted` is a history
variable. The final flush is done under the mutex, so while the writer is "flushing" nobody else
enters (`MutexFree`). A log() is only possible on an open report: `Operation::execute` drops one
that fails to open.

**OperationExecution.** `stack` holds the calls of `execute` in progress, each with the step it
is at; the steps are those of the function, in its order, and every early return goes to
"return", where the scoped logger's destructor runs if this call made it. `call[t]` is where a
thread is inside `usdOptimizeLog`, whose three steps (raise the flag and look at `m_report`;
deliver; take the flag back) interleave with other threads. `text` holds the report files as
lines (markers and messages). carb is external: a set of loggers and a threshold. Messages below
a level are not distinguished. The logger remembers the threshold it found (`saved`, m_oldVerbosity)
and puts it back; the default logger is put back to the one a process begins with, which is the only one
it can have found. What `populateExecutionArguments` logs of an argument is `LogArgument`. Nested executions use a copy of the context (DiceMeshes,
OptimizeSkelRoots, MeshPreparation) or one without a report (MeshMerge).

**ConfigRun.** A C string is a block of a heap, a pointer its number, so that a use after free, a
double free and a leak can be told. `Operation::execute` is one step with its effect on
`reportPath`. `_parseJson`'s early returns are the action `CutShort`; what they leave behind is
recorded in `leaked` and `left`, which lets the other properties be checked with such runs present.

**Session** extends ConfigRun: its configuration steps are taken together with what they do to the
registry and the arguments (`told` records what each execution reads, and beside it what the caller
asked for, whence `ArgumentsTold`). Python operations are wrappers with one owner; a wrapper's
address outlives it or not. A JSON value is a pair of type and payload, reals in halves, so that
truncation to an integer and the two bounds matter. A script says what the caller does; how an
operation ends, and whether its report opens, is open. What the command line writes and returns is
kept in `cli`, the configurations it saves in `files`. Saving one may fail unnoticed (`SaveAs`), as may saving
the stage in place; of an export the exit code tells; `recorded` remembers what the executions read that
a saved file stands for.

**Coalescer.** Each member function holds the mutex throughout and is an action; `wait()` may
block in between. Time is relative (`since`, `left`, `quiet` in ticks), so that no clock has to be
bounded. A timer may oversleep by any amount, and triggers may come at any tick.

**MeshPipeline.** `tbb::parallel_pipeline` is external and modelled from its use: a limited number
of tokens, a serial filter that any thread may run, `stop()`, cancellation by an exception. The
outcome of a prim is chosen when `processMesh` returns: written, written with an error, deleted,
left alone, no data, exception. What `writeToUsd` throws is caught inside the loop of `writeQueued`; nothing
else in a round throws, so that the catch around the loop (OmniOperation.cpp:163) has no step.

**Shutdown, IslandDetector, OverlappingMeshes.** Both mutexes are variables, held from the lock to
the unlock of the code; `processStage` is split where it takes the second mutex. An execution of
the operation has steps of its own between its calls of the service: pairs are read in one critical
section and the path of each mesh in another. The index set is the two arrays of the code with its
sizes, not a set: that they stay inverse permutations is what has to be shown. What the detector
finds is a constant set of results.

**Stage and the scene operations.** A stage is the prim specs of one layer by path; `Composed`,
`Get`, `Material` and so on say what USD composes from them, as far as src/ relies on it: references,
instances (local specs below one are void), classes and overs, inherited bindings, specializes
arcs of materials, relationship targets mapped through arcs. Geometry and materials are tokens,
transforms are numbers that add up. Each operation is one action with its options as `\E`: search,
edits in the order of the code, clean-up. The code's own names and loops are kept where their order
matters (which prim of a class is the prototype, which sibling gets a suffixed name).

**VirtualMesh, Clustering and the mesh operations.** A geometry has points on a line, faces and
creases as sequences of indices, holes, subsets, primvars with interpolation and indices. Offsets,
paddings and reindexing are done with numbers as the code does, since an index that is off is
what can go wrong. Of the floating-point side only comparisons are left (distances along the line,
bounds that overlap). A pivot written to a merged mesh, which moves nothing, is left out; primvars and
UVs are on meshes only and have an element size of 1; different values have different hashes; the names
of the merged meshes are looked up for one parent at a time, as they differ between parents.

**Attributes and the value operations.** An attribute has a type, a default and time samples, blocks
among them, with held or linear interpolation by type. Numbers are multiples of 1/16 so that the
scale factors of `MCValues` (halves and doubles) stay exact; rotations are by quarter turns, which
makes a matrix whole. A pivot's centre goes by the extent that is authored, if there is one, as the bounds cache
does. A single sample that is blocked goes without leaving a value.

Some data is left out because no stage here has it: time-sampled or resetting prims in `Flatten`
(FlattenHierarchy.cpp:120, 235, 427, 596), more than one reference on a prim in `Organize` and the placeholders that are
defined there and overwritten by the copies (OrganizePrototypes.cpp:397, 471), time-sampled meshes in
`DedupGeometry` (DeduplicateGeometry.cpp:301). The prefixes of texture names in `MaterialRelated` are the
names themselves; the spellings of a Boolean in `ParseBool` are one for each case of the code.

## Runs

| run | shows | bounds, and why they are enough |
|---|---|---|
| `report` | no loss, no reordering, no write after close, the destructor ends, refinement of `AppendLog` | 2 loggers, 2 messages, 4 logs: the writer can hold one message while another waits and two more arrive during the shutdown |
| `execution` | reports nest, messages go to the report, logging is restored however executions end | 2 operations, 2 arguments, 2 files, 3 executions, depth 2, 2 messages: one nested and one later execution, each with every outcome |
| `operation_workers` (violation) | the shared flag loses a message | 1 execution with 1 worker: two threads suffice |
| `config_run` | order, ownership, report path, stage cache; arguments as told, replay of saved configurations, exit codes, usable operations; every save may fail | 4 operations (with a bounded real and a group, with renamed and bounded arguments, one that rejects what is out of range, a Python one) and plugins that redefine them or fail to load; every configuration of up to 3 out of 6 commands (one of 4 on disk), 2 runs: old names, failures first, in the middle and last, and a second run on what the first left, through every pair of ways in |
| `config_malformed` (violation) | a malformed command leaves the stage in the cache | 1 run of up to 2 commands |
| `coalescer` | bursts, cancel, waiters, destructor | a delay of 4 ticks of half a millisecond, so that cutting off to milliseconds matters; 2 waiters; 2 unfinished callbacks |
| `coalescer_destroyed` (violation) | a callback thread outlives the object | the same |
| `mesh_pipeline` | main thread only, once, complete, ends | 3 prims, 3 threads, 3 tokens: two results can wait while a third is written |
| `shutdown` | callbacks once and in order, covered detector, islands, groups, shutdown returns | 2 users (one lists islands, one pairs), 2 exiting threads, 1 other callback, 2 calls each; results of the detector with two islands that join and a slot used again, and with a pair of one mesh and a hit below the tolerance |
| `scene` | what is drawn stays, references sound, no dangling relationships | 7 stages (painted, colored, chains, nested references, alike subtrees, instances, hidden prims); 3 operations in any order and configuration (2 or 3 duplicates at least for a point instancer): one to prepare, one to disturb, one to show it |
| `meshes` | faces and creases kept, geometry sound, pieces whole | 5 stages (sliced, groups, shared, row, textured), 2 operations: a merge after a split, a split after a merge, primvars before and after both |
| `values` | places, sizes and directions kept, extents bound, samples needed, analysis right | 4 stages (transforms, animated, physics, skinned), 4 times, 2 operations: units or axes changed twice, samples removed before or after |

Named bounds: `MaxLogs`, `MaxExecutions`, `MaxDepth`, `MaxCommands`, `MaxRuns`, `MaxCallbacks`,
`MaxCalls`, `MaxSteps`, `MaxArcs` and `MaxDepth` of `Stage` (length of a chain of arcs, depth of a
path; longer ones do not come up). `MaxDataVolume` is the code's limit of points per merged mesh,
made small. Deadlock is checked in every run but `scene`, `meshes` and `values`, whose sequences of
operations end at `MaxSteps`; where another system is over, an explicit stuttering step (`Closed`,
`Done`, `Over`, `Ended`) says so.

### Guards: where the code does not do what a property says

The actions of `Scene`, `Meshes` and `Values` take every input their stages offer, except for what
is named in a guard. Each guard stands for a case in which the code changes what a stage shows or
leaves it unsound, so that the property is shown for the rest; the comment on the action says so.

- `Flatten`: no colors on Xforms (they are lost), no classes (references to them are not searched),
  no Scope with a binding or relationship.
- `DedupHierarchies`: no references (the comparison does not see what instances hold).
- `Organize`: no prototype that is itself composed.
- `DedupGeometry`: by reference, bindings on all meshes of a class or on none; by point instancer, not
  below a source of references, hidden, abstract or the target of a relationship.
- `SourcesStay`: of the materials optimizeMaterials deletes, none is a source of one that stays.
- `ByPrimvars`, `ByColors`: no value that reads a primvar already; no subset among the painted prims.
- `IndexedStrings`: an indexed string primvar is not simplified without being rewritten.
- `OwnUVs`: UVs are not read through a subset's material or by a prim that composes the mesh.
- `RemoveDuplicates`, `RemoveInterpolated` (`AllRemovable`): an attribute of a type that USD interpolates and
  the operation takes for held, as those with a role, has no value that is held before it changes (`HoldsStay`:
  the code does change such values); among several samples of a type that is not taken for held none is
  blocked (`Readable`: the code reads a block as a number, unchecked, which is undefined). Blocks of held
  types, and single samples that are blocked, are in the stages.
- `ChangeUnits`: no collapsing where a prim resets the transform stack, no blocked rotation about an axis that
  is given to another one (`Unblocked`: read unchecked as well, EditStageMetrics.cpp:1441); `CentrePivots`: no attribute
  with one sample, which would hide the default that is written.

### Fairness

- `Report`: the writer, the rest of a destructor and the notification of a log() go on: threads of
  the C++ library that are not blocked run. Nobody has to log or to destroy.
- `Coalescer`: time passes, and the timer, callback and notified threads run. Nobody has to
  trigger. `TriggerAnswered` assumes that triggers stop at some time.
- `MeshPipeline`: the pool takes prims and results while there are any, and each thread finishes
  what it has begun; that is what tbb provides while `parallel_pipeline` is running.
- `Shutdown`, `OverlappingMeshes`: weak fairness of a thread inside `processStage` and of the other
  steps of an execution, strong fairness of a thread in `runShutdownCallbacks`, since it competes for
  mutexes that others take again and again. `Safety` in `Shutdown` is the specification without it.
- `OperationExecution`, `ConfigRun`, `Session`, `Scene`, `Meshes` and `Values` are sequential callers,
  checked for safety only, and assume none.

## Where the code and its comments disagree

1. `operation_workers`: Operation.cpp:69 and 947 say that with a report nothing is printed to the
   console; two threads that log at once can take `m_fromOperation` from each other, and the
   message of one is printed and not reported.
2. `config_malformed`: ParseJson.cpp:94 says the inserted stage is removed afterwards; the early
   returns at 122 and 132 leave it.
3. `coalescer_destroyed`: Coalescer.h:56 says the destructor keeps the object alive for a
   callback that was scheduled; the callback's thread is detached and nobody waits for it.

## Observations

What else came up in reading and modelling, most of it behind the guards above; no run shows these.
Paths are below source/, operations below source/operations/.

- Shutdown and service: a detector made after the shutdown has no callback, although
  FindOverlappingMeshes.cpp:60-62 says it is registered again (the queue drops it); two concurrent
  executions of findOverlappingMeshes mix the paths of their stages (hence the condition in
  `GroupsReported`).
- Arguments and contexts: `mapConfig` drops executionContext entries as unknown operations
  (Core.cpp:630); `getArgument` finds groups, so a configuration key that names a group is written
  through null (Operation.cpp:471, 546); C++ looks for "enums" at the top of what Python puts into
  `metadata` (Argument.cpp:179); Python's `metadata` default is shared (operation/__init__.py:124);
  `PythonOperation::execute` ignores analysisMode, mapping and checks; `analyze()` sets analysisMode on
  the caller's context and leaves it.
- Command line: `getArg` allows the word after the last (UsdOptimizeInterface.cpp:127); `-a` after an
  operation that `-an` skipped applies to the one before; what `Save` returns is not looked at, so that a stage
  that could not be saved in place exits with 0 (489-492), nor is the stream of `-j` (453-458); an unknown operation in a configuration is a
  warning and exit code 0; 2.5 for an integer is truncated where JSON rejects it.
- flattenHierarchy: names can collide when children move up (303-308), non-Xforms between Xforms go,
  what is folded into the root of a referenced prototype is lost on its instances (951).
- deduplicateHierarchies: does not compare relationship targets, may choose a prototype inside a
  non-instanceable copy; run twice it merges subtrees with different prototypes.
- organizePrototypes: nested prototypes with levels, run twice, empty the inner instance.
- deduplicateGeometry: a duplicate without a binding takes the prototype's (793); point instancers
  show hidden meshes that share a root, delete relationship targets, and lose meshes composed through
  a plain reference.
- optimizeMaterials: deletes materials that others reference or specialize (353, 545); checks only the
  first material of a group (1270); an existing reader is returned without being connected (690);
  converting twice reads an empty value (1138); an inner color can be blocked by an outer one (1597).
- removePrims: the analysis suggests "removeOrphanedOversMethod", which is registered as
  "orphanedOverRemoveMethod" (566, 240); visibility is read at the default time only.
- Utils.cpp:178-203: `_hashPrim` hashes only the property names of connections, and no samples.
- Merging and splitting: a child without binding next to one with subsets takes the other's material
  (VirtualMesh.cpp:2325); creases cut by a subset keep wrong edges (2959); `Reindexer` starts
  uninitialized (1038); plain references to merged meshes do not protect them
  (SpatialClustering.cpp:333); animated meshes are merged by vertex count against the comments
  (Bucket.cpp:594); prims below a split mesh disappear (SplitMeshes.cpp:119); the last vertex of a face
  is not looked at for collocation (MeshProcessor.cpp:218).
- optimizePrimvars: strings have no branch (334); primvars with samples only are flattened from
  nothing (601); a last face without corners is read out of bounds (244).
- editStageMetrics: limits are swapped without being negated (1563); half-precision types are listed
  but not rotated (2255); extents of corrected prims are rotated though their geometry is not;
  angular velocities of point instancers are scaled (2260); collapsing drops resetXformStack (1148).
- optimizeTimeSamples: a blocked sample is read as a value (132, 259, 314), and a single one sets an
  empty value (639); the comparison drifts by an
  epsilon per sample (265); `isHeldType` (180-206) goes by the names of types, so that types with a role
  (point3f[], vector3f[], normal3f[], color3f) and matrix4d[] count as held though USD interpolates
  them: of two equal samples `filterHeld` (212-239) removes the second, and the change that
  follows begins too early.

## Proofs

TLC checks the instances above; the theorems hold for all values of the constants.

**Report** (`ReportProofs`). `TypeCorrect` and `OrderKept` are inductive beside each other: written,
held and queued messages, put together, are always what was logged (`MoveFront` is the lemma about
sequences this rests on). That nothing is lost at the end (`Complete`) is not inductive: a queue
could be left over by a writer that has returned. The strengthening `Drained` says why it cannot -
a returned writer leaves an empty queue, and the report is closed only after the join. From the same
two facts follow `StreamOutlivesWriter` and `Refinement`: every step is a step of `AppendLog` or a
stutter (`StepRefines`), so that Report implements the safety part of the abstract log.

**Induction.** The library's induction theorems take predicates, which the provers cannot
instantiate. The lemmas of this module take the set where the predicate holds instead, and rest on
the least element of a set of numbers: induction over numbers, and what recursive functions and
the folds of the community modules satisfy. They carry everything below about folds.

**OperationExecution** (`OperationExecutionProofs`), for any operations, files and worker threads.
`LoggingLeft` needs that the outermost call, and no other, owns the logger, and that the logger is
installed as long as there is a call (`Installed`): only then does the one call that may return to
nobody put things back. `ReportAlive` is about the pointer that the logger keeps after the report
is dropped: `Covered` says that only a call past its END has a pointer without a report, `Busy` that
a thread is inside `usdOptimizeLog` only while the call on top may log (workers only while its
`executeImpl` runs), `Waiting` that every call below the top is running. So nobody logs while the
pointer dangles. That workers are done when `executeImpl` returns is an assumption of the model.
`ReportsNest` and `ReportGetsAll` are about what is in the files. `Nesting` says what each file reads
as at every point: the markers of the calls that are open there, in the order of the stack (`ReadsAs`),
which call the logger's report belongs to (`Pointed`), that the flag is up only while a message is
under way (`Flagged`) and where that goes (`Said`). A fold reads the file; a line appended
changes the reading by that line. Both assume that only the caller logs (`Workers = {}`): with
workers, finding 1 refutes `OnlyToReport`, and the lemmas on `Said` with it.

**Configurations** (`SessionProofs`), for any configurations and any number of runs. The steps of a run
are the disjuncts of `RunStep`, for any document. A process of `Session` takes such steps and its own
between runs (`ProcessStep`), so that each invariant is shown to be kept by `RunStep` once and carried
over to `SessionSpec`. `HeapSound` says, at each point of a run, which strings are allocated and that
each has one owner (the caller's context, the copy, or nobody once it is leaked); `PathOwned` reads
it off. `Cached` ties the stage cache to `inserted` and to what the caller had put there
(`CacheRestored`), `Reported` the files written so far to the two paths (`ReportFound`), and `Ordered`
what was executed to the operations of the document before `next`, all of which but the last succeeded
(`ExecutedInOrder`). `Serving` says when the command line may work beside a run: never in the middle.

**Session** (`SessionProofs`), for any plugins, scripts and files.
- `RegisteredIsUsable`: every registry made by registering, loading (folds over the plugins and their
  operations), loading again and deregistering is in `Registries`: each Python operation is
  owned by the wrapper that is kept under its name.
- `ExitCodeTells`: `Telling` relates what was told to the commands looked at while a run is under way;
  success means that all of them were, that all executions went well and that an output that is another
  file was exported. It does not mean that a stage saved in place was saved, as the code does not look. What the
  words of a command line make of the options (`WordsParse`) is a fold over the words.
- `ConfigurationsReplay`: every command line begins with the same registry (`LoadPaths(Empty, FALSE)`).
  `Replaying` says that what its executions were told is a beginning of what the commands play in that
  registry (`Plays`), and that a saved file and what is recorded of it are the same commands (a file that could not be written is as it
  was, or no configuration and nothing is recorded of it); two
  beginnings of one sequence that are equally long are equal.

- `ArgumentsReach`: what an execution reads is related to what its caller has said, in five steps.
  `Loaded` says that the table of renames is there as soon as anything is registered; `Written` and `Queued`,
  that what waits in files, in command lines and between single executions are objects of values, and
  that an operation that is held has its defaults before each of its executions (`ResetRestores`);
  `Following`, that every command of a running configuration says of each argument what its source says
  (`Alike`), however often it has been renamed by then; `Telltale`, that every execution told has
  what its source says (`Tells`). The lemmas below these are about the two folds: renaming (`MapMoves`: of the
  names of the keys looked at so far, each holds what the last key with that name holds) and
  populating (`PopulateTells`: the members for the keys looked at have what their values mean, the others
  what they had), and about clamping (`BoundedIsNearest`, `TruncatedIsNearest`).

The assumptions are about what comes from outside.
- Plugins have names and at least one operation (`PluginsAssumption`); scripts and files are sequences of
  objects whose values have types and whose numbers are numbers (`ScriptsAssumption`, `DiskAssumption`,
  `TextsAssumption`). The argument vector, a JSON array and a list of search paths are such in the code, and
  so is what std::stoi and std::stod return. Whoever calls loadPluginsFromPath has imported the package.
- `DefinitionsAssumption`: the arguments of an operation have different names, a lower bound is not above
  the upper one, and a default lies within the bounds of its argument, of which those of an integer do not lose
  anything when they are cut off. The code checks the names only (`checkArgument`, Operation.cpp:235); all
  addArgument calls under source/operations keep to the rest. Without it `resetArgs` would change a default,
  and `_clampArg` would return a value outside a bound. The operations in Python under source/operations have no
  bounds; that of a package with several arguments is shared by all of them (see `SharedMetadata`).
- `RenamedArgsAssumption`: a former name of an argument is no name of today, belongs to one argument, and comes
  before its name of today in the order of the keys. This is so for both renames of
  source/core/config/operation_mapping.json (meshPrimPaths to primPaths, gridResolution to
  maximumGridResolution), and nothing checks it: `mapOperation` takes the keys in the order of std::map, so that
  with a former name that came later in the alphabet, the former name would win when an object has both.

**Coalescer** (`CoalescerProofs`). The bound on callbacks makes the type invariant need `Typed`: while
there is a timer thread, there is room for the callback it may start. `WakeUp` is inductive by
itself, given `CutOff` (a time cut off to milliseconds is not more than the time).
`TimerGone` needs `Cancelling`: the owner only waits in order to destroy the object, and then the
object is cancelled, so that no trigger starts a timer any more. `BurstOver` needs `Burst`: the
timestamp is that of the last accepted trigger, and an uncancelled timer thread has a trigger
to answer. Assumed are `ClockAssumption` (the delay is a whole, positive number of milliseconds, as
`std::chrono::milliseconds` makes it) and that the owner is not one of the waiters.

**MeshPipeline** (`MeshPipelineProofs`). The inductive invariant `Sound` carries four theorems:
`OnMain` (only the calling thread is in the writing loop), `WritesFirst` (before the destructor's
last step there are no deletions), `Fresh` (a prim that is processed is nowhere else yet), `Resulting`
(what waits, is queued or edited has a result, and edits match it), `Kept` (unless something was
thrown, a result is on its way or handled) and `Emptied` (what is over in the later phases).
`MainThreadOnly`, `AllEdits`, `AllStats` and `DeletionsLast` read off these parts. `OncePerPrim` has an
invariant of its own, `Once`: the prims in hand, waiting, queued, kept for deletion and edited are
pairwise disjoint, and no sequence holds one twice.

**Shutdown** (in `IslandProofs`). `Looped` ties the list, the index of the loop and the history
together in the three phases (before, while and after the loop); with it `OnceInOrder` is
immediate. `NoDeadlock` and `Covered` both rest on `Flagged`: the flag
`m_shutdownCallbackRegistered` is set as long as the callback waits in the list, at most one
such callback waits, and a thread that is about to register has seen the flag unset while holding
`m_processMutex`. The flag is what keeps the opposite lock orders from meeting.

**Islands** (`IslandProofs`). `Permutation` says that the two arrays of an index set are inverse
permutations below the capacity; every operation of the set keeps it, and does to `Members` what
its name says. On it rest `Disjoint` (slots in use hold disjoint islands, slots not in use are empty,
and `node` says where each node is) and `Connected` (an island is closed under the pairs added and
every set of nodes closed under the pairs that meets an island contains it). Both are kept by `AddPair`, so that
`IslandsCorrect` holds for every execution. `UsesService` shows that each step of the composed
`OverlappingMeshes` is a step of `Shutdown` or leaves it alone, which carries the theorems about
the service over (`OperationCovered`). `ReportedGroups` needs what an execution that nobody disturbs knows of the
service at each of its steps. `Alone` says that while it is in the service nobody else is, and that every
other one under way has been disturbed; `Telling`, that the stage, meshes and clashes it looks up
are those it had processed, that the pairs added and the pairs left make up the overlaps, and that
what is named and what is left to name make up the items (`Naming`). At the end the groups by index are
carried over to paths, which is where distinct meshes need distinct paths.

**Values** (`ValuesProofs`), for any stages, units and bounds. `StageStored` is the type invariant that the
other theorems need, and the longest: every operation leaves a stage that a layer can store (`Stored`).
Attributes keep a default and finitely many samples at whole times, and a limit is named after an axis
of its schema, which is what makes the swap of limits a function. `InitialStagesAssumption` says it of the
stages to begin with. `AnalysisIsExact` shows, for one attribute, that what `AnalyzedAttribute` counts
is the difference of the samples before and after `processAttribute` (`AttributeCounted`): the
times can be ordered (`OrderedTimes`), each redundant place is one time, and a last
sample becomes the default. Sums over finite functions then carry this over to prims and to the stage
(`SumDifference`). `DuplicatesUnseen` is about value resolution: the samples around a time after the removal
and before it enclose the time in the same run of equal values or are the same two samples
(`SameBracket`), so that `ValueAt` is what it was at every time, whether held or interpolated. Its
hypotheses are that samples are blocks or rows of numbers (`Numbers`) and that the attribute is `Removable`, which
leaves out the two cases of the guards above: blocks among several samples of a type that is read unchecked
(`Readable`) and, of types the operation takes for held although they are interpolated, values that are held before
they change (`HoldsStay`). In the first the code's behaviour is undefined, in the second it changes values. `DuplicatesKeepValues` says it
for the steps of `Values`. `InterpolatedUnseen` and `InterpolatedKeepValues` say the same of removing interpolated
samples, where the samples of a type that is interpolated must have one shape (`Uniform`), as interpolating
itself asks. Each number of a sample that goes changes as fast before it as after it, so between two samples that
remain all of them lie on one line (`StraightOnLine`), and the fractions that are rounded down are equal before they
are rounded (`SameFloor`): no value differs, not even by the rounding.

`RemovalShows` carries this over to what a stage shows, in the same terms as `ShownKept`: a step that removes samples,
or one that computes extents, leaves `Shown(stage)` what it was. Attributes are authored as before and tell the same values
(`Alike`), so each matrix of an op, each local transformation and each transform of a prim is the same (`LocalSame`,
`WorldSame`). Those are folds over sequences, and are shown to be equal through the step of the fold, which needs
no induction. That a prim has its parents in the stage is part of `Stored` (`Rooted`). For the removal the
samples are numbers of one shape (`SamplesValued`), for the extents the transform order names ops (`OpsOnly`);
both are so in every state of the run.

`ExtentsStay` is about extents. A box of points that is computed at the times of their samples bounds them at every time,
between samples too: of two pairs of numbers in order, what lies between them is in order although it is
rounded (`BetweenOrdered`). So meshes, and points without widths of their own times, are bounded after `ComputeExtents`
and meshes after `CentrePivots`, which computes extents last; and what is bounded before samples are removed
is bounded afterwards.

The constants `None` and `Block` stand for no value and a blocked one. The theorems rest on
`AttributesAssumption` that they differ and are neither numbers nor values.

Only model-checked:
- Liveness (`DestructorReturns`, `TriggerAnswered`, `Ends`, `ShutdownReturns`, the fairness of
  `ImplementsAppendLog`): TLAPS does not reason about fairness. `OnlyToReport` with workers is refuted
  by finding 1.
- `ReferencesSound`, `TargetsKept`, `AppearanceKept`, `GeometrySound`, `PiecesWhole` and `SurfaceKept`: what
  prims compose and how buckets grow is written with RECURSIVE operators, which tlapm cannot read.
- `ShownKept` for changes of units and for pivots: products of matrices and rounded quotients, which are what they
  were for the exact factors of `MCValues`, and not for every number. `ExtentsBound` as a whole, for the same reason:
  whether an extent and points with samples at different times are still in order after both have been
  scaled and rounded depends on the numbers. `SamplesNeeded`: of samples that are on a line but for the
  rounding, one may be kept that the others tell.

## Not modelled, and why

- Operations that compute with floating-point geometry: remeshing, decimation, fitting, occlusion,
  normals, UV generation, shrink-wrapping, subdivision, manifold repair. There is nothing finite to
  check them against.
- Other operations on the scene: optimizeSkelRoots (a merge per skeleton), moveMaterials,
  findFlatHierarchies, removeAttributes, printStats, pythonScript, utilityFunction. Of the merge:
  skeleton joints, attributes merged as primvars, sharpness of corners, albedo as vertex colors,
  clustering with several criteria at once.
- More than one layer, variants, payloads that are not loaded, and inherits; USD itself is external and
  taken as src/ relies on it. Tolerances other than exact comparison.
- Formatting, timing, levels and wording of log messages; help texts; statistics; CUDA and memory pools.
- Searching directories for plugins and loading libraries: the registry starts with what they registered.
- Two threads calling `execute` at once: the static logger makes that unsupported, and the Python
  bindings hold the interpreter lock throughout.
- `FindOverlappingMeshes::~FindOverlappingMeshes`, which runs when no thread is left.

## What could come next

1. A variant of `OperationExecution` with two callers, to state what the static logger requires of them.
2. `moveMaterials` and `findFlatHierarchies` beside the operations of `Scene`; several layers in `Stage`.
3. Composition without recursion (a path is bounded by `MaxDepth`), which would bring lemmas about
   `Stage` within reach of TLAPS.
4. Values over rational numbers, where scaling is exact, to prove `ShownKept` and `ExtentsBound` for changes of units.
