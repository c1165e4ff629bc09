# Formal models of decent_wasm_test

`decent_wasm_test` runs a WASM benchmark under WAMR (the WebAssembly Micro
Runtime), first outside and then inside an SGX enclave, and measures what the
instrumentation of the bytecode costs. An instrumented module charges every
block it executes to a counter and leaves the guest when the counter passes a
threshold. The repository has a C++ layer over WAMR
(`include/DecentWasmRuntime`), the natives the guest imports and the host
programs (`src`), guest programs (`test/wasm`, `test/polybench`) and the script
that runs the benchmarks and parses their output
(`test/polybench/run-benchmark.py`).

This directory holds TLA+ models of it, their TLC configurations, and proofs
checked by TLAPS. Paths below are relative to the repository root.
`PROJECT.json` maps every definition to the lines it models.

To repeat a run: `tlc -config MCMainRunner.cfg MCMainRunner`; to repeat a
proof: `tlapm MainRunnerProofs.tla`.

## 1. Inventory

| Part | Where | State | Operations |
|---|---|---|---|
| Guest instance | `test/wasm/test-04/test.wat`, `*.nopt.wasm`, `WasmModuleInstance.hpp` | counter and threshold globals, the exception the instance carries, call frames | `decent_wasm_main`, `decent_wasm_injected_main`, charging a block, trapping, returning |
| Natives | `DecentWasmNatives.cpp`, `decent_wasm_natives.c` | start time, event id and data in `ExecEnvUserData` | exit, counter exceed, start/stop benchmark, event id/data, print |
| `MainRunner`, `ExecFunc` | `MainRunner.hpp`, `WasmExecEnv.hpp`, `FuncUtils.hpp` | `m_threshold`, `m_counter` | `RunPlain`, `RunInstrumented`, `ResetThresholdAndCounter` |
| Shared handles | `Shared*.hpp`, `WamrUniquePtr.hpp`, `WasmRuntimeStaticHeap.hpp`, `WasmModule.hpp`, `WasmModuleInstance.hpp`, `WasmExecEnv.hpp` | reference counts, native pointers | load, instantiate, create, copy, drop, destructors, moves |
| Guest memory | `InstMemPtr.hpp` | native and guest address, number of items | malloc, duplicate, move, free |
| `DecentWasmMain` | `DecentMain.hpp` | two runners in two scopes, loop index | 5 plain and 5 instrumented iterations, catch clause |
| Host program | `Main.cpp`, `Enclave.cpp` | file buffers, enclave id, token | read files, run outside, create the enclave, run inside, exit code |
| Script | `run-benchmark.py` | parser labels and measurements, `benchmark.json` | `collect`: run the programs of every test case, parse and record; `reproc`: parse what was recorded again |
| Printing | `SystemIO.hpp` | whether the next character starts a line | prefix every line with its environment |

How they interact: everything is one thread. `main` calls `DecentWasmMain`,
directly and then through an ECALL; `DecentWasmMain` constructs a `MainRunner`
per module, which calls the guest through `ExecFunc`; the guest calls back into
the natives, which set an exception on the instance or print; the script sees
only the exit code and the printed lines.

What is hard here is therefore not concurrency but failure and order:

- every layer can fail at every step, and failure is passed on in five
  different ways (WAMR exception, C++ exception, `bool`, a dropped `bool`, exit
  code), with state left behind at each; in the enclave a line of output may be
  lost without a sign;
- state survives a call: the globals, the exception on the instance, the two
  members of `MainRunner`, the parser's labels;
- what outlives the process is one file, which the script empties before it
  writes it;
- destructors of one chain of objects nest, and C++ runs base class and member
  destructors in an order the classes do not all account for.

The properties that make each part correct:

- *Metering*: a call that returns normally is within its budget; the reported
  counter is the true one; a failed instance gives no results; a guest that is
  charged cannot keep the host waiting.
- *Lifetimes*: what a handle reaches is alive; nothing leaks; a native resource
  is destroyed before the one it was created from.
- *Benchmark*: each reported measurement is of an iteration that ran, and of
  that iteration alone; success is reported only with all measurements; an
  incomplete output is never taken for a complete one; the whole thing ends.
- *Guest memory*: every block has one owner and is freed once, in an instance
  that exists; no pointer reaches beyond its block or through null.
- *Timing*: a printed duration is the time since the start on record, and in a
  benchmark that start is of the same call.
- *Event data*: a guest that is told its buffer has room has the whole event.
- *Owning classes*: every native resource has one owner, whatever is moved or
  assigned; the user data of an environment names that owner; a resource keeps
  its parent and its bytes until a destructor takes them.
- *Sessions of the script*: the file never holds a measurement of another output
  or of two parsers; finished test cases survive a later failure and a kill that
  does not come while the file is written; `reproc` keeps the recorded outputs.

`PROJECT.json` lists the hazards behind these, each at its line and with the
properties that watch it.

## 2. Modules

| Module | Models | State and actions in the code |
|---|---|---|
| `WasmInstance` | a guest instance during a call | `counter`, `threshold`: the two exported globals. `exception`: WAMR's, sticky. `frame`, `function`, `argument`: the call. `execRes`: result of `wasm_runtime_call_wasm_a`. `work`, `ran`: history. Actions: one per thing a guest can do, among them the two natives that end a run |
| `MainRunner` | `MainRunner` on one instance | `m_threshold`, `m_counter`; `call`, `outcome`: the last operation and how it left (normally, by an exception, by a crash). Each call of `ExecFunc` is split at the entry of the guest; guest steps happen between |
| `BudgetedCall` | the promise of `RunInstrumented` | abstract specification, no code of its own |
| `SharedHandles` | the owning classes | `handles`: shared handles of the client; `linked`: the member that refers to the parent; `native`: the WAMR resource; `stack`: destructors under way. One step per member a destructor destroys |
| `RunnerScope` | `DecentWasmMain`'s use of `SharedHandles` | `locals`: handles in C++ scopes; construction, exceptions anywhere, scope exit |
| `ResourceTree` | what WAMR's resources promise such a program | abstract specification, no code of its own |
| `OwningPointers` | `WasmModule`, `WasmModuleInstance`, `WasmExecEnv` over `WamrUniquePtr` as C++ values | `m_ptr`, `m_parent`, `m_owned`: base class and members of each variable; `alive`, `createdOn`, `given`, `userData`: WAMR's side; `op`: the half of an operation that is done |
| `TimePrintout` | the line parser of the script | one operator per kind of line; no variables |
| `DecentMain` | the whole benchmark | composes `MainRunner` and `TimePrintout` with `main`, the enclave and the script |
| `InstMemory` | `InstMemPtrObject`, `InstMemPtrArray` | `slot`: the client's variables, each vacant or a pointer with the members of the class; `allocated`, `size`: WAMR's blocks; `status`: the undefined access that was made. One action per constructor, assignment, `reset` and destructor |
| `BenchmarkClock` | `decent_wasm_start_benchmark`, `decent_wasm_stop_benchmark` | `m_startTime` of `ExecEnvUserData`; `clock`: the host's; `guest`: where the guest is; `paired`: it stops only what it started; `fresh`, `elapsed`, `wasSet`: history |
| `EventData` | the rest of `ExecEnvUserData`, with its natives | extends `BenchmarkClock`. `event`: sizes of `m_eventId` and `m_eventData`; `told`, `buffer`: what the guest knows and has copied |
| `BenchmarkSession` | `run-benchmark.py` from session to session | `file`: `benchmark.json`; `output`: the dictionary to be dumped; `pc`: the statement; `script`: the version of the parser |
| `...Proofs` (eight) | proofs about the module of that name, `EventDataProofs` also about `BenchmarkClock` | |
| `MC...` (six) | values for TLC | |

Operators and actions marked "A variant of ..." are wrong on purpose: they are
the mutants of `PROJECT.json`, used to see that each property can fail. No
specification uses them.

### WasmInstance and MainRunner

A module is reduced to its *shape*: how `decent_wasm_main` and
`decent_wasm_injected_main` fit the host's calls (`absent`, wrong `arity`,
result of a wrong `kind`, `match`), whether its blocks are charged, whether the
injected main refuses when a threshold is set (the polybench modules do:
the injected `decent_wasm_injected_main` returns 1 at once), and which globals
are exported (as the `i64` they are in every module of the repository).
Arguments and results are abstracted to whether they fit.

WAMR is not part of the repository. The model takes from how `src/` uses it,
and nothing else, that a call refused for its arity sets no exception, that
`wasm_runtime_call_wasm_a` returns false when the instance carries an
exception, and that only `wasm_runtime_clear_exception`, which the repository
never calls, removes one. These definitions are marked external.

When WAMR refuses a call, `ExecFunc` builds `WasmRuntimeException` from a null
message (`WasmExecEnv.hpp:181`). That is undefined behaviour; the model lets it
throw or crash.

### SharedHandles and RunnerScope

Objects form a forest: runtime, module, instance, and below that execution
environments and guest memory. `WasmRuntimeStaticHeap` and `InstMemPtr` destroy
their resource in the body of the destructor, the other three classes leave it
to the base class `WamrUniquePtr`, which comes after the members; this is the
one difference between the classes (`NativeFirst`). The program makes one
runtime at a time, since WAMR has one per process: the code does not enforce
it, and `CreateRuntime` is guarded accordingly.

`RunnerScope` has the two blocks of `DecentWasmMain`, each with module,
instance and environment, in the scope of the runtime.

`ResourceTree` says what `RunnerScope` comes to without handles, links and
destructors under way: resources with a place, a kind and a parent, acquired on a
parent that exists, one of each kind, and released before the parent. The
refinement maps the objects whose native resource exists (`OpenResources`).

### OwningPointers

`SharedHandles` has the owning objects behind shared pointers, as the program
does; `OwningPointers` has them as values that a client moves and assigns, which
the classes allow. A behaviour is about one of the three classes (`kind`), which
differ in their members. `Create` stands for the constructors and the functions
that call them. Move assignment and destruction run base class and members
in opposite orders, and each has a step for either. Two things the code does are
kept as they are: an object assigned to itself loses its resource
(`WamrUniquePtr.hpp:75`), and moving an environment that a move has emptied sets
the user data of a null pointer, which ends the behaviour (`"crashed"`). The
client's handles of the parents come and go by `DropParent` and `MakeParent`.

### InstMemory

The classes derive from `InstMemPtrBase`; where a derived operation only calls
the one of the base class, the action is that of both. A destructor is one
action: it destroys the values, then resets. Whether `value_type` has a
destructor that does anything is chosen once (`trivial`). `m_numItems` after
the move constructor of an array has any value, as it is not initialised.
What the language leaves undefined, destroying values through null or outside
the block or copying there, ends the behaviour, and `status` tells which it was.
Constructing values is not modelled beyond its failure, which frees the block
again. Nothing in the repository instantiates these templates: the client of
the model is any program that uses them.

### BenchmarkClock

The guests of `test/polybench` start the clock, run their kernel and stop it
(`paired`); the natives serve any guest, and the others start and stop in any
order, also stopping in one call what they started in an earlier one, or what
nobody started: then `m_startTime` is 0, the zero of the clock. Whatever ends a
guest early may come anywhere. In the enclave the clock is read
through an OCALL that may fail, which sets an exception: the guest does not
continue. The host's clock (`std::chrono::system_clock`, external) runs by steps,
wraps around, and may be set. `elapsed` measures what really passed since
`m_startTime`, and stays at `Modulus` once that is a whole round.

### EventData

An event is set by the host between two calls, its sizes are passed to the guest
as arguments, and the guest asks for the lengths and then copies into buffers
of its own. Bytes are abstracted to how many there are. Sizes are `size_t` in the
host and 32 bits in the guest, and `Narrow` is the cast. `SetEvent` has the check
that makes the cast harmless.

### BenchmarkSession

A session collects or reprocesses. Each test case of `collect` runs two programs,
parses, and writes the whole file again: `Open` empties it and `Dump` fills it, so
that a session killed in between leaves a torn file, which `reproc` cannot load.
`DecentFails` stands for everything that makes the program exit with an error,
which `DecentMain` has in detail; `Rejected` says which outputs a parser refuses,
and `EditScript` lets the parser change between sessions, which is what `reproc`
is for. A measurement names its parser and the output it is of.

### DecentMain and TimePrintout

`DecentMain` starts when both files have been read. The parser runs after the
program in reality; since it reads line after line, its state after the lines
printed so far is kept as a variable, which needs no copy of the output. A time
measurement is represented by the number of its iteration, so that a property
can tell which iteration a recorded value is of.

Which files are benchmarked is up to the caller: `benchmark` says whether their
guests time their main, and once, as those of `test/polybench` do and those of
`test/wasm/test-01` to `test-03` do not. No host code asks for it. Of the others the
model lets `decent_wasm_stop_benchmark` be called never, once or more often; their
output makes the parser raise.

`PrintStr` in the enclave drops the status of the OCALL (`SystemIO.hpp:61`): each line
printed there may get lost, and `lost` remembers that one was. What `printf` returns
outside is not looked at either (`Main.cpp:18`); there the model takes it that lines
arrive, as the script reads a pipe.

## 3. Runs

| Run | Question | Bounds |
|---|---|---|
| `main_runner` | does a caller that uses `MainRunner` in any order, going on after exceptions, keep the budget, get exact reports and no result from a failed instance? Does `RunInstrumented` implement `BudgetedCall`? Does every call into a metered module come back? | all 256 module shapes; 64-bit integers as residues of 8; costs 1 and 3; thresholds 0, 2, 4 |
| `main_runner_exit` | is the comment at `DecentWasmNatives.cpp:143` true? **No** | same, the four module shapes of the repository |
| `shared_handles` | does a handle keep its chain alive, does the last one take it down, is guest memory freed in time? | 6 objects, 2 handles to each, with symmetry |
| `shared_handles_order` | does a native resource go before that of its parent? **No** | 3 objects |
| `runner_scope` | do the scopes of `DecentWasmMain` keep that order, leave nothing behind and never hold two instances? Do they implement `ResourceTree`? | 6 objects (4 are alive at most) |
| `decent_main` | are the measurements real, of one iteration each, and do exit code, output and parser agree? Does it end? | 2 iterations; threshold 4, cost 2; 3 plain modules; all 64 metered modules with a fitting main; guests of benchmarks and others |
| `decent_main_enclave` | does success mean success in the enclave too? **No** | same |
| `inst_memory` | has every block one owner, and do the members of a pointer agree, over any sequence of operations? | 3 variables, 3 blocks, with symmetry; items of size 2; `size_t` of 16 values; `wasm_size` up to 4; 0, 1, 2, 3 or 9 items |
| `inst_memory_emptied` | is a pointer that a move has emptied left alone? **No** | 2 variables, 1 or 2 items |
| `user_data` | is a printed duration true, whatever the guest starts and stops, and of its own call in a benchmark? Has a guest that is told so the whole event? | `uint64_t` of 3 values, `uint32_t` of 4; clock steps of 1 and 2; guests that are `paired` and others; events of 0, 2, 4 and 6 bytes; buffers of 1 to 3 |
| `owning_pointers` | has every resource one owner, with its own user data, parent and bytes, through moves, assignments and destructors? | 3 variables, 2 resources, 2 parents, 2 owned objects, with symmetry |
| `benchmark_session` | is what sessions leave in `benchmark.json` consistent, complete as far as they came, and kept by `reproc`? Does a session end? | 3 test cases, 2 outputs, 2 parsers, of which one rejects one output |

Why the bounds are enough. *Integers*: a width of 8 has a counter that is
charged below, exactly at and above a threshold, one that starts above 0 because
of an earlier call, and a signed comparison that goes wrong; the headroom
assumption (below) is met with equality by threshold 4 and cost 3. *Objects*:
four make the longest chain; six allow two environments or memories below one
instance, or two modules below a runtime. *Handles*: one handle is the last one,
two are not; further copies add nothing. *Iterations*: 2 have a first one,
one after another in the same instance, and a last one; the code has 5. A call
charged twice at cost 2 is exactly at threshold 4, and a third charge is above.
*Guest memory*: three variables let a pointer be moved while another is
assigned over; the counts reach a block that is empty, partly and fully used,
one that is refused (3 items) and one whose size wraps around to a small number
(9 items). *Owning classes*: an assignment that destroys a resource needs two
resources and two variables; the third variable holds what a move of either must
not disturb. *Clock*: 3 values and steps of 1 and 2 wrap around within one benchmark,
and go around more than once between two starts; nothing bounds the time. *Events*: 0 is empty, 2 fits 32 bits, 4
would wrap to 0 and 6 to 2 if they were accepted; the buffers are smaller than,
as large as and larger than 2.
*Sessions*: three test cases have a first, a middle and a last one, and a session
killed in each; two outputs and two parsers suffice to mix them up.
The runs are complete: no state constraint is used anywhere.

The runs of `MainRunner`, `RunnerScope` and `DecentMain` have
`CHECK_DEADLOCK FALSE`, since the process may really end there: crashed,
returned from `DecentWasmMain`, or judged by the script. The runs of
`InstMemory` and `OwningPointers` have it because an undefined access ends the
behaviour. The runs of `SharedHandles`, `EventData` and `BenchmarkSession` check
for deadlock: their client, host or operator can always do something.

### Fairness

There is one thread, and the operating system keeps running it: that is weak
fairness of the steps of the thread *below its caller*, never of the client's
choice to call. In detail:

- `MainRunner!FairSpec`: fairness of call steps only when the module is
  metered. A guest that is not may loop forever, and the code has no other
  means to stop it; no fairness makes the guest choose to return, so the
  property rests on the counter. It terminates because a call charges at least
  1 each time and the charge past the threshold leaves the guest.
- `RunnerScope!ScopeSpec`: fairness of scope exit and destructors, none of the
  run of the guest.
- `DecentMain!MainSpec`: fairness of the program as a whole. Plain guests have no
  loops in the model but one that stops its clock again and again, and fairness
  takes them out of it: benchmarks are assumed to terminate; the metered
  ones are stopped by the counter.
- `BenchmarkSession!Spec`: fairness of what a session does on its own
  (`Proceed`), none of the operator or of a kill. That the programs it waits for
  end is `BenchmarkEnds` of `DecentMain`; the native one has no loop but its
  kernel.

## 4. What the checks show

*Metering.* For any module, `RunInstrumented` returns normally only within its
threshold and with an exact report, after any history of calls, resets,
half-failed resets and exceptions. The report includes what earlier calls left
in the counter (`ReportIsExact`); it is the work of the call alone only behind
a reset (`ReportIsOwnWork`, in `DecentMain`). Without the reset the guarded
modules run nothing and return normally: `InstrumentedCallRan` holds in
`DecentMain` because of the loop, not because of `MainRunner`.

*Lifetimes.* A handle keeps its chain, nothing leaks, and guest memory is freed
in a live instance, for any client. The order of destruction holds for
`DecentWasmMain` (`ScopesOrderDestruction`) and not for every client.

`ImplementsResourceTree` says the same of the whole life of the four resources.

*Owning classes.* In every sequence of moves, assignments and resets, also of an
object to itself, each resource has one owner and is destroyed once, and an
environment's user data follows it. Only a destructor leaves a resource without
its parent or a module without its bytes (`OrphanedByDestructorOnly`): that is
the order that `ParentOutlivesChild` below is about, and it is confined to the
two steps of one destructor. The bytes of a module go the same way
(`WasmModule.hpp:132`).

*Guest memory.* Ownership of blocks is right in every sequence of operations;
what goes wrong concerns the values in them. `CopyUndefined` and
`DestroyUndefined` are the steps that do: copying with the item count that a move
leaves uninitialised or as it was, and destroying values through an emptied
pointer (below).

*Timing.* The start time outlives its call, and nothing clears it. A guest that stops
what it did not start gets the time since the last start there was, or since the
zero of the clock; one that stops only what it started never gets a stale one,
because a failure to take the time ends it. A duration may be wrong
only when the host sets its clock meanwhile, or it has gone around. No event is cut short unnoticed:
sizes are checked where they are set, which is the only reason the three
casts to 32 bits on their way to the guest are harmless (`RoomMeansWhole`).

*Benchmark.* Success means that `DecentWasmMain` returned true outside and was
entered inside, also when the launch token cannot be written, and complete
measurements outside when the guests are those of a benchmark. The parser
accepts only whole runners, whatever the guests, and everything when both
environments were complete. A line lost in the enclave takes that away for the
enclave and never for the measurements outside: the parser cannot tell a run
that is missing, or one of the lines of two iterations, from a whole one.

*Sessions.* A failure, and a kill, loses nothing but the test case the session is in:
one output at most is not in the file. The exception is a kill between
the opening and the closing of `benchmark.json`, which leaves it torn and loses all
of it, earlier test cases and sessions too; `FinishedIsOnDisk` says that nothing else
does. Parsing again replaces all measurements or none and never an output.

Four properties that the repository's own text states are violated:

1. `ExitReturnsAsNormal`: the comment in `decent_wasm_exit` says that "the upper
   layer should clear the exception and return as normal"; no layer clears it,
   `ExecFunc` throws, and the instance cannot be used again.
2. `ParentOutlivesChild`: the classes keep a reference to their parent so that
   it outlives them, and give it up before the base class destroys their own
   resource. When the last reference to a parent is the child's, the parent's
   resource is destroyed first. The destructors show the intended call as a
   comment (`WasmModule.hpp:107`).
3. `SuccessMeansEnclaveMeasured`: the script takes exit code 0 for a benchmark
   that succeeded, but the result in the enclave is dropped by
   `ecall_decent_wasm_main`. `AcceptedRunnersAreWhole` shows what is left of the
   guarantee: a runner that is interrupted makes the parser raise, one that is
   missing as a whole is not noticed.
4. `EmptiedIsLeftAlone`: `reset()` looks out for a pointer emptied by a move; the
   destructor of the derived class has by then destroyed a value through it. The
   templates it is in have no instance in the repository yet.

Another disagreement needs no model: `README.md:18` of the repository runs the
program with one file, `Main.cpp:161` asks for two.

## 5. What is proved

For every value of the constants, under the assumptions TLC also evaluates:

| Theorem | States |
|---|---|
| `MainRunnerProofs!TypeCorrect` | `Spec => []TypeOK` |
| `Invariance` | `Spec => []IInv` |
| `BudgetIsRespected` | `Spec => []BudgetRespected` |
| `ReportIsTrue` | `Spec => []ReportIsExact` |
| `FailureIsFinal` | `Spec => []NoResultFromFailedInstance` |
| `Refinement` | `Spec => ImplementsBudgetedCall` |
| `OverrunBounded` | `Spec => []OverrunIsOneBlock` |
| `CallsProgress` | `Spec => [][Running => StepsLeft' < StepsLeft]_vars` |
| `SharedHandlesProofs!HandlesInvariance` | `Spec => []HInv` |
| `HandlesKeepChains` | `Spec => []HandleKeepsChainAlive` |
| `NothingLeaks` | `Spec => []NoLeak` |
| `MemFreedFirst`, `HandlesTyped` | `Spec => MemFreedInLiveInstance`, `Spec => []TypeOK` |
| `DestructorsNest`, `NoneDestroyedTwice` | `Spec => []Nested`, `Spec => []DestroyedOnce` |
| `OrphansAreInDestruction`, `FreePlacesEmpty` | `Spec => []OrphansInDestruction`, `Spec => []FreeIsEmpty` |
| `DestructorsProgress` | `Spec => [][stack # <<>> => Destructs]_vars` |
| `InstMemoryProofs!MemoryInvariance` | `Spec => []IInv` |
| `MemoryTypes` | `Spec => []TypeOK` |
| `BlocksAreOwnedOnce` | `Spec => []OneOwner` |
| `PointersStayWhole` | `Spec => []MembersAgree` |
| `ObjectsStayInside` | `Spec => []ObjectsHaveRoom` |
| `OnlyWrappedArraysLackRoom` | `Spec => [][NewArraysFit]_vars` |
| `EventDataProofs!ClockInvariance` | `Spec => []CInv` (of `BenchmarkClock`) |
| `IntervalsAreOwn`, `DurationsAreTrue` | `Spec => []IntervalInOwnCall`, `[]DurationIsElapsed` |
| `EventInvariance` | `EventSpec => []EInv` |
| `EventsAreWhole` | `EventSpec => []RoomMeansWhole` |
| `EventKeepsTime` | `EventSpec => Spec` (of `BenchmarkClock`) |
| `IntervalsStayOwn`, `DurationsStayTrue` | `EventSpec => []IntervalInOwnCall`, `[]DurationIsElapsed` |
| `UserDataTyped` | `EventSpec => []EventTypeOK` |
| `OwningPointersProofs!PointersInvariance` | `Spec => []PInv` |
| `PointersTyped`, `ResourcesOwnedOnce` | `Spec => []TypeOK`, `[]OneOwner` |
| `UserDataIsCurrent` | `Spec => []UserDataNamesOwner` |
| `MembersFollow` | `Spec => []MembersBelong` |
| `AssignmentsKeepOrder` | `Spec => []OrphanedByDestructorOnly` |
| `RunnerScopeProofs!ScopeInvariance` | `ScopeSpec => []SInv` |
| `ScopesUseHandles` | `ScopeSpec => Spec` (of `SharedHandles`) |
| `ScopesTyped`, `OneInstance` | `ScopeSpec => []ScopeTypeOK`, `[]OneInstanceAtATime` |
| `NothingIsLeft` | `ScopeSpec => []NothingLeftAtReturn` |
| `ScopesKeepOrder` | `ScopeSpec => ScopesOrderDestruction` |
| `ScopesImplementTree` | `ScopeSpec => ImplementsResourceTree` |
| `ScopesProgress` | `ScopeSpec => [][ScopesShrink]_allVars` |
| `DecentMainProofs!MainInvariance` | `MainSpec => []DInv` |
| `MainTypes`, `CallsRan` | `MainSpec => []MainTypeOK`, `[]InstrumentedCallRan` |
| `ReportsOwnWork` | `MainSpec => []ReportIsOwnWork` |
| `SuccessMeasured` | `MainSpec => []SuccessMeansUntrustedMeasured` |
| `AcceptedWhole` | `MainSpec => []AcceptedRunnersAreWhole` |
| `CompleteAccepted` | `MainSpec => []CompleteRunsAreAccepted` |
| `RunnerUsedAsSpecified` | `MainSpec => [][NewRunner \/ Next]_vars` |
| `RunnerPromisesKept` | `MainSpec => [](BudgetRespected /\ ReportIsExact /\ NoResultFromFailedInstance)` |
| `OverrunInProgram` | `MainSpec => []OverrunIsOneBlock` |
| `ProgramMakesBudgetedCalls` | `MainSpec => Abstract!Init /\ [][Abstract!Next \/ Abstract!Init']_(Abstract!bvars)` |
| `BenchmarkProgress` | `MainSpec => [][Shrinks]_allVars` |
| `BenchmarkSessionProofs!SessionInvariance` | `Spec => []BInv` |
| `SessionTypes`, `FileIsMeasured` | `Spec => []TypeOK`, `Spec => []MeasuredFromRaw` |
| `FinishedIsKept`, `DoneMeansComplete` | `Spec => []FinishedIsOnDisk`, `Spec => []DoneIsComplete` |
| `ReprocKeepsOutputs` | `Spec => ReprocKeepsRaw` |
| `EndsAsPromised` | a step of `Spec` that ends a session ends it as `SessionEnds` says |
| `SessionsProgress` | `Spec => [][pc # "idle" => StepsLeft' < StepsLeft]_vars` |

Assumptions: `Modulus` is a positive number (`ModulusAssumption`); costs are
positive and, like thresholds, fit the width (`CostsAssumption`,
`ThresholdAssumption`); modules are shapes (`ModulesAssumption`); one charge
above a legal counter does not wrap around (`HeadroomAssumption`: the code
passes half of the range as its threshold, and no block costs the other half);
`NoObjectAssumption`, `MaxHandlesAssumption` and, in `InstMemory`,
`NullAssumption` and `CountsAssumption` only exclude nonsense. An item has a size
that fits `wasm_size` (`ItemAssumption`), which fits `size_t`
(`SizesAssumption`); the clock runs by less than a round in one step
(`StepsAssumption`). `EventData` asks for a width of the guest's integers and
buffers that fit it (`WasmModulusAssumption`, `LensAssumption`) and lets events have
any size (`EventSizesAssumption`). The program is run with at least one iteration
(`RepeatAssumption`) on modules of the shapes above (`FilesAssumption`).
A session has at least one test case (`CasesAssumption`); what a parser rejects
(`RejectedAssumption`) matters to no proof.
`HeadroomAssumption` is the one that is needed and not obvious: without it a
charge may wrap around to a small counter, and both `BudgetRespected` and
`ReportIsExact` fail.

*MainRunner.* The properties speak of the moment a call returns and are not
inductive. `IInv` adds what holds during the call: the frame, the call and the
outcome agree (`CallMatchesFrame`); while the guest is in the body of an
instrumented call, the counter is what was carried in plus the work and within the threshold, or
an exception is set (`ChargesAccounted`); the counter never exceeds some budget
without an exception (`CounterWithinSomeBudget`), which is where the headroom
is used; success means that no exception is set (`SuccessMeansHealthy`). Only a
charge disturbs all of them, and has a lemma of its own. The
proofs go action by action. `Refinement` maps `RunInstrumented` to `Start` or
`Refuse`, charges to `Spend`, the return to `Complete` or `Fail`, and the other
operations to `Forget` or a stutter; `Complete` needs `BudgetRespected` and
`ReportIsExact` in the state after the step, which is why they come first.

`BudgetRespected` is about calls that return. `OverrunIsOneBlock` is about the
others too: however a call ends, the work it did is at most its threshold and one
block, since the comparison follows every charge.

*SharedHandles.* `HInv` says: references are typed (`LinksTyped`), what is
referenced is intact (`ReferencedIntact`), what is in destruction is not
referenced (`DestructedUnreferenced`), what is neither does not exist
(`NothingForgotten`), and guest memory keeps its instance
(`MemKeepsInstance`). `HandleKeepsChainAlive` follows from
`ReferencedIntact` along the chain; it is not inductive alone since it says
nothing of objects that are held only by other objects. `Nested` says what the
stack of destructors looks like: one that runs inside another is that of its
parent, one level up, and the other has given its reference up. With `HInv` it
bounds the stack by four. `OrphansInDestruction` is what remains of
`ParentOutlivesChild` (finding 2) for every client: only a module, an instance or
an environment is ever without an ancestor's resource, and only between the two
halves of its own destructor. The client never sees such an object.

*InstMemory.* `IInv` is type correctness, `OneOwner` and `MembersAgree` (together
`OInv`), and `VacantOwnsNothing`: a variable that is not in use holds no block, so that a
pointer can be made or moved into it without a loss. Each operation that touches
blocks has a lemma of its own. `ObjectsHaveRoom` needs that moves keep the size of an
object (`ObjectsFit`); for arrays it is false, as `m_numItems` does not follow a
move. What holds of arrays is that a new one lacks room exactly if
`n * sizeof(value_type)` has wrapped around (`OnlyWrappedArraysLackRoom`).

*BenchmarkClock.* `CInv` adds to the two properties that a paired guest only computes
behind a start time of its own (`KernelIsTimed`) and that the clock is ahead of
`m_startTime` by what has elapsed, modulo the width, unless it was set or has gone
around (`ClockIsAhead`). Two lemmas on arithmetic carry the proof: two steps of the
clock are one (`LaterTwice`), and the unsigned difference of two readings is what
lies between them (`DurationOfLater`).

*EventData.* `EInv` is that an accepted event fits the guest's integers
(`EventFits`) and that the sizes the guest was told in this call (`ToldTrue`) and
its copies (`CopiesTrue`) are those of the event. Every step is a step of
`BenchmarkClock` or leaves its variables alone, which gives `EventKeepsTime` and
with it the theorems on time.

*BenchmarkSession.* `BInv` says, for each statement the script can be at, what the
dictionary holds: while a session collects, the outputs of the finished test
cases and, past the programs, the one it works on (`CollectsInOrder`); while it
reprocesses, the outputs of the file it began with (`ReprocsAll`); and how many of
them are measured, all by the parser of this session (`MeasuredSoFar`). That is
what is dumped, so `MeasuredFromRaw`, `FinishedIsOnDisk` and `ReprocedFile` follow
at `Dump`; every other step leaves the file or tears it. `NeverEmpty` is needed
because `finished` becomes the length of the dictionary: a file without outputs
would make a `reproc` that wrote it look like one that wrote nothing.

*OwningPointers.* The four properties hold between operations; `PInv` says what
holds in the middle of one. `Holder(s)` is the variable that has, at the moment, the
members belonging to the resource of `s`: during an assignment that is the source
of the move. `OperationsFit` says which operation may be half done, `Named` and
`Belongs` state user data and members in terms of `Holder`, of resources that
exist. A lemma for each half of an operation.

*RunnerScope.* `SInv` extends `HInv`: the handles in scope form the chain from
the runtime down (`ScopesChain`), nothing else has a handle (`OnlyInScope`), at
most one object is in destruction, and it is the one that was lowest
(`OneInDestruction`), nothing else exists (`NothingElse`, `FreeIsEmpty`), and the
stage tells how long the chain is (`StageAgrees`). A destructor of the lowest
object therefore never takes its parent with it: `ScopesOrderDestruction`
and the refinement of `ResourceTree` both follow from that. `ScopesUseHandles`
carries over what is proved of `SharedHandles`.

*DecentMain.* `DInv` has `IInv` of `MainRunner` and what relates the loop, the runner,
the output and the parser: a call of the runner is under way only in its place
(`CallInPlace`); an instrumented iteration begins with both globals reset
(`IterationIsFresh`), from which `InstrumentedCallRan` and `ReportIsOwnWork`
follow; while the program runs the parser has understood everything printed, has
exactly the finished iterations of each run, and has of the current one what
was printed so far (`OutputUnderstood`), as long as it is `Intact`: no line is lost and
none was refused; what was measured outside stays what it is once the program is in
the enclave, where alone lines are lost (`UntrustedSecured`); what is known behind exit
code 0 (`ExitJudged`) and of the verdict (`ScriptJudged`). The parser has one lemma per
kind of line, which the steps that print use; `Finished` counts the iterations.
A conclusion with failure in the enclave is the case that needs care: the program
exits with 0, the parser is at rest or within a run, and only at rest is the
output accepted. Once the output is spoilt, only `UntrustedSecured` is left to keep,
and one lemma does that for every step (`SpoiltJudged`).

*Progress.* Liveness is a matter of fairness and of steps that get somewhere. The
second half is proved: in each of the five components that have to end, every
step decreases a measure in the natural numbers, or tuples of them in
lexicographic order, so that no behaviour has infinitely many of them.

| Theorem | Measure | Property it is the core of |
|---|---|---|
| `CallsProgress` | what may still be charged before the comparison fails, and the return | `CallCompletes` |
| `DestructorsProgress` | levels above the innermost destructor; depth of the stack; its own resource | `UnwindingEnds` |
| `ScopesProgress` | stages; scopes to enter or leave; the destructors | `UnwindingEnds` |
| `BenchmarkProgress` | runners; iterations; steps of an iteration, the call's among them, and what stopping the clock once more can change | `BenchmarkEnds` |
| `SessionsProgress` | five for each test case that is not finished, and the place within it | `SessionEnds` |

The measures are typed by lemmas next to them (`StepsLeftTyped`, `LeftTyped`,
`ScopesLeftTyped`). `CallsProgress` holds of every module because the model gives a
guest that is not metered no loop (section 3, fairness).

*Abstractions in the program.* `RunnerUsedAsSpecified` carries the theorems about
`MainRunner` over to `DecentMain`. `ProgramMakesBudgetedCalls` does the same for the
refinement: the program makes budgeted calls, and is set back to the initial state
of `BudgetedCall` only by the construction of a runner, which `BudgetedCall` alone
does not have.

Only model-checked: the liveness properties themselves (`CallCompletes`,
`UnwindingEnds`, `BenchmarkEnds`, `SessionEnds`). To get them from the progress
theorems takes that some step is enabled, and induction along the measure;
TLAPS has neither ENABLED nor an induction principle that the backends here can
instantiate. Every other property of a passing run is proved.

## 6. Not modelled

- Values of arguments and results, wording and layout of the output: nothing in
  the program depends on them. `InsertMsgHeader` of `SystemIO.hpp` and the
  conversions of argument lists in `FuncUtils.hpp` are among them; whether a list
  fits a function is modelled.
- A global of the right name and another type, which no module of the repository has.
- The natives `decent_wasm_print_string`, `decent_wasm_sum` and
  `emscripten_memcpy_js`, which keep no state.
- The bytes of the module files and of the launch token. The token is written
  and never used again (`Main.cpp:98` reads it into a buffer that is dropped), so
  that no behaviour depends on what is in it; that it cannot be written is a
  failure in `DecentMain` and `BenchmarkSession`.
- What the getters of `MainRunner` show after an exception (`MainRunner.hpp:80`: the
  new threshold with an older counter) is in the model, and no property asks for it,
  as no code reads it.
- What happens to a native address when the guest grows its memory: WAMR decides,
  and no code of the repository keeps an `InstMemPtr` over a call.
- `Exceptions` as classes: they carry a text; where one is thrown and caught is
  part of every model.
- The script's scheduling and the text of its JSON; `ParseOneEnvTimePrintout`,
  which nothing calls; `plot-graph.py`; build files.
- WAMR, the SGX SDK and the instrumentation tool, which are not part of the
  repository.

## 7. Plan

Done: every module and proof above. What is left:

1. `FuncUtils`: the conversion of argument and result lists as an algorithm,
   checked against a reference (round trip, kind check, width).
2. `MsgHeader`: `InsertMsgHeader` against a reference definition (every line has
   exactly one header), over all short strings and all ways to split them into
   calls.
3. `GrowingMemory`: the native address of `InstMemPtr` over a growth of memory,
   once a client keeps one over a call.
