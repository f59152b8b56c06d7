# Verification models of abrt-java-connector

TLA+ models of the JVMTI agent in `src/src/abrt-checker.c`, the TLC runs that
check them, and TLAPS proofs.

## The system

The agent is loaded into a JVM (`Agent_OnLoad`). It registers JVMTI callbacks
and reports Java exceptions to ABRT, syslog, journald and a log file. Its core
is an exception correlation and deduplication engine made of three callbacks
and two per-thread maps:

* `threadMap`: tid -> ring buffer (`jthrowable_circular_buf`, capacity
  `REPORTED_EXCEPTION_STACK_CAPACITY`) of exceptions already reported on that
  thread, so a rethrown or caught exception is not reported again.
* `uncaughtExceptionMap`: tid -> `T_exceptionReport`, the *postponed* report of
  an exception thrown with no Java handler. It is postponed because native code
  may still catch the exception.
* `callback_on_exception` (the JVMTI Exception event). A throw with a Java
  handler is reported at once only if its class is on
  `reportedCaughExceptionTypes`, and is then pushed into the ring. A throw
  without a handler becomes the thread's postponed report, replacing any
  earlier one.
* `callback_on_exception_catch` (the ExceptionCatch event). If the caught object
  `equals` the postponed one, the report is popped. It is reported as "Caught"
  only if its class is listed and the ring does not hold it.
* `callback_on_thread_end`. Pops both maps and reports the postponed exception
  as "Uncaught" unless the ring holds it.

The tid is `Thread.getId()`, read through JNI by `get_tid`. When that fails the
handlers keep tid 0. The exception and catch callbacks run under the raw
monitor `shared_lock`. `callback_on_thread_end` takes no lock. JVMTI delivers
an event on the thread it happens in, so one thread's events are sequential
and different threads' events interleave. Every JVMTI/JNI lookup and every
`malloc` may fail; the code then skips the rest of the handler.

Around the engine are collaborators that only produce text:
* the reason formatter (`format_exception_reason_message`, `format_class_name`);
* stack-trace generation (`generate_thread_stack_trace` and the functions it calls);
* debug information (`collect_additional_debug_information`, `get_main_class`, `/proc` reads);
* report delivery (`report_stacktrace`, `register_abrt_event`);
* logging and option parsing.

## Modules

| Module | Models |
|---|---|
| `ExceptionTracker` | the three callbacks, both maps, the rings, and the JVM events that trigger them |
| `MC_ExceptionTracker` | model values for TLC: threads `t1,t2`, fallback tid `tid0`, exceptions `e1,e2` (listed class) and `e3` (unlisted class) |
| `ExceptionTracker_proofs` | TLAPS proofs of type correctness and of `BufferOnlyReported` |
| `ExceptionReporting` | the abstract per-thread protocol the callbacks promise (spec P3, P4, P7): one pending record per thread, resolved by its own catch or reported after the thread ends |
| `ExceptionTracker_refinement` | TLAPS proof that `ExceptionTracker` implements `ExceptionReporting` |
| `ExceptionTracker_safety` | TLAPS proofs of `EndedThreadClean` and `UncaughtDeathReported` |
| `ExceptionTracker_dedup` | TLAPS proofs of `NoDuplicateReport` and of the action property `RingKeepsReported` |
| `ReasonFormatter` | `format_exception_reason_message`'s shortening loop and the class names `format_class_name` gives it |
| `MC_ReasonFormatter` | short class signatures (with and without packages) and method names |
| `ReasonFormatter_proofs` | TLAPS proof of `MessageAsSpecified` |
| `StackTraceBuffer` | the write offset of `generate_thread_stack_trace`, `print_exception_stack_trace` and `print_stack_trace_element` in their fixed buffer |
| `MC_StackTraceBuffer` | piece lengths that reach every offset near the end of a scaled buffer |
| `DebugInfo` | `collect_additional_debug_information`'s vector of (label, data) pairs and `info_pair_vector_to_string`'s rendering of it |
| `MC_DebugInfo` | configured lists of up to three debug methods |
| `StackTraceBuffer_proofs` | TLAPS proof of `OverflowOnlyAfterOobRead` |
| `DebugInfo_proofs` | TLAPS proofs of the two vector properties |

### ExceptionTracker: state

| Variable | Code |
|---|---|
| `threadMap[k]` | `jthread_map_get(threadMap, k)`: a sequence of exceptions of length <= `Capacity`, or `NoBuf` |
| `uncaughtExceptionMap[k]` | the `exception_object` of the postponed `T_exceptionReport` under key `k`, or `NoExc` |
| `pc[t]`, `held[t]` | the program counter inside `callback_on_thread_end` and the `rpt` it popped |
| `snapU[t]`, `snapB[t]` | the map contents a non-atomic pop read, written back later (see `ThreadSafeMaps`) |
| `flying[t]` | the JVM side: the exception propagating on `t` and whether a Java handler exists (`catch_method != NULL`) |
| `reports` | every `report_stacktrace` call: thread, exception, and Caught or Uncaught |
| `thrown`, `diedOf`, `resolved`, `throws` | history used by the properties, and the bound on throws |

Keys are `Threads ∪ {FallbackTid}`. Entries stored under the fallback tid 0 are
modelled because the code really stores them there.

### ExceptionTracker: actions

* `Throw(t,e,known)` is the JVM throwing. It runs the whole of
  `callback_on_exception` as one step (it holds `shared_lock`). The nondeterministic
  outcomes are: the class-name lookup (`typeOk`), `get_tid` (tid or the fallback
  0), the three JVMTI lookups (`lookupsOk`), `malloc` of the report (`allocOk`),
  and the creation of the ring (`RememberReported`).
* `Catch(t)` is a Java handler catching. It runs the whole of
  `callback_on_exception_catch` as one step. That covers the unlocked emptiness
  test, the first `get_tid`, the `equals` lookup and call (`equalsOk`), the pop,
  and `ReportResolved`: the class test, the second `get_tid`, the lookups, the
  report and the push.
* `NativeClear(t)` is native code clearing an exception that had no Java
  handler. It raises no event.
* `ThreadEnd(t)` ends the thread and runs `ThreadEndBegin`: the emptiness test
  and `get_tid`, returning early when either says so.
* `ThreadEndPopReport(t)` is the pop of `uncaughtExceptionMap`.
* `ThreadEndPopBuffer(t)` is the pop of `threadMap` and the "Uncaught" report.

`callback_on_thread_end` holds no lock, so it is split into three steps that
other threads' callbacks interleave with. `jthread_map` is not under `src/`,
and the spec says it "is not independently thread-safe". The constant
`ThreadSafeMaps` chooses between two readings:
* `TRUE`: each map operation is atomic;
* `FALSE`: a pop reads the map in one step (`snapU`/`snapB`) and writes back
  the map it read minus its own entry in a later step.

The ring (`jthrowable_circular_buf`, also outside `src/`) is modelled from the
spec: `BufPush` appends and drops the oldest element when full, and `BufFind`
tests membership.

## Properties and runs

All runs use two threads, three exceptions and two classes (one listed). Two
threads are the fewest in which callbacks interleave. Three exceptions with two
listed make the ring overflow at capacity 1 and fill at capacity 2. `MaxThrows`
(3 or 4) lets one thread throw, rethrow and throw again while the other runs.
The program may stop when every thread has ended, so deadlock is not checked.
`ThreadSymmetry` is used in every run but core.

| Run | cfg | Checks | Result |
|---|---|---|---|
| core | `MC_ExceptionTracker.cfg` | `NoDuplicateReport`, `UncaughtDeathReported`, `EndedThreadClean`, and the action property `RingKeepsReported`; no failures, atomic maps, capacity 2, 4 throws, no symmetry | pass (≈327k states) |
| faults | `MC_ExceptionTracker_faults.cfg` | `TypeOK`, `BufferOnlyReported`, `ImplementsReporting`; every failure possible, capacity 1 | pass (≈415k states) |
| race | `MC_ExceptionTracker_race.cfg` | `UncaughtDeathReported` with `ThreadSafeMaps = FALSE` | violation |
| native | `MC_ExceptionTracker_native.cfg` | `NoFalseUncaught` | violation |
| equals | `MC_ExceptionTracker_equals.cfg` | `ImplementsReporting` with an `equals()` of `e2` that holds of `e1` | violation |

What the runs show:
* `NoDuplicateReport`: across the throw, catch and thread-end callbacks, an
  exception is reported at most once per thread while the ring can hold every
  reportable exception. When the ring overflows, duplicates are expected.
  A failed buffer creation (line 1501) also forgets the report: TLC finds a
  duplicate once the "alloc" fault is added to core.
* `UncaughtDeathReported`: a thread that died of an uncaught exception has it
  reported. It holds with atomic maps and no failures. It fails with
  non-atomic maps:
  * **race**: `t1`'s thread end reads `uncaughtExceptionMap`. `t2` then
    postpones a report, and `t1` writes back the map without it. `t2` dies
    unreported. This happens because `callback_on_thread_end` does not take
    `shared_lock`, while spec §5 says all mutation happens under one lock.
  A failed `malloc` of the report (line 2387) also drops it silently. The
  model has that outcome (`allocOk`), but no run checks it.
* `EndedThreadClean`: no map entry of a thread outlives its thread end (spec §3).
* `RingKeepsReported` (an action property): while the ring can hold every
  listed exception, no step removes an exception from the ring of a thread
  whose end callback is not done. The push at line 2426 never overwrites an
  entry, and the deduplication never forgets a report.
* `BufferOnlyReported`: the ring holds only exceptions already reported on its
  thread. So deduplication never hides an exception that was never reported,
  under any failure and either map reading. It is also proved (below).
* `ImplementsReporting`: the callbacks implement `ExceptionReporting` (below).
  It holds under every collaborator failure, both map readings being atomic.
* **equals**: `t1` throws `e1` with no handler, so `e1` is postponed. Native
  code clears it. `t1` then throws `e2`, which has a handler, and `e2` is
  reported. The catch of `e2` calls `e2.equals(e1)` (line 2516). When a class
  overrides `equals`, this pops `e1` and reports it as "Caught", on a catch of
  another exception. The spec's P7 says a catch resolves only its own record.
* The catch pops the postponed report and reports it only when its class is
  listed (lines 2531-2533). Spec 4.3's on-catch step 3 re-evaluates the
  allow-list the same way, and the comment at 2527-2529 says so, so no run
  treats the drop of an unlisted class as an error.
* **native**: an exception that native code cleared is still reported as
  "Uncaught" at a normal thread end, despite the comment at line 2385.

Each property of a passing run has a mutant in `PROJECT.json`: a plausible bug
in a mapped definition that TLC finds. The mutants are:
* a push only into a newly created ring, or one past the capacity;
* a push that keeps the first postponed report;
* a new ring created after a report even when the thread has one (the test
  `NULL == threads_exc_buf` dropped; killed by `RingKeepsReported`);
* a thread end that pops the ring only when a report was postponed;
* a catch that remembers an unreported exception;
* an emptiness test of `threadMap` alone;
* a catch that ignores the result of `equals` (killed by `ImplementsReporting`).

## The abstract protocol and the refinement

`ExceptionReporting` has four variables:
* `reports`, the reports made;
* `pending[t]`, the exception of `t`'s one pending record;
* `flying[t]`, the exception being propagated;
* `ended[t]`.

Its actions are `OnThrow`, `OnCatch`, `OnNativeClear`, `OnThreadEnd` and
`ReportUncaught`. Whether a report is made is left open, because class listing,
deduplication and failed look-ups decide it. What is fixed is:
* which exception a report names;
* on which event the report is made;
* that a pending record changes only on its own thread's throw, on a matching
  catch, or after the thread ends.

`ExceptionTracker` maps onto it as follows:
* `pending[t]` is `uncaughtExceptionMap[t]`. Between the two pops of the end
  callback, it is instead the record the callback holds (`pendingBar`).
* `ended[t]` holds once `callback_on_thread_end` has started (`endedBar`).
* `reports` and `flying` map to themselves.

The pop of `uncaughtExceptionMap` is then a stutter. The "Uncaught" report is
`ReportUncaught`. The run `faults` checks `ImplementsReporting ==
Reporting!Spec`. The runs `race` and `equals` show the two ways the refinement
breaks:
* a non-atomic pop loses another thread's record;
* an overriding `equals` resolves the wrong record.

## ReasonFormatter

`format_exception_reason_message` (lines 823-867) renders
`"<Caught|Uncaught> exception <exc> in method <cls>.<method>()"` into
`MAX_REASON_MESSAGE_STRING_LENGTH` bytes and, while it does not fit, drops the
class's package, then the exception's package, then the class. Names are
sequences of characters. `format_class_name` is modelled on them ('L'
skipped, '/' to '.', the final ';' replaced). The fixed words of the message
are runs of a filler of their real length. One action per branch of the loop:
`Return`, `DropClassNameSpace`, `DropExceptionNameSpace`, `DropClassName`,
`ReturnTruncated`, and `NullDeref`, the `strrchr(NULL, '.')` on a NULL type
name. `Init` is the two callers: the throw callback passes the class name with
its last character cut and a type name that may be NULL; the catch callback
passes neither.

The limit is scaled from 255 to 36 with the names, so that every branch is
taken. The branch `message_len <= 0` cannot be taken (snprintf never fails on
these formats) and is not modelled.

| Run | Checks | Result |
|---|---|---|
| formatter | `MessageAsSpecified` (the message equals an independent reference: the first of the four candidates of spec 4.4 that fits, else the last truncated), `FormatterTerminates` | pass |
| formatter_null | `NoNullDereference` | violation: when the class lookup failed, a long message whose class has no package crashes the JVM at line 852 |

## StackTraceBuffer

The trace is built in one buffer of `MAX_STACK_TRACE_STRING_LENGTH + 1` bytes:
thread header, exception line, frame lines, and per cause `"Caused by: "`
and the cause's lines. A piece is its length. Each `snprintf(buf + wrote,
MAX - wrote, ...)` is followed by the test `buf[wrote-1] != '\n'` with
`wrote` the length snprintf *would* have written. For a whole text it reads
the text's '\n'. For a text one byte too long it reads the NUL snprintf
wrote, and for two bytes too long calloc's 0 at byte MAX. For anything longer
it reads past the buffer. That byte is undefined, and the constant
`OobNewline` lets it be '\n'. `MAX - wrote` is an int passed as `size_t`: if
it is negative, the model takes it as unbounded. The ghosts `oobRead` and
`oobWrite` record an access past the buffer, and `out` the pieces kept.

`Max` is scaled from 10000 to 40. The lengths are chosen so that a piece can
fit, be one or two bytes too long, or be far too long, and so that the cause
header can land with exactly 10 or 11 bytes left.

| Run | Checks | Result |
|---|---|---|
| stacktrace | `OverflowOnlyAfterOobRead`, all failures, `OobNewline` | pass |
| stacktrace_overflow | `NoHeapOverflow` | violation: a frame or line truncated by two or more bytes makes the test read past the buffer. If that byte is '\n', the offset passes the end and the next write overruns the heap |

The pass run shows that the code's own size tests are exact. The header test
at line 2110 and the '\n' test keep every write inside the buffer, except
after an out-of-bounds read. `generate_stack_trace`
and `print_one_method_from_stack` are compiled only under
`GENERATE_JVMTI_STACK_TRACE`, which the build does not define, and are not
modelled.

The model also keeps a path that no run checks. `CauseHeader` appends
`"Caused by: "` before the cause's line is known to fit. When that line is
then cleared, the returned trace ends with the bare header (line 2131).

## DebugInfo

For every report, `callback_on_exception` calls
`collect_additional_debug_information`. That function calls each configured
static method `name.space.Class.method` and stores the Strings in a vector of
`cnt + 1` pairs, ended by a NULL label. `report_stacktrace` and
`register_abrt_event` render the vector with `info_pair_vector_to_string`.
A label and a datum are their lengths. The vector is a function from C indices
0..cap-1, so a write past it is recorded (`vecOverflow`) and not lost. The
loop has one action per outcome:
* `NameDupFails`: strdup of the name fails, and the loop breaks;
* `EntrySkipped`: the entry has no '.', the class is not loaded, the method is
  missing, or the call throws;
* `NullString`: the method returns null;
* `DataDupFails`: the label is stored, strdup of the data fails, and the loop
  breaks;
* `Collected`: the pair is stored.

`Terminate` writes the terminator. `StringAlloc`, `WriteLine` and `WriteEnd`
are the two loops of `info_pair_vector_to_string`. `Init` chooses one of
several configured lists, so that a list whose every method answers fills the
vector up to its terminator.

| Run | Checks | Result |
|---|---|---|
| debuginfo | `VectorWithinAllocation`, `VectorMatchesCalls` | pass |
| debuginfo_overflow | `NoStringOverflow` | violation: `malloc(required_bytes)` leaves no byte for the last NUL, and `to_write` is never decreased, so two pairs or more overflow the block by one byte |

`NullString` keeps another path no run checks. A debug method that returns
null without an exception is passed to `GetStringUTFChars` (line 1421), which
dereferences it.

## Fairness

The one liveness property is `FormatterTerminates`, checked under
`WF_vars(Next)` of `ReasonFormatter`: `format_exception_reason_message` never
waits, so once called it keeps taking steps. The ExceptionTracker runs assume
no fairness: a thread may throw forever or never end, and the end callback
runs three steps without a lock, so its termination says nothing beyond
`UncaughtDeathReported`.

## Proofs

`ExceptionTracker_proofs` proves, for every value of the constants allowed by
`ConstantsAssumption`:
* `TypeCorrect`: `Spec => []TypeOK`. In particular, no ring exceeds
  `Capacity`, for every capacity >= 1.
* `BufferOnlyReportedHolds`: `Spec => []BufferOnlyReported`.

Both hold with any set of `Faults` and with `ThreadSafeMaps` TRUE or FALSE.

`ExceptionTracker_refinement` proves `RefinementHolds`: `Spec =>
ImplementsReporting`. It holds for any `Faults` and assumes `ThreadSafeMaps`
and `EqualsOverrides = {}`. The two runs above show that the theorem fails
without each assumption: `race` without `ThreadSafeMaps`, and `equals` with an
overriding `equals`.

The proof uses the inductive invariant `RInv == IInv /\ PoppedCleared`.
`PoppedCleared` says that a thread between its two pops has no entry left in
`uncaughtExceptionMap`. Without it, another thread's step could not be shown to
leave `pendingBar` of that thread unchanged. The proof has three parts:
* `InitMaps` shows that an initial state maps to an initial state.
* One lemma per action maps that action's step to an abstract step or a
  stutter: `ThrowMaps`, `CatchMaps`, `NativeClearMaps`, `ThreadEndMaps`,
  `PopReportMaps` and `PopBufferMaps`.
* `RefinementStep` combines those lemmas, and the theorem follows by PTL.

Both theorems rest on the inductive invariant
`IInv == TypeOK /\ BufferOnlyReported /\ SnapshotsOnlyReported`.
`BufferOnlyReported` alone is not inductive. A non-atomic pop in
`callback_on_thread_end` writes back the `threadMap` it read earlier, so the
proof also needs the rings in those snapshots to hold only reported exceptions
(`SnapshotsOnlyReported`). This holds because reports are never retracted.
TLC checked `IInv` as an invariant (1.75M states, all faults, non-atomic maps,
capacity 1) before it was proved.

The proof has:
* `InitIInv`;
* one lemma per action (`ThrowStep`, `CatchStep`, `NativeClearStep`,
  `ThreadEndStep`, `PopReportStep`, `PopBufferStep`), combined in `IInvStep`;
* lemmas about the helpers: `BufPushProps` (a push keeps the bound and adds
  only the pushed element), `EmitProps` (reports only grow) and
  `RememberProps` (remembering keeps the rings sound, including under the
  fallback tid).

`StackTraceBuffer_proofs` proves, for every buffer size, header length and set
of piece lengths allowed by `StackTraceAssumption`:
`OverflowOnlyAfterOobReadHolds`: `Spec => []OverflowOnlyAfterOobRead`.

It rests on `InBounds`: while no test has read past the buffer, the offset is
at most `Max`, nothing was written past it, and every kept piece is whole.
`InBounds` is what makes the property inductive. From `off <= Max` the next
`MAX - wrote` is non-negative, so a kept piece either fits or was read out of
bounds, and the header test leaves room for the header's NUL. The lemma
`SnprintfStep` covers one snprintf and its test, and it is used by the
exception and frame steps.

`DebugInfo_proofs` proves `VectorWithinAllocationHolds` and
`VectorMatchesCallsHolds` (`Spec => []VectorWithinAllocation` and
`Spec => []VectorMatchesCalls`). They hold for every list allowed by
`DebugInfoAssumption`, and with `Failures` and `NullResults` TRUE or FALSE.
The inductive invariant adds `Filling` to the two properties. `Filling` says
that, while the loop runs:
* `info` is behind `iter`, and the vector has `cnt + 1` pairs;
* the pairs before `info` are the collected ones;
* the pairs after `info` are still unset.

Without `Filling`, the write at `info` could not be shown to stay inside the
vector. Nor could the terminator be shown to be the first NULL label.
`PairsUpToNull` shows that a vector whose first NULL label is at `m` renders
its first `m` pairs. It rests on `LeastChosen`, which covers the `CHOOSE` in
`Pairs`. `SumLines` is written as a recursive function rather than a
RECURSIVE operator, so that the module stays within the provers' reach.

`ExceptionTracker_safety` proves the two invariants of the thread end that
the run `core` checks:
* `EndedThreadCleanHolds`: `Spec => []EndedThreadClean`. It assumes
  `ThreadSafeMaps` and `"tid" \notin Faults`. The JVMTI look-ups and `malloc`
  may fail.
* `UncaughtDeathReportedHolds`: `Spec => []UncaughtDeathReported`. It assumes
  `ThreadSafeMaps` and `Faults = {}`. It holds for any capacity, any listed
  classes and any `EqualsOverrides`.

TLC shows that each assumption is needed:
* Without atomic maps, the run `race` loses a postponed report in the
  write-back.
* A failed `get_tid()` makes `callback_on_thread_end` return at line 1532
  without popping, so entries outlive the thread and the report never comes.
* A failed look-up or `malloc` in `callback_on_exception` (line 2387) drops
  the postponed report silently.

The inductive invariants:
* `CleanInv == IInv /\ PoppedCleared /\ EndedThreadClean`. `PoppedCleared`
  is needed: the second pop clears only `threadMap`, so the first pop must be
  known to have cleared `uncaughtExceptionMap` already.
* `DeathInv == IInv /\ \A t : PendingAt(t)`. `PendingAt` follows the
  uncaught exception through each phase of its thread:
  * in flight with no handler, it is the postponed report or already reported
    (`FlyingPendingAt`);
  * between the emptiness test and the first pop, it is still the postponed
    report or reported (`DiedPendingAt`);
  * after the first pop, it is the report the callback holds, or reported
    (`DiedHeldAt`).
  `UncaughtDeathReported` alone says nothing about a thread that has not
  ended, so it cannot be inductive.

`ExceptionTracker_dedup` proves `NoDuplicateReportHolds` (`Spec =>
[]NoDuplicateReport`) and `RingKeepsReportedHolds` (`Spec =>
RingKeepsReported`). Both assume:
* `ThreadSafeMaps`;
* `"tid"` and `"alloc"` not in `Faults`, while JVMTI look-ups may fail;
* `RingHoldsListed`: the listed exceptions are finitely many, and at most
  `Capacity`.

TLC shows that `NoDuplicateReport` fails without each assumption: capacity 1,
an `"alloc"` or a `"tid"` fault, or non-atomic maps. The inductive invariant
`DedupInv` adds two facts per thread:
* `BufListedAt`: the ring holds each exception at most once, all of a listed
  class.
* `RememberedAt`: until the end callback is done, the ring holds every
  exception reported on the thread.

`RingHasRoom` gives a counting argument. An injective ring of listed
exceptions that misses the pushed one is shorter than `Capacity`. It uses
`FS_Injection` and `FS_RemoveElement`. So the push appends and drops nothing.
TLC checked `DedupInv` first (910k states, JVMTI faults, an overriding
`equals`).

`ReasonFormatter_proofs` proves `MessageAsSpecifiedHolds`
(`Spec => []MessageAsSpecified`). It holds for every buffer size, every class
and exception signature and every method name. It rests on
`FormatterAssumption` alone: `MaxLen` is positive, `Null` is not a name, and
the signatures are sequences of `Char`. `Char` is `STRING` with the characters
the formatter writes ('.', '/', NUL) named, so that the provers know those
characters are strings.

The inductive invariant `FormatInv` records which of spec 4.4's candidates the
current pass of the loop renders. `Stage1` to `Stage4` say:
* the names the pass holds are those of candidate k;
* none of candidates 1 to k-1 fits.

`MessageAsSpecified` alone is not inductive. It only speaks of the returned
message, and the loop's state before the return is what decides that
message. Each action moves from stage k to a stage at least k. When a name has
no package, dropping that name's package renders the same message again, so
the next candidate is known not to fit either. `BestCandidate` shows that this
makes the returned message the reference's choice.

The proof rests on lemmas about the operators:
* `StripIsAfterLastDot`: the reference's longest dot-free suffix (a `CHOOSE`)
  is the code's `strrchr(name, '.') + 1`, or the name itself when there is no
  '.'. It uses `LastDot`, `AfterLastDotProps` and `MaxOfIndices`.
* `MaxOfIndices`: `Max` of a set of indices is its greatest element, from
  `WFMin` on the naturals.
* `FormatClassNameType` and `CallerNames`: the names the callers pass are
  strings.

`SelectLastInSeq` takes an operator argument, which the SMT backend cannot
translate. The proof therefore reaches it only through `LastDotIndex`, which
Zenon unfolds once (`DotOps`). TLC checked `FormatInv` first, for `MaxLen`
from 5 to 44.

Only model-checked: the liveness property `FormatterTerminates`. TLAPS does
not reason about fairness and ENABLED.

## Not modelled, and the plan

Not yet modelled:
* **Re-entrancy**. Exception events raised by the agent's own JNI calls
  (`toString`, `getCause`, `equals`) on the thread that holds `shared_lock`.
  The `equals` call may be overridden.
  The run `equals` models an overriding `equals` by its result alone
  (`EqualsOverrides`). The exceptions such an override could itself throw
  are not modelled.

Not modelled because the build does not compile them (their `#define`s are
commented out): `callback_on_vm_death`, `callback_on_object_alloc`,
`callback_on_object_free`, the GC callbacks, `callback_on_compiled_method_load`,
and `generate_stack_trace` (`GENERATE_JVMTI_STACK_TRACE`).

Not modelled at all, because they are I/O or text only:
* option parsing;
* logging;
* `/proc` and reflection look-ups;
* ABRT / syslog / journald delivery;
* the GC, object alloc/free and compiled-method callbacks.
