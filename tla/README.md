# windows-task: TLA+ models, checks and proofs

`windows-task` is a Rust library (with a command line) for the Windows Task
Scheduler. This directory holds TLA+ models of its components, the TLC
configurations that check them on small instances, and proofs that TLAPS checks
for every instance. Each definition is translated from the source; the table
`map` in `PROJECT.json` names its lines. Paths below are relative to
`src/crates/windows-task/src/`.

Run one check with `tlc -config apply.cfg MCReconcile.tla`, one proof
with `tlapm RunWaitProofs.tla`.

## 1. The system

| Component | Source | State | Operations | Hard part |
|---|---|---|---|---|
| reconcile planning | `reconcile.rs`, `manifest.rs` | none (manifest and inspected state in, plan out) | `plan_state`, `required_folders`, `change_order` | ownership, adoption, pruning, order |
| reconcile apply | `reconcile.rs`, `reconcile/recovery.rs`, `reconcile/backend.rs` | plan, expected states, prepared snapshots, undo stack, report | `inspect_backend`, `prepare`, `execute_change`, `expected_after`, `compensate_observed` | calls that fail after taking effect, other writers, partial undo |
| COM handler runtime | `handler.rs` | four module counters, the `running` flag, control state, completion and progress flags, command channel | `Start`, `Pause`, `Resume`, `Stop`, `report`, `complete`, `DllCanUnloadNow` | five kinds of threads, unload, lost notifications |
| session worker | `client/mod.rs` | job channel, worker thread, operation states | `connect`, `connect_async`, `call`, `call_async`, `shutdown`, drops | cancel against begin, panic, shutdown with queued work |
| history watch | `client/watch.rs`, `client/sys.rs` | cursor, page, bounded queue, stop channel | `deliver`, `send`, `read_page`, `next`, `shutdown`, drop | the channel changes between and within pages |
| run wait | `client/wait.rs` | correlation, absence, deadline | `observe_run`, `Correlation::ingest`, `scan_history` | late events, two sources that disagree, a deadline |
| native session | `client/sys.rs` | proxies of the service's objects; security policy, event log access | about thirty operations, each a series of native calls | others act between two calls of one operation; errors after the commit |
| task model and builder | `model/*.rs` | none | constructors, defaults, builder | limits, what a default stands for |
| validation | `validation.rs` | none | `validate_definition` | every rule has to tie together what XML cannot say apart |
| XML codec | `xml.rs`, `xml/ordering.rs` | the reader's stack and counters | read, understand, write, place extensions | limits, fidelity of unknown elements, schema defaults |
| schedule compiler | `schedule.rs` | none | parse a cron expression, compile to triggers | steps and ranges, fifth week, both names of Sunday |
| history events, paths | `history.rs`, `path.rs` | none | pure functions | text |
| credentials, errors, tracing | `credentials.rs`, `error.rs`, `observe.rs` | none that decides anything | | |
| macro, CLI, xtask, fixtures, fuzz | `../../windows-task-macros`, `../../windows-task-cli`, `../../xtask` | none | code generation, arguments, scripts | |

How they interact: every blocking or asynchronous call of the client becomes a
job in the channel of the *session worker*, which alone touches COM.
The job itself is an operation of the *native session*, a series of
calls into the service. *Apply*, *run wait* and *history watch* are sequential
algorithms that make several such jobs; between any two of them, and between two
native calls of one job, the service, its event log and other clients move on.
The *schedule compiler* hands triggers to the *task builder*, which validates a
definition that the *codec* turns into the XML that a session registers. The *handler runtime* lives in another process (the task
host) and talks to the service through one marshalled interface.

What makes each of them correct:

- planning and apply: a successful apply converges; a failed one either restores
  what it found or says exactly what it could not; nobody else's work is
  overwritten.
- handler runtime: one invocation at a time, at most one completion, no unload
  under a running thread, a stop is final, every reporter call returns.
- session worker: an operation is executed at most once, never after its
  cancellation, and everyone who waits is told what happened.
- history watch: no event twice, out of order or silently missing; a stop works
  even if nobody reads.
- run wait: an exact result is the instance's own; an estimate is labelled,
  consented to and late enough.
- native session: an operation changes the service at most once, its answer does
  not contradict that, and what it reports was so while it ran.
- codec: a definition that is written reads back as the same one up to a canonical
  form, whatever was
  not understood stays in its place, and no condition of a task becomes weaker.
- schedule: the compiled task runs when the expression says, once each time.

The hazards this list comes from, each at its line and with the properties that
cover it, are in `PROJECT.json`. Some small ones no property covers:

- `handler.rs:488`: the worker's last instructions after its last counter
  decrement still belong to the DLL; no counter of the DLL can cover them.
- `client/sys.rs:571`: an instance that ends during the search for another one makes
  its item unreadable, and the search fails. Nothing promises that it goes on.
- `client/mod.rs:266`: after a panic only the first shutdown that joins the
  worker returns the error, a later one returns `Ok`. Nothing promises otherwise.
- `client/watch.rs:119`: records that the channel loses before the first one was
  read are lost silently: there is no anchor yet.
- `client/wait.rs:42`: a final action that fails (events 202 and 203) leaves no
  action result, so that the last *completed* action counts.
- `xml.rs:834` and `xml.rs:376`: unknown children inside known triggers, actions
  and principals are dropped, and names are compared without their namespace.

## 2. The modules

| Module | Models | Remarks |
|---|---|---|
| `ReconcilePlan` | `plan_state` as sets of changes and the schedules that `change_order` admits | no variables |
| `ReconcileApply` | `apply_backend` on top of it, one step per call of the `Backend` trait | `world` is the service, `hist` is history for properties |
| `MCReconcile` | manifests, options and starting contents for TLC | jobs alone, jobs beside another writer |
| `HandlerRuntime`, `MCHandler` | object, worker, user thread, one helper thread with a reporter clone, module counters | a scenario bounds starts, failures, calls |
| `CancellableWork` | abstract: what a session promises about submitted operations | |
| `SessionWorker` | the session; implements `CancellableWork` under a refinement mapping | |
| `ServiceCall` | abstract: what one operation of a session promises its caller | |
| `NativeSession`, `MCNativeSession` | every operation of `client/sys.rs` as a series of native calls; implements `ServiceCall` | `past`, `effects` are history |
| `HistoryWatch` | helper thread, channel, and the owner of the iterator | `owed` is history |
| `RunWait`, `MCRunWait` | the wait, the engine, the event log | `truth`, `endedAt`, `overlooked` are history |
| `TaskModel` | definitions, their constructors and defaults, and `validate_definition` | no variables |
| `XmlEvents` | how an element is written, as the events that reading it gives | no variables |
| `XmlReader` | the bounded reader `parse_dom`, one event at a time | extends `XmlEvents` |
| `TaskXml` | writing and understanding Task XML, extensions, raw documents | extends the reader |
| `Schedule` | cron expressions and the calendar triggers they compile to | the phases of parse and compile |
| `ScheduledTask`, `MCScheduledTask` | an expression, a builder, a definition, its XML and back | composes `Schedule`, `TaskModel`, `TaskXml` |
| `ReconcileApplyProofs`, `SessionWorkerProofs`, `NativeSessionProofs`, `HandlerRuntimeProofs`, `HistoryWatchProofs`, `RunWaitProofs`, `TaskXmlProofs`, `ScheduledTaskProofs` | proofs | section 5; the last extends the one before it |

Definitions named `X_something` are variants of `X` as a plausible bug would
write it. No specification uses them: they show that the runs notice.

### ReconcilePlan and ReconcileApply

A task is `[content, marked, enabled, sec]`: content stands for the definition
without its ownership marker, security descriptor and enabled flag; `PwBacked`
contents need a password. A folder is its descriptor. Folders and tasks form a
small tree given by `Parent` and `FolderOf`.

`pc` follows `apply_backend`: `list_tasks`, `list_folders`, `read_security`
(inspect), `plan`, `preflight` (observe every target), `agree`, `prepare`, then
per change `precondition`, `stop`, `mutate`, `read_back`, `verify`, and after the
first failure per undo entry `undo_check`, `undo_stop`, `undo_mutate`,
`undo_enabled`, `undo_security`, `undo_confirm`. An observation of a task is two
calls (definition, descriptor), so that it can be torn. Every call may fail
before it reaches the service or take effect and lose its response, up to
as many times as the job says. `ForeignWrite` is another client that changes,
creates or deletes anything between two calls, also as often as the job says.

Left out: the journal (evidence that decides nothing) and the text of errors.

### HandlerRuntime

A step ends wherever another thread can see its effect: an atomic, a channel,
the progress mutex, a call into the service. `DllCanUnloadNow` reads the
counters one at a time, in the code's order. Two invocations of the same object
follow each other; starts, pause, resume and stop come from COM threads at any
moment. Threads end at their last counter decrement. While an unload is being asked no new object is created, because COM
serialises the two. `joined.is_err()` in `handler_worker` is unreachable, since
the user thread catches unwinding.

### SessionWorker and CancellableWork

`CancellableWork` says what callers may rely on: requests execute in the order of
submission, one at a time, at most once; a withdrawn one never; a closed session
finishes what it accepted; only an operation that brings the session down can
cost others theirs. `SessionWorker` has the connecting thread, the worker thread
and its queue, the operation state that `begin_operation` and `cancel_operation`
compete for, the reply channels, shutdown calls of several threads and the last
handle. The refinement maps a request to its phase by what its caller, its
reply channel, its operation state and the worker show; a cancelled job keeps
its place in the queue, as a withdrawn request does in the abstract backlog, and
is skipped in its turn.

After a panic the first shutdown that joins the worker returns the error and a
later one `Ok`; nothing promises otherwise, and no property speaks of it.

### NativeSession and ServiceCall

One operation of a connected session. `Reading` and `Confirming` give the native
calls of each operation before and after its mutation, `Expansion` what the answer
to one adds (the items of a collection, the children of a folder), `Results` what
the service may answer, `Outcomes` what a mutation may leave behind. `Read` makes
the next call, `Mutate` and `MutationFails` the mutation, which may also fail after
it took effect; `Others` is any other client or the engine. `Tolerated` names the
failures that a method survives (an instance that ended during an enumeration, a
capability that cannot be probed), `Comparing` the setters that read a descriptor
first and write it only if it differs, `Committed` the marker of a registration
that failed after the commit.

The model keeps what happened since the operation began (`past`, `effects`) so that
`AnswersTrue` can say that what was reported was so at some moment of the call, and
`ServiceCall` that the answer does not contradict the change. The tree is a snapshot
per call: a collection lists what exists when it is asked for. A proxy is configured
in the step that obtains it, except behind a mutation, where failing comes too
late. Registrations have the mode `validate_only`, but the runs and theorems leave it out
of `Modes`: the code reads back whatever proxy the service answers, also to a validation
(`client/mod.rs:836`), and whether the service answers one then cannot be seen in the
repository. Left out: texts passed to COM, apartments, reference counts, and the number of
queries a history page takes (`HistoryWatch`, `RunWait`).

### HistoryWatch

A page is three steps (open the query, find the anchor, read), because the
channel may change between them. A record is its number, its time and whether it
matches; times are never shared, numbers may start again when the channel is
cleared. A result from which records disappeared is stale, as
`continuation_error` expects. `owed` collects the matching records the stream
has to contain. Records that disappear before the first record was read are not
owed: there is no anchor that could reveal their loss, and the code promises
none (`docs/migration-reliability.md`, line 25).

### RunWait

The engine writes events of the awaited instance (with and without result
field, as the two generations of providers do) and of another run; the log shows
them later and may be cleared. Both result codes and time are small numbers.
`Scan`, `Matching` and `Scanned` are `scan_history`, `Ingest` is one round of
`Correlation::ingest`, and `Decisive` is an independent definition of what a set
of events establishes, used only by a property. `absentSince` and `observedRunning` are
the code's: a probe that sees the instance ends an absence, also that of an instance
which started only during the wait. A final action that fails with
events 202 or 203 leaves no action result, so that the last *completed* action
counts; the model takes that as the meaning of an exact result, as the code does.

### TaskModel, XmlReader and TaskXml

`TaskModel` has definitions as records, their constructors, and `Valid`, the
conjunction of all rules of `validation.rs` that make a report invalid. Texts are
strings; durations, dates and class ids are their canonical texts.

`XmlReader` takes the events of a document one at a time, with a stack of open
elements: limits for bytes, depth and elements, references, CDATA and text outside
the root. The lexer (quick_xml) is external: what it rejects is an event
`malformed`. `WellFormed` says what a document is without reading it. A closed node
keeps in `xml` what `node_to_xml` makes of it: a tree below a node never changes again,
so the model writes each element once, from its children's, instead of by recursion.

`TaskXml` writes a definition as the events that reading the written text gives,
and understands a document as a definition: `XReadable` says whether parsing `X`
returns no error, `XOf` is its value then. Extensions keep absolute places among
the children of the task, of its registration info and of its settings
(`ordering.rs` is `Place` and `Merge`). What characters mean as a number, a
duration, a date or a class id is given by tables (`Numbers`, `Durations`, `Dates`,
`ClassIds`), and `Pieces` says into which events a text with special characters
falls (`ReadText` is then what a reader makes of the written text: line ends and
control characters may come back as other characters). Attributes are read by
`ReadAttribute`: tabs and line ends, which are written as they are, become spaces, and a
reference to one becomes the character itself (`Normalized`); so ids, names of value
queries, the schema version and attributes of elements carried unread may change, and two
of them may become one. `Accounts` has the spellings of the built-in accounts, of which
the code accepts every mixture of cases. A schema version that a program calls unknown
and spells "1.2" is the same value as the known one. The `Is` predicates
(`IsDefinition`, `IsTrigger`, `IsSettings` and so on) are the types of `model/*.rs`;
`Unread` lists the elements that programs carry unread, children before parents. Four
assumptions bind these constants, and the runs evaluate them: `PiecesAssumption`
(reading a text with special characters gives a text that is written the same way),
`TaskXmlAssumption` (a canonical duration, class id or number is its own canonical
text), `WordsAssumption` (such texts are not empty and hold nothing that is escaped) and
`DefinitionsAssumption` (programs build values of the types, with elements that their
position does not know). Two more bind attributes and accounts: `NormalizedAssumption`
(neither an empty attribute nor a known schema version comes from or turns into another)
and `AccountsAssumption` (the spellings are those of the built-in accounts, and each has
its own name among them). The stages follow a program that writes a definition, reads it back and
writes it again, or that retains a document with its own limits and then asks for
the definition.

### Schedule and ScheduledTask

`ScheduledTask` extends both `Schedule` and `TaskXml`, whose steps it interleaves.
`Programs` is what a program asks of the `TaskBuilder` besides the schedule; its
`ProgramsAssumption` says that these parts have their types, and that what is valid
besides the schedule is valid when it is read: a principal whose user name is spelled like
a service account has a logon that the account may have, and no ids differ only in white
space (the run `xml_repeated` shows what happens otherwise).
`Parse` and `Compile` translate a cron expression, given as parts of its five
fields, into triggers. `ExactOnce` states what the expression means part by part
(`Covers`), independently of the sets of values that the code builds, and
compares it with the days on which the service fires each trigger, both as they were
compiled and after a `TaskBuilder` put them into a definition that was written as
XML and read back. The calendar
is data: in the runs the first four months of a leap year have months of 29, 30 and 31 days
and week days with and without a fifth occurrence. Only the anchor's date and
its separator matter to `boundary_at`; the offset is copied and left out, as are
names of months and days.

## 3. The runs

| Run | Properties | Distinct states | What it shows |
|---|---|---|---|
| `apply` | `RollbackRestores`, `SuccessConverges`, `RollbackAccounting`, `SnapshotsComplete`, `StopsAccounted`, `WritesOnlyObserved`, `OwnershipRespected`, `Terminates` | 1.1 million | any three calls fail or lose their response, with and without `allow_irreversible`; or another writer acts twice at any moments while one call fails |
| `apply_attribution` | `CompensatesOwnWrites` | violated | see findings |
| `handler` | `UnloadSafe`, `OneInvocation`, `PacketDisposedOnce`, `CompletionOnce`, `UnconfirmedOnlyByRace`, `StopIsFinal`, `ProgressMovesForward`, `CallsReturn`, `InvocationEnds` | 430 thousand | two invocations with unload asked at any moment; two threads that report and complete while three notifications fail; no call and no invocation hangs |
| `handler_overtaken` | `TerminalNotified` | violated | see findings |
| `session` | `CallersToldTruth`, `ShutdownConfirmed`, `ImplementsPromise`, `CallsAnswered`, `SessionEnds` | 190 thousand | three requests, two closers, one panic |
| `native_session` | `AnswersTrue`, `ListingsComplete`, `ServiceContract` | 2 million | every operation, with two acts of others and one failing call |
| `watch_stream` | `InOrderOnce`, `NothingSkipped`, `EndAccounted`, `StopEnds`, `Arrives` | 370 thousand | three records, two losses, one fault; stop with a full queue and no reader; every record reaches a reader |
| `scheduled_task` | `ExactOnce`, `RefusedForCause`, `AcceptsWellFormed`, `RoundTrip`, `ExtensionsKept`, `ConditionsKept` | 130 thousand | 12833 expressions, definitions and documents through the codec |
| `xml_repeated` | `WrittenIsValid` | violated | see findings |
| `wait_exact` | `ExactIsTrue`, `CompletionNotMissed` | 3.5 million | strict waits, late events, one clearing |
| `wait_estimate` | `EstimateEarned`, `WaitEnds` | 250 thousand | estimates, a failing call, another run; every wait returns |
| `wait_cleared` | `ExactIsFinal` | violated | see findings |

Bounds, and why they are enough:

- reconcile: a namespace with one folder below it and one task in each reaches
  every kind of change, the order between parent and child folders, and two
  changes of one target. A job carries its own bounds (`MaxFaults` and `MaxForeign`
  only limit them). Three faults give one in preparation, a failure on the
  way forward and one during its compensation. Two foreign writes give
  a change that is taken back, the smallest case in which a stale observation can
  look current.
- handler: two scenarios, because calls and restarts multiply. Two starts, two
  faults, a helper that keeps its reporter and a server lock give every overlap with
  the previous invocation; one start with two calls of each thread, two
  percentages and three faults gives a retry, a race, a failed completion and both
  failed terminal notifications.
- session: three requests, two of them futures, give one running, one queued and
  one cancelled; two closers a shutdown that finds the thread already joined.
- native session: a folder below the root and one below that make a listing open a
  folder that has gone; two tasks one that appears and one that stays; two
  instances one that is sought and one that ends on the way. Two foreign acts change
  an object and change it back. One fault is enough, as an operation ends with its
  first error unless it tolerates it.
- watch: a page of two records and a queue of one stand for 256 each: full and
  partial pages, a full queue, and a page that continues another. Three records
  let the channel be cleared and grow back to the old anchor's number.
- wait: three events are two actions and a completion, or one of them replaced by
  another run's; the clock has as many ticks as the longest chain of deadlines
  (interval, grace interval, timeout) needs. The limits of 256 events and
  100000 scanned records are parameters, and so are the 32 actions of an instance
  (`MaxActions = 2`), which with their start events stay far below the first;
  `wait_estimate` reaches the second. `MCRunWait` exchanges the two codes by symmetry
  in the runs without liveness.
- scheduled task: the expressions have every kind of part in every field, the ends
  of each field, and the last number of triggers that a task holds (4 instead
  of 48). Definitions vary one part of a usual one at a time, with every trigger,
  action and principal there is; documents are every sequence of up to four
  events, tasks as other writers make them, and trees at and beyond each limit
  (450 events, 6 levels, 140 elements).

Fairness: `apply` assumes only that the sequential code goes on after a
call returns. `handler` and `session` assume that threads that can take a
step do, and that the service's calls return; nobody has to start, stop, report,
submit or shut down. `native_session` assumes that the worker thread runs and that
native calls return. `watch_stream` assumes the same of the helper thread only;
`Arrives` has an owner that keeps calling `next` as its own condition. `wait_estimate`
assumes that the wait goes on and that time passes. The code justifies these: they
are operating-system threads, its waits have time limits, and its documentation
says that a call into the service cannot be aborted.

`CHECK_DEADLOCK FALSE` is set where a system really comes to rest: an ended
invocation, a dropped session, an answered operation, a returned wait, a watch whose
channel is full, a document that was written. `apply` checks deadlock: a finished
apply is a state of its own that may repeat.

## 4. Findings

1. `CompensatesOwnWrites` (`reconcile.rs:855`). If another writer deletes the task
   between the precondition and this apply's own delete, the delete fails, the
   observation shows the desired state, and the change is recorded as this
   apply's own. The delete's error is the cause of the apply's failure, so compensation
   starts at once and re-creates the task that the other writer deleted (a creation that
   the other writer was first with is deleted). `docs/cli.md:112` says "External changes block
   automatic compensation."
2. `TerminalNotified` (`handler.rs:574`). A helper thread's `complete` claims the
   completion flag before its command is sent. If `run` ends in between, the
   worker finds the flag set, skips the automatic notification and leaves; the
   helper's command is dropped, and the service never hears of a completion.
   `docs/migration-reliability.md:79-80` describes an automatic notification with
   a retry.
3. `ExactIsFinal` (`client/wait.rs:58`). The correlation keeps an action of an
   earlier probe. If the history is cleared after a later action ended and before
   it was read, the completion event without a result field is paired with the
   earlier action's code and reported as exact. ADR 6 (lines 24-25) requires "the
   correlated final action result". `ExactIsTrue` is what holds: the result is
   right as long as the log has not lost an action of the instance.
4. `WrittenIsValid` (`xml.rs:532`). `Principal::user("SYSTEM")` validates and is
   written with the logon type `InteractiveToken` (the trace of the run has
   `InteractiveTokenOrPassword`, which fares alike). Reading turns the name into the
   service account and keeps the logon type, a combination that validation
   rejects: the definition that was read cannot be written again. A user with such a
   name and without a logon type is written again, as the account (`S-1-5-18` becomes
   `SYSTEM`), which is why `ExtensionsKept` excepts `Respelled` names. Ids that differ only in
   their tabs and line ends validate too, and are read as equal ids.
   `docs/compatibility.md:30` says "Canonical output preserves extension sibling
   positions and remains stable across repeated typed round-trips."

## 5. Proofs

| Theorem | Statement | Module |
|---|---|---|
| `TypeCorrect` | `Spec => [](TypeOK /\ Control)` | `ReconcileApplyProofs` |
| `Accounting` | `Spec => []RollbackAccounting` | `ReconcileApplyProofs` |
| `StopsReported` | `Spec => []StopsAccounted` | `ReconcileApplyProofs` |
| `WritesObserved` | `Spec => WritesOnlyObserved` | `ReconcileApplyProofs` |
| `ForeignTasksKept` | `Spec => OwnershipRespected` | `ReconcileApplyProofs` |
| `SnapshotsAreThere` | `Spec => []SnapshotsComplete` | `ReconcileApplyProofs` |
| `TargetsRestored` | `Spec => []RollbackRestores` | `ReconcileApplyProofs` |
| `ApplyConverges` | `Spec => []SuccessConverges` | `ReconcileApplyProofs` |
| `TellsTruth` | `Spec => []CallersToldTruth` | `SessionWorkerProofs` |
| `ShutdownIsOver` | `Spec => []ShutdownConfirmed` | `SessionWorkerProofs` |
| `KeepsPromise` | `Spec => ImplementsPromise`, the refinement of `CancellableWork` | `SessionWorkerProofs` |
| `AnswersAreTrue` | `Spec => []AnswersTrue` | `NativeSessionProofs` |
| `KeepsContract` | the safety half of `ServiceContract`, the refinement of `ServiceCall` | `NativeSessionProofs` |
| `ListingsAreComplete` | `Spec => []ListingsComplete` | `NativeSessionProofs` |
| `UnloadIsSafe` | `Spec => []UnloadSafe` | `HandlerRuntimeProofs` |
| `OneAtATime` | `Spec => []OneInvocation` | `HandlerRuntimeProofs` |
| `PacketOnce` | `Spec => []PacketDisposedOnce` | `HandlerRuntimeProofs` |
| `CompletionIsOnce` | `Spec => []CompletionOnce` | `HandlerRuntimeProofs` |
| `UnconfirmedByRace` | `Spec => []UnconfirmedOnlyByRace` | `HandlerRuntimeProofs` |
| `ProgressForward` | `Spec => ProgressMovesForward` | `HandlerRuntimeProofs` |
| `StopFinal` | `Spec => StopIsFinal` | `HandlerRuntimeProofs` |
| `StreamInOrder` | `Spec => []InOrderOnce` | `HistoryWatchProofs` |
| `NoRecordSkipped` | `Spec => []NothingSkipped` | `HistoryWatchProofs` |
| `EndsForACause` | `Spec => []EndAccounted` | `HistoryWatchProofs` |
| `EstimateIsEarned` | `Spec => []EstimateEarned` | `RunWaitProofs` |
| `ExactResultTrue` | `Spec => []ExactIsTrue` | `RunWaitProofs` |
| `CompletionSeen` | `Spec => []CompletionNotMissed` | `RunWaitProofs` |
| `ReaderAccepts` | `ReaderSpec => []AcceptsWellFormed` | `ScheduledTaskProofs` |
| `CompiledExactly` | `ScheduleSpec => []CompiledAsWritten`, if `Legal` | `ScheduledTaskProofs` |
| `RefusalsHaveCause` | `ScheduleSpec => []RefusalExplained`, if `Legal` | `ScheduledTaskProofs` |
| `EveryDefinitionKept` | writing and reading any valid definition of the types gives its canonical form, attributes as they are read | `TaskXmlProofs` |
| `DefinitionTyped` | what is understood from any element is a definition of the types | `ScheduledTaskProofs` |
| `ReadIsValid` | what is read of a valid definition is valid, if its logon fits what is read and its ids still differ as they are read | `ScheduledTaskProofs` |
| `TaskKeeps` | `SpecTask => []TaskInv`, the inductive invariant | `ScheduledTaskProofs` |
| `WrittenAndReadBack` | `SpecTask => []RoundTrip` | `ScheduledTaskProofs` |
| `DocumentsAccepted` | `SpecTask => []AcceptsWellFormed` | `ScheduledTaskProofs` |
| `RunsExactlyOnce` | `SpecTask => []ExactOnce` | `ScheduledTaskProofs` |
| `RefusedWithCause` | `SpecTask => []RefusedForCause` | `ScheduledTaskProofs` |
| `ExtensionsStayInPlace` | `SpecTask => []ExtensionsKept` | `ScheduledTaskProofs` |
| `ConditionsStay` | the conditions in any document are those in what is written of it | `ScheduledTaskProofs` |

The theorems about `ReconcileApply` hold for every set of paths, manifest, scheduler
content, number of faults and of foreign writes. They use the assumptions
`PathsAssumption` and `ValuesAssumption` of `ReconcilePlan` (a finite tree of folders,
numbered so that the order of changes is total), and `JobsAssumption`,
`BoundsAssumption` and `ReadingsAssumption` of `ReconcileApply` (arguments of the right
types; at the start, nothing exists below a folder that does not exist; a definition, a descriptor, a failed reading and a snapshot that was not taken
can be told apart, as they are different Rust types).

`TypeOK` is not inductive: that the current change exists, that the undo stack is
not empty, or that a half-finished observation holds a definition follows only
from where `apply_backend` is. `Control` says what each phase relies on, and
`Typed == TypeOK /\ Control` is inductive. The proof has a lemma for each action,
and first shows that a plan is a finite sequence without repetitions of changes
that name targets of their kinds (`ScheduleType`, `PlannedChanges`).

`RollbackAccounting` speaks of the end of an apply; its invariant is `Ledger`.
The applied changes are a prefix of the plan; the undo stack holds the first
`Len(undo)` of them; what lies above it, `Settled`, is divided between
`rolledBack` and `rollbackFailures`, in reverse order; what is unresolved lies
above the stack too and never among the rolled back; and on the way forward
nothing has been compensated. A step either leaves all of this alone
(`QuietData`), or pushes a verified change, or pops one entry.

`StopsAccounted` needs the invariant `Recorded`: whatever is in `hist.stopped` is in
`irreversible`, on the way forward only for changes of the plan, and during an
`undo_stop` the entry is there before the request. For `WritesOnlyObserved`, `Checked`
follows a check from its first call to the write: a half-finished reading is a part of
what the target holds (`HalfSeen`), a finished one is all of it up to an unreadable
descriptor (`Seen`), and it still is when the mutation or the compensation is about to
be called (`SeenByChange`, `SeenByUndo`), unless the other writer acted in between.
`OwnershipRespected` follows from `Checked` and `Rightful`: a planned change of a task that
the plan has seen is of an owned task or of one that may be adopted (`Rights`), because
planning refuses an ownership conflict; the expectation a change starts from is owned or
adoptable too (`StartsEntitled`), first because it agrees with the plan's snapshot and
later because an earlier change of the same task that took effect kept or set the marker;
and what is about to be replaced is what the expectation says, unless another writer
changed it after the check began, a case the property leaves out.
`SnapshotsComplete` needs `Ledger` and two facts about the order of a plan
(`PlanShape`: one replacement per task, a folder before its descriptor). `Captured` is
the set of changes whose snapshot must be there: it grows during preparation and
shrinks with the undo stack, and a compensation uses up no snapshot but its own
(`TakenAlone`). The descriptor of a folder that this apply creates is the exception: it
is captured by the precondition of its own change (`Late`), which works because by then
the folder is expected to exist (`FoldersThere`).

`RollbackRestores` follows from `Restorable`. As long as nothing is unresolved, every
target that no other writer touched holds what the last entry of the undo stack on it
observed after its change, or what it held at the start if there is none (`LeftAs`),
except while a call on it is in flight; and each entry's own `before` is what the
entries below it left (`Chained`). So a compensation that puts `before` back and is
confirmed by reading leaves what the shorter stack says, and an empty stack says the
start. `Blurred` weakens all of this by the descriptors that `allow_irreversible` lets
go unread. `HalfReread` and `Reread` say that a reading in progress is of the present
contents.

`SuccessConverges` follows from `Converging`: the snapshot is what inspection sees of
the start (`Surveyed`), the plan is what planning makes of it (`PlanKnown`), what the
plan has no change for is as at the start (`Kept`), and every finished change has
reached what it asks for (`Met`), which no later change of the same target undoes.
`Settles` then shows target by target that planning against the final contents finds
no conflict and nothing to do; `Describes` is what it needs to know of an inspection.
Both properties say nothing about targets that another writer touched: compensation and
planning cannot tell such a change from the apply's own, as the run `apply_attribution`
shows.

The theorems about the session hold for every set of operations (blocking or
not), every number of closing threads and of shutdown calls, with or without a
panic (`RequestsAssumption`). The invariant `Inv` has four parts: `TypeOK`;
`Lifecycle`, on which the handle, the worker thread and the closers agree (a
thread that takes no more jobs has none left, a confirmed shutdown has seen it
end); `Distinct`, a job is queued once; and `Jobs`, which says of each job what is
known from where it is (`Placed`: queued, running, or answered) and from what is
recorded about it (`Recorded`). For the refinement, `Unwinding` adds that
unanswered endings come from a panic. `PhaseQueued` reads the abstract phase off
the concrete state; each action is then one abstract step (a lost race of a
dropped future is none), and what a panic discards is the abstract `Discard`.

The theorems about `NativeSession` hold for every finite tree of folders, every
finite set of tasks and of instances, all definitions and descriptors, and every
number of faults and of foreign acts (`TreeAssumption`, `ValuesAssumption`,
`WorldsAssumption`). `KeepsContract` also assumes that `validate_only` is not among
the modes, for the reason given in section 2. The invariant
`Inv == TypeInv /\ Handled /\ Counted /\ Seeking /\ AnswersTrue` says besides the
types: which calls can still be in `todo` (`Allowed`, a part of the types), that the handle of a started instance
is the first thing reported (`Handled`); that `effects` is 1 exactly behind the
mutation (`Counted`); that `stop_instance` mutates only an instance it found
(`Seeking`). An answer `not_found` is true because the call that caused it was one on
the operation's own object or the folder that holds it (`Fits`), or because the search
for an instance always ends at that instance if it ran throughout (`Sought`).
`ReadingAllowed`, `ConfirmingAllowed` and `ExpansionAllowed` show that every
operation only makes such calls. For `KeepsContract`, `Promised` relates an answer
that `Inv` allows to one that the abstract call allows. 
`ListingsAreComplete` says of a depth first walk, over a tree that others change while
it is walked, that it misses nothing and repeats nothing, and no induction over the
tree is needed. Each pending native call has a share, `Due`, of what the listing has
still to report: the folder call of a recursive listing, for one, all that is below
its folder. `Walk` says that no two shares overlap and none holds what has been
reported, that nothing has been reported twice, and that whatever has existed since
the call began is reported or due. An answer replaces a call by calls that divide its
share (`TasksShared`, `ChildrenShared`, `InstancesShared`); children that are gone
when they are visited were not there throughout, nor was what they held. Its facts
about the tree (`UpOfParent`, `NoCycle`, `Chain`, `Siblings`, `PathExists`) rest on
two assumptions: `TreeAssumption`, that following `Parent` never ends in a cycle, and
`WorldsAssumption`, that the service starts `Rooted`, every task and folder in a
folder that exists. `OutcomesRooted` and `ChangesRooted` show that every act of the
session and of others keeps that. The invariant
`ListInv == Walking /\ Fresh /\ Rooted(world) /\ faults \in Nat /\ ListingsComplete`
is inductive together with `Inv`.

The theorems about `HandlerRuntime` hold for every number of invocations and every
set of scenarios, so for any number of failures, calls, percentages and server locks
(`BoundsAssumption`). They follow from one invariant, the conjunction of the types
and ten parts, each kept by a lemma of its own:
`Packets` (where `Start` is determines who owns the marshalled interface and how far
the worker is), `Claims` (a live invocation holds `running` and the token), `Users`
(user threads and reporters live inside the worker's loop), `Counts` (two of the
counters are the numbers of invocations registered as workers and as reporters),
`Unloading` (a counter that has been read as zero stays zero; this needs the order in
which `DllCanUnloadNow` reads, because a worker registers its reporter before it gives
up its own registration), `Held` and `Called` (the progress mutex is held by exactly
the reporter that is in a call), `Queues` (a command in the channel belongs to a
call that waits, and there is at most one besides the end of run), `Completions` (who
has claimed the completion and what has come of it) and `Moving` (a percentage on its
way is larger than what was recorded). `CompletionOnce` is not inductive without
`Queues`: it is the single outstanding command that keeps a second completion from
being acknowledged after the first has been claimed. `TypeCorrect` of the same module
states that all types hold, among them that neither counter becomes negative.

The theorems about `HistoryWatch` hold for every page and queue size and every number
of records, losses and faults (`BoundsAssumption`). They share one invariant. The
channel holds its records in the order of their times (`Ordered`). While the record
that the cursor was made from is still in the channel (`Following`), everything owed
after the cursor is there too, and a fetch that no loss interrupted follows
(`Tracked`). What is received, queued and about to be sent is one stream, an error can
only be its last item (`Carried`), and its events match and lie up to the cursor
(`UpToCursor`). A batch then begins behind the cursor and contains everything owed up to
the new one (`BatchCovers`), whether it starts at the anchor (`AnchorFound`,
`AfterAnchor`) or at the oldest record. `Filtered`, a recursive function, keeps order
and membership (`FilteredParts`); its induction is the least counterexample of
`Least`, as the library's induction theorems cannot be instantiated.

The theorems about `RunWait` hold for every timeout, grace, poll interval and log. An
instance has at most `MaxActions` actions (`MAX_ACTIONS`, 32 in `lib.rs`), fewer than the
`Wanted` events of a query (256): `WantedAssumption`. The result codes differ from
`Terminated`, and no result is not a code: `CodesAssumption`. The invariant of
`EstimateIsEarned`, `Earned`, says what the wait has seen of its instance
(`Instance`), that an absence of an instance that is known to have run is counted only
from an observation after the end (`Absences`; an earlier one ended with the probe that
saw the instance), and that an estimate carries the
consent and the result of that instance (`Estimates`).
`ExactIsTrue` and `CompletionNotMissed` follow from `Known == Log /\ Ends /\ Informed`.
`Log` is the shape of the log, and `Ends` what the events of the instance say about its end:
a final event states the result or leaves it to the last action, and no action
follows a completion. `From(c, S)` and `Covers(c, S)` say that a correlation holds
nothing but what the events of `S` say, and all of it; `IngestOne` and
`IngestSequence` show that taking events keeps both. A probe has read all of the
instance's events that the log shows, or has found a result in the newest ones
(`ProbeTakes`): a scan that stops at the wanted number has them all, because the
instance wrote fewer (`WantedSuffices`). `Informed` says that a wait that goes on
has no result, and that a completion it knows without an action lost the instance's
actions with the log: so a later probe cannot pair it with the wrong one (`ProbeTrue`).

`ReaderAccepts` is about the reader by itself: `ReaderSpec` opens it again and again, on
any finite sequence of events (the constant `Events` is not restricted) and with any
limits, which is all that `TaskXml` does with it. The invariant, `Following`, says
that the stack, the root and the counter are functions of the events taken: `SoFar`
relates a prefix to the number of elements that are open, of roots that are closed
and of elements counted, and says that no event of it is against the rules (`Sound`).
`GoStart`, `GoEmpty`, `GoEnd` and `GoOn` add one event to a prefix; `NotTooMuch`,
`NotOutside`, `NotIllegal` and `NotTwoRoots` show that whatever the reader refuses
cannot become a well formed document, and `AtEnd` that the last test is the right one.

`CompiledExactly` and `RefusalsHaveCause` are about `Schedule` by itself, for every set
of expressions, every calendar and every anchor: the first is the first conjunct of
`ExactOnce`, the second that of `RefusedForCause` in `ScheduledTask`. Their hypothesis
`Legal` is what `ScheduledTask` assumes of its constants (`CalendarAssumption` and
`ExpressionsAssumption`, which the runs evaluate; the first also says that the dates
that `boundary_at` writes are dates that can be read): days are days of a month of 28 to 31
days, expressions have parts in all five fields, and no two moments are written alike.
`FieldValues` shows that a parsed field holds the values that a reader finds in its text
(`Covered`: the loop over one part, from its first value in steps, and `Covers`).
`MomentsOfTimes`, `Listed` and `TimesListed` show that the loops over hours and minutes
meet each of these times once, so that `TooManyTimes` counts times of the day;
`TriggerDays` goes through the four kinds of trigger: a field that the kind does not mention
is a star, and four ordinals with the last week are all weeks of a month (`SomeWeek`).
`Written` puts these together for the triggers of compile.

The theorems about `SpecTask` are about the way of a task from an expression, a
definition or a foreign document to the second document, for every set of these, every
table of texts that meets the assumptions above, and every limit of the reader. They are
in two steps.

The first is about one definition of any size, without a state machine. An element is a
sequence of events, and `Reads(e, n)` says that a reader in any state, with any stack,
that takes the events of `e` has received exactly one more node `n`. `ContainerReads`
shows this of an element from the same of its children, wherever it stands, so that each
part of a definition needs only its own lemma: that the children written for it are
found again under their names (`Offers`), and that the parser of the part makes the
canonical value of them. The lemmas follow `write_definition` part by part: durations
and dates, what triggers have in common, the four calendar schedules, the other
triggers, actions, the principal, the settings, registration info. Elements that are
carried unread have no bound on their size or depth: `Hereditary` says that a set of
nodes holds their children with them and that each is read back as itself; `MirrorReads`
adds one node to such a set, which is what both the list `Unread` and the reader do when
an element is complete. `Merge` puts unknown elements between known ones; the known ones
keep their order and none of the others hides them, since a name that the parser knows
is never unknown at that place. `EveryDefinitionKept` puts all this together: whatever
`Valid(d)` lets pass is written as one element, it is readable, and what is read is
`Canonical(d)` up to the places of extensions.

The second is the invariant `TaskInv == ReaderInv /\ Grows /\ Stages /\ Compiled`.
`ReaderInv` is that of `ReaderAccepts`. `Grows` says that the nodes the reader holds are
hereditary (`Standing`), and that any function that passes through the reader's states
event by event (`Traced`, `After`) agrees with the reader at the present event; so at
the end of a written document the root is the node that `Reads` speaks of
(`ReadAsWritten`). `Stages` (by way of `StagesOf`) says what each stage has of documents
and definitions: the definitions are of the types, the one that was written is valid and
the text is what was written of it, and the second is the first in its canonical form.
That a definition read from a foreign document is of the types is `DefinitionTyped`:
each parser only returns values of its type, with what it does not know under
extensions. `Compiled` relates the schedule to the definitions: the first one is
`Assembled` of a program, and `StaysValid` shows with `ReadIsValid` that it is still
valid when it was read back. This is where `ProgramsAssumption` is needed: without a
logon that fits and ids that still differ, finding 4 is a counterexample. `ScheduledKept` shows that no kind, day,
week or month of a compiled trigger changes on the way, so that `ExactOnce` holds of the
triggers read from the document because it holds of those that were compiled.
`RoundTrip`, `AcceptsWellFormed`, `ExactOnce` and `RefusedForCause` follow from
`TaskInv`.

The provers know nothing of `SelectSeq`, `FoldLeft` and `SortSeq`, which apply an
operator along a sequence; `TaskXml` has `Where`, a recursive function in `Merge`, and
`ByPlace` in their stead.

`ExtensionsKept` needs more: where unknown elements stand, over two round trips. A list of
children is known elements and unknown ones with their places, counted from the front
(`OthersOf`). `MergeAgain` shows that what was sifted out of a list goes back where it
was, and `MergeSifts` that what `Merge` puts between known elements is found again in its
order (`Returned`), none of it further back, provided that the places rise; they do in
what was read of any document (`ReadRanked`), not in every definition a program builds,
so the first conjunct is about foreign documents. `Settling` joins the two for one parent
and `ByParent` the three parents of a document. For the second document, each part of a
definition is shown to be written as its canonical form is (`EveryTriggerAgain`,
`EveryActionAgain`, `PrincipalAgain`, `SettingsAgain`, `RegistrationAgain`), unless the
name is `Respelled` or an attribute of the definition `Respaced`; a part that is left out when it says nothing is left out again
(`NeededAgain`), and `WrittenAgain` puts these together. The invariant adds `Writes` to
`TaskInv`: each document was written of the definition of the same number, and the second
definition is what the parsers make of the first document.

`ConditionsStay` is the content of `ConditionsKept` for one document of any size and shape:
`Condition(task, name)` is what an element states of a condition or the schema's default,
`FlagIs`, `IdleIs` and `NetworkIs` relate it to the definition that is understood, and
`EveryDefinitionKept` relates this definition to the one that is read of the written
document. The network needs `NetworkStated` as well, what the written document itself
says, since a described network counts as required whatever is stated.

Only model-checked: `ConditionsKept` itself, which reads a document without its tree, by
the depth and the name of its events (`Stated`, `InForce`); that reading is independent of
the reader but knows the shapes of documents in the run only, so that it is
`ConditionsStay`, and not an invariant over events, that is true of every document.
Liveness (`Terminates`, `CallsReturn`, `InvocationEnds`, `CallsAnswered`,
`SessionEnds`, `StopEnds`, `Arrives`, `WaitEnds`) and with it the liveness half of
`ServiceContract` are outside what the prover can do.

## 6. Plan

Done: planning, apply and compensation; the handler runtime; the session worker with
its abstract specification and the proof that it implements it; the native session
with its abstract specification and the proof of its safety half; the history watch;
the run wait; the task model, validation, the XML codec and the schedule compiler,
composed from expression to document.

Next, in this order:

1. An abstract specification of apply (a transaction that either applies the
   plan, restores the start, or reports) and `ReconcileApply` as its refinement.
2. `Manifest`: normalisation, validation and export of manifests; the CLI's
   apply and plan commands on top.
3. Durations and dates of `model/time.rs` (overflow, canonical form) and paths
   against reference definitions.
4. A composition of `SessionWorker` with its clients (a watch and a wait share
   one worker, so that a shutdown ends both).

Theorems: the refinement of item 1.

## 7. Not modelled

The lexer and the text of XML, JSON manifests, SDDL, numbers, dates and paths; COM
plumbing (apartments, reference counts, variants); error classification, tracing,
credentials in memory; the macro's generated exports; the command line's parsing and
output; build and release scripts. `PROJECT.json` lists each with its reason.
