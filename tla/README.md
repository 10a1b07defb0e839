# TypeRB verification

TLA+ specifications of the parts of TypeRB that run concurrently, survive
crashes or keep state between calls, the TLC configurations that check them on
small instances, and proofs for TLAPS of what matters most about them.

Every definition is read off the source; `PROJECT.json` names the lines. Where
the code and its documentation disagree, a run whose expected result is
`violation` shows the counterexample.

Contents: [the system](#the-system), [the plan](#the-plan),
[job queue](#durable-jobs), [compiler service](#compiler-service),
[language server](#language-server),
[checking and initialization order](#checking-and-initialization-order),
[incremental analysis](#incremental-analysis),
[generated workspaces](#generated-workspaces), [running a program](#running-a-program),
[concurrent map](#concurrent-map), [divergences found](#divergences-found),
[proofs](#proofs), [what is not modelled](#what-is-not-modelled),
[running it](#running-it).

## The system

TypeRB compiles one statically typed, Ruby-like language to Go, Ruby and
TypeScript. The `trb` program is about 119,000 lines of Go (without tests), and
most of it is a pipeline of pure functions: text to tokens, tree, resolved and
checked tree, intermediate representation, target source. What has state of its
own lies around that pipeline, and in the runtimes it generates.

| Component | Source | State | Operations | Modelled |
|---|---|---|---|---|
| Durable jobs | `internal/jobs/sqlstore`, `internal/codegen/{golang,ruby,typescript}/jobs.go` | table `trb_jobs`; per worker process the claim in hand, an execution and a heartbeat goroutine | enqueue, claim, heartbeat, acknowledge, fail, release, recover stale, retry, discard; start, signal, drain, exit | `JobRecord`, `JobQueue` |
| Compiler service | `internal/compilerservice` | project files, editor overlays, generation, cached snapshot, last good artifacts | set, close, replace, remove documents; analyze | `AtomicService`, `CompilerService` |
| Language server | `internal/lsp`, `internal/cli/lsp.go`, `source_graph.go` | open documents, published diagnostics, current snapshot; coordinator with its timer and three channels | open, change, close, save, watched files; debounced analysis; exit | `LanguageServer` |
| Generated workspaces | `internal/cli/generated_workspace*.go` | directories below `.trb/run`: `lease.lock`, `owner.json`, source | create, lease, mark, write, close, keep, reap, clean | `GeneratedWorkspaces` |
| Incremental analysis | `internal/compiler/{analyzer,incremental,compiler}.go`, `internal/typeprovider` | parse cache, state of the last successful analysis | analyze a project, reuse | `IncrementalAnalysis` |
| Checking order, constant types, initialization plan | `internal/modulegraph`, `internal/compiler/constant_types.go`, `internal/ir/initialization.go`, `internal/initialization/plan.go` | none between calls; walks over a graph, the types known so far | components, check until nothing is learnt, plan | `ModuleGraph`, `ConstantTypes`, `InitializationPlan`, `CheckedProject` |
| Child processes | `internal/cli/child_process*.go`, `cli.go` | a child, a signal channel, a timer | start, relay, force stop | `RunCommand` |
| Generated web servers | `internal/codegen/*/web.go` | listener, connections, requests under way | start, serve, shut down | `WebServer` |
| Concurrent map runtimes | `internal/codegen/{golang/go,ruby/ruby,typescript/typescript}.go`, `internal/repl/evaluator.go` | per outermost call: a group of permits; per call: workers, an index, an error, a scope | call, claim, admit, finish, raise, cancel, join | `ConcurrentMap` |
| ORM runtimes | `internal/codegen/*/orm*.go` | connection, transaction depth | begin, commit, roll back, iterate | no: sequential |
| Package resolver and lock file | `internal/packages` | cache directory, lock file | resolve, fetch, write | no |
| Schema lock and database tools | `internal/schemalock`, `internal/dbtool`, `internal/cli/database.go` | lock file | apply, export, lock, check | no |
| Editor extensions | `editors/vscode`, `editors/github` | language clients per project | start, restart, stop | no |
| REPL and playground | `internal/repl`, `internal/playground` | session bindings; time limit | evaluate | the REPL's concurrent map |
| Front end, checker, lowering, code generation | `internal/{lexer,parser,resolver,checker,lower,codegen,...}` | none between calls | pure functions | no |
| Language service, extensions, standard library, release tooling | see `PROJECT.json` | none, or content-addressed caches | pure queries; one-shot child processes | no |

How they interact:

- `trb lsp` creates a *language server*, which owns the editor's documents and
  passes every change to the *compiler service* by a call. Its diagnostics
  coordinator runs in a goroutine of its own, is handed requests through a
  channel of one slot, calls the service's `AnalyzeOnce`, and hands results
  back through another channel of one slot. The service is the only thing the
  two goroutines share, under one mutex that is not held during an analysis.
- `trb run` and `trb test` make a *generated workspace*, have the compiler's
  output written below it and a child process run there. Two such commands
  share nothing but the file system; each reaps what others have abandoned.
- An analysis of the service is one of an *incremental analyzer*, which keeps the
  last one that succeeded. It uses the *checking order* that a compilation from
  nothing uses, and `trb build` and `trb run` the *initialization plan*.
- `trb run` starts the generated program, often a *web server*, through the
  *relay*, which passes signals on to it. The workspace is there as long as the
  command waits.
- A generated program, and the REPL, run *concurrent maps* on threads,
  goroutines or promises which share the permits of the outermost one.
- `trb jobs start` runs the generated *job worker*. Workers share nothing but
  the database, whose rows and locks are all the coordination there is.

What is hard, and where the properties aim: claims and leases that time out
under a worker that is alive; processes that die between two statements or
system calls; analyses that come back after their input has changed; channels
of one slot between goroutines of which one may be busy for seconds; files that
change beneath open buffers; notifications that fail half way; results that are
kept from an analysis which later ones must not differ from; cyclic imports;
signals, timers and a child that ends at the same moment; tasks that wait for
tasks which need the same permits. `PROJECT.json`
lists every such hazard at its line with the properties that would catch it.

What makes each component correct:

- *jobs*: a claim stands until its worker or a recovery ends it, a worker only concludes the claim it took, a
  job is never lost and is concluded in the end, an abandoned claim is
  recovered and one in use is not;
- *compiler service*: a snapshot is always of the inputs as they are, a failed
  analysis falls back on what compiled before its generation and never replaces
  it, and nobody can tell that analyses take time;
- *language server*: what is analyzed is what the editor shows, no stale
  diagnostics or rename edits reach it, no request is lost, nothing blocks and
  no goroutine stays behind;
- *workspaces*: no run disturbs another's, none leaves anything behind, whatever
  a killed run leaves is removed later, and what is to be kept is kept;
- *incremental analysis*: an answer is what an analysis from nothing would give,
  after any chain of edits and failures;
- *checking and initialization*: types do not depend on the order of checking,
  a project is accepted exactly when it is well typed as a whole,
  nothing is computed before what it reads, and the analysis accepts exactly the
  cycles that the plan can order;
- *running a program*: the program has its source while it runs, its requests get
  their time, and the command ends;
- *concurrent map*: the outermost limit holds at any depth, no call ends before
  what it started, none returns an array with holes, and nesting cannot block.

## The plan

Done, in this order: the job queue (`JobRecord`, `JobQueue`), the service
(`AtomicService`, `CompilerService`), the language server composed with it
(`LanguageServer` extends `CompilerService` and uses its actions), the generated
workspaces, the orders of checking and initialization (`ModuleGraph`,
`ConstantTypes`, `InitializationPlan`, each extending the one before, composed in
`CheckedProject`), the incremental analyzer (`IncrementalAnalysis`, which uses
their operators for its full analysis), the command that runs a program
(`RunCommand` composes `GeneratedWorkspaces`, `WebServer` and the relay), and the
concurrent map (`ConcurrentMap`).

Left, most important first:

1. `PackageResolver`: the walk over manifests as an operator against a
   reference closure, and the cache directory under concurrent commands.
2. The TypeScript job worker, whose loop differs from the other two.
3. The Visual Studio Code client's restarts.
4. The Windows forms of the relay and of the lease.

Every invariant and action property that a run checks is proved for all values of the
constants; what stays with TLC is listed at the end of *Proofs*.

## Conventions

`X.tla` is the model, `XProperties.tla` what it promises, `XProofs.tla` the
theorems (those of the service are with the language server's, those of the
workspaces with the command's), `MCX.tla` the small instances, and `X*.cfg` the runs. Definitions
marked `\* Mutated:` are not part of any specification: each is what an action
or operator would be after a plausible slip in the code, and is put in the
place of the one below it to see that a property notices (`PROJECT.json`,
`mutants`). Constants whose names end in `Bound` only keep the state space
finite.

## Durable jobs

`JobRecord` is the life of one job as `sqlstore.Record` defines it: five methods
(`NewRecord`, `Claim`, `Acknowledge`, `Fail`, `Release`) and the two operator
commands. `JobQueue` is what the generated programs do: the table `trb_jobs`,
the nine statements `internal/codegen/golang/jobs.go` generates, and the worker
process around them.

**State.** `table` holds one row per job with the columns that decide anything.
Times are relative to now (`dueIn` is `run_at - now`, `claimAge` is `now -
claimed_at`) and cut at bounds, so that the clock needs none. `claimSkew` is what
the rounding of `CURRENT_TIMESTAMP` took off a stored `claimed_at`, and `phase`
the position within the current second. Per worker there are the place in its
loop (`pc`), the claim in hand, its execution goroutine (`exec`), its heartbeat
goroutine (`beat`, the ticks to its next tick) and whether its signal context is
cancelled. `succeeded` and `discarded` are history variables.

**Steps.** One action is one transaction, one receive of a `select`, or one step
of a goroutine. Only the claim takes two, its SELECT (`SelectJob`) and its UPDATE with
the COMMIT (`CommitClaim`): in between its row is locked, where the dialect has
`FOR UPDATE SKIP LOCKED`, and is not, for SQLite. The UPDATE asks once more that the row
is `ready` (`StillReady`); a worker that changes no row goes on as if nothing had been
ready (`ClaimTaken`). Every statement may report an error, and an error
of a COMMIT leaves open whether it took effect. A crash loses the goroutines and
the open transaction; a signal cancels the open transaction's context, starts the
drain, and after `shutdown_timeout` the deferred release runs beside an
execution that has not returned. An error with `--once` leaves by `os.Exit`, past
the deferred release.

**Languages and dialects** are constants. `SkipLocked` says whether the claim's SELECT
locks its row; without it a transaction sees what others have committed, which allows
more than SQLite does: there a transaction that has read and finds another's commit
when it writes gets an error, which `ClaimFails` has too. `Heartbeats` is FALSE for Ruby, whose
loop sends none. `StampPeriod` and `CutoffRounded` say how a dialect rounds:
(1, either) for PostgreSQL, (a second, TRUE) for SQLite, (a second, FALSE) for
MySQL. `WorkerId` maps processes to `"worker-" + pid`. `Timely` says that
heartbeats and conclusions are sent before a tick passes. Beyond that the
backends differ in ways the model does not cover: the TypeScript worker has no
drain time limit, counts a failed acknowledgement as a failed execution and ends
on errors of the recovery and the claim; Ruby's failure is a read and an update.

| Run | Instance | Shows |
|---|---|---|
| `queue` | 2 workers, 2 jobs of different priority with 2 and 1 attempts, 1 disturbance; SELECT locks no row | the claim columns, fencing, at-least-once delivery, exhaustion; `ClaimStands`: a claim is ended by its worker, or by a recovery that finds it stale, and not by the other worker that has selected the same row |
| `queue_live` | 2 workers, one with `--once`, 1 job of 2 attempts, 2 disturbances, a lease of 3 ticks and seconds of 3; SELECT locks | each row moves as a `Record` does; the lease holds to the tick although both times are rounded; a claim in use is kept; jobs are concluded and orphans recovered |

A *disturbance* is a crash, a signal, a database error or a manual retry; a
signal and the drain that follows are one. One is enough for each of the safety
hazards (a lost claim needs a missed heartbeat or simply time, which is no
disturbance), and `queue_live` takes two on one job. Two workers are enough
because every statement looks at one row and one `claimed_by`: what a third
could do to the row, the second can after it has gone around its loop. The two
workers, each with its id, are declared interchangeable in `queue`, which has no
liveness property. `queue` has no locks because that allows the workers most: only the
condition of the UPDATE then keeps two claims of a row apart. The guide keeps an SQLite
queue to one worker (`docs/guides/jobs.md:184`); the statements do not rely on it for the
claim itself, but for the record they do: with two workers and no locks the other one may
have claimed and failed a job since it was selected, so that it is `ready` again but not
yet due, and `RowsAreRecords` fails (`JobQueue.cfg` with that property). So `queue_live`,
which checks it, has locks. `AttemptBound` is above every maximum, so both sides of the
comparison occur; `AgeBound` is above lease plus rounding, so cut ages are all
stale alike.

**Fairness.** A process that stays up takes its steps (`WorkerStep`: its loop
never blocks except on the database), the Go scheduler runs its goroutines,
`perform()` returns, and time passes. Nothing is assumed of crashes, signals or
starts: the liveness properties only speak of behaviours in which some worker
that serves every queue stays up from some point on.

## Compiler service

`CompilerService` has the fields of `Service`: `base`, `overlays`,
`generation`, `snapshot`, and `lastGood`, which stands for the artifacts,
contexts and import candidates that are always replaced together. An artifact
is represented by the units it was compiled from. What the compiler says about
units is the constant operator `Verdicts`: a *set* of verdicts, since the analyzer behind
the service also has a memory and declaration files on disk, so that two analyses of the
same units may disagree (one that reuses what is remembered misses a conflict of names
that a full one reports, as `incremental_conflicts` shows). The order of `base` (insertion order) decides nothing here and is left out.

One action is one section under the mutex. `BeginAnalysis` captures the inputs
and leaves the lock; `CommitAnalysis` or `DropAnalysis` is the last section. The
generation is checked twice in the code; the first check only spares the work of
building a snapshot that the second would drop, and is merged with it.

`AtomicService` is what callers may believe: analyses made in an instant, of the
inputs as they are, where an analysis that fails falls back on what was good `before`
the generation began. `AnalysisIsAtomic` says that `CompilerService` implements it,
with `units` the overlays over the files and `good` the last good units. `before` is a
history variable, which `RecordedSpec` adds to `Spec`. `ShowsLastGood` says the same of the
cached snapshot: two callers capture the same last good artifacts, the first one's analysis
succeeds and replaces them, the second one's fails, is of the same generation still, and
commits what it captured. That is neither older nor newer than the generation, but it is
not the `lastGood` of the service any more (`service.go:221`, `239`, `262`), so the property
is not about `lastGood`.

The run `service` has two callers, two files, two texts and every sequence of
input changes up to generation 3, so that an analysis can be overtaken by two
changes, by a change back to what it captured, and by the other caller's
analysis. In its instance `CrossVerdicts`, a file's errors depend on the other file, and
a declaration may or may not be reported as a conflict.

## Language server

`LanguageServer` extends `CompilerService`, whose actions it takes as the calls
the server makes, and adds the event loop of `server.go`, the coordinator of
`diagnostics.go`, the resolution of a file-root session, the editor and the
files on disk.

**Steps.** A notification's handler runs in one step up to `Request` of the
coordinator; the three selects of `Request` are `Offer`, `Drain` and `Resend`.
The coordinator is the only other goroutine: its two selects, the call of
`AnalyzeOnce` (two or three steps, from the service), the comparison of
generations and the sending of the result are one step each. Both are the only
senders and receivers of their channels. `unseen` holds the changes the editor
has not notified yet, so that a notification comes late and for several files at
once. `Exit` stops the loop at any point between handlers.

**Abstractions.** A publication is the text and the version it is about. The
targets of a request only add empty publications. The session's own copy of the
files equals `base`. A "deleted" event is handled as what reading the file
gives. A change that repeats a version is ignored by the code and is a stutter
here. A file-root resolution reads all its files at one instant. Not modelled:
the server without background diagnostics (tests only), the notification
`typerb/fileRootFilesChanged`, and requests that only read the snapshot.

| Run | Instance | Shows |
|---|---|---|
| `lsp_project` | 2 files; a project with 3 edits and its files unchanged, or a file-root session with 2 edits and 1 change on disk | nothing blocks; buffers are what is analyzed, also where the set of files follows the imports; rename fits them; no stale ranges |
| `lsp_files` | a project with 2 changes on disk, files may be unreadable, no documents, fair | a snapshot taken for current is one of the inputs held, also after a notification abandoned half way; notifications are applied, the editor comes to show exactly the errors there are, the coordinator ends |

`fileRoot` is the kind of session, which never changes. The project of
`lsp_project` has no changes on disk because of the divergence that
`LanguageServerCleanBuffer.cfg` shows; the file-root session has both, since it
reads the buffers first. The server has a single caller of `AnalyzeOnce`, its coordinator,
and its runs take one verdict for given units: what the editor is shown in the end
(`Settles`) is only settled when analyses agree. Three edits are enough for open, change and change back
(or close) with an analysis overtaken by each; two requests fill the slot and a
third empties it. `GenerationBound` is above `EditBound + WriteBound` and never
cuts. Deadlock is not checked: a session ends when its client stops.

**Fairness** (`FairServer`). The scheduler runs the loop and the coordinator. The
loop's `select` takes a ready result when no notification waits, and there are
finitely many. The editor notifies every change. Nothing forces an edit, a
write or an exit.

## Checking and initialization order

Three modules of operators and one of actions, translated as functions so that
TLC can compare each algorithm with a definition.

`ModuleGraph` has Tarjan's algorithm of `modulegraph.Components` with its stack,
indexes and low links. A *walk* is the state of the recursion: the maps of the code
and the calls of `visit` that have not returned, each with the number of
dependencies it has looked at. `Advance` is what happens between two such points,
and `Components` is the result after `Steps` of them, a bound that the proofs show to be
enough for every graph. `ConstantTypes` is
`checkProjectComponents`: a component at a time, a constant without a written type
takes the type of its initializer, and a cyclic component is checked again until
nothing new is learnt or a limit is reached. `InitializationPlan` has both
algorithms that look at cycles of values: the one of the analysis
(`initialization/plan.go`), which reports a circle, and the one of the plan
(`OrderedInitializationSteps` with `ir/initialization.go`), which has to find an
order. `CheckedProject` takes a project through them. Its assumption `Resolved`
says which texts it starts from: names that are read or extended are imported, or
declared before in the same module. Others end with an error of the checker
("is not declared", `checker.go:6507` and `checker.go:5490`).

A *text* is what the compiler sees of a module: its imports as they are written,
its constants with what each reads and what types it admits, its class and the
class which that extends. The effects of expressions are an input (what a constant
reads), and so is what the checker thinks of an initializer (`takes`).

The run `checked_project` takes the projects of three modules with four constants
(each a literal, a copy or a typed copy of another, or of a type of its own while it
reads another), four lineages of classes and four
sets of imports that nothing uses. It compares: components with reachability;
the verdict with whether the project is well typed as a whole (`WellTyped`: under the
types that follow from nothing, `Typing`, every initializer admits what it reads and no
circle of imports leaves a type open), and for an accepted project the types found with
those; the plan with what every
action depends on; and the circles that the analysis reports with the existence of
an order. Three modules give every shape of component, two constants in one
module give circles that exist between modules but not between constants. Chains
of constants that go back and forth between modules need more than one round of
checking. There is nothing concurrent and nothing to assume fair;
a project stops when it is planned or rejected.

## Incremental analysis

`IncrementalAnalysis` has the inputs of `Analyzer.AnalyzeProject` (`sources`, the
option that rejects unused imports, the declaration `file`) and `Analyzer.state`.
`AnalyzeProject` is one call with all of its stages and early returns: capturing
the inputs, the search for a single changed source, the affected modules, the reuse
of catalogs, declarations, types and lowered programs, and the fallback to the
full analysis, which is the operator `Full`. The actions beside it change one
input each.

Affected modules are checked in the order that `CheckedOrder` finds. The recursive
`visit` of `checkedModuleOrder` is a list of what is left to do: modules to visit and
visits to end (`Visit`), as the calls of the code's recursion would be on its stack.

The promise is refinement of the simplest kind: `SameAnswer` and `StateIsFull`
compare what the analyzer answers and keeps with `Full` of the same inputs, after
every sequence of changes, failures included. The run `incremental` starts from
112 projects whose texts have what decides anything on the way: inferred
constants along a chain, exports that are equal although a constant's type is not,
members inherited through two modules, import cycles with and without a circle of
values, an inheritance cycle, a second `main`, two equal routes, unused imports,
and a declaration file that matters to one module, changes in what it declares or only
in how (`Remarks`), or cannot be read.
`MaxChanges` = 2 is enough: with two sources changed since the last success the
incremental path is not taken, and TLC goes on from every state that has fewer.

**Abstractions.** The parse cache compares whole sources and is left out. A
project is one compilation unit, and exported names are unique. Generated
fragments, call specializations and compiler-owned dependencies always take the
full path and are left out with it. A declaration file is what it declares (`Catalog`) and
the rest of its digest (`Remarks`): loaded declarations are used again by the digest, and
modules are affected when the declarations differ. The declaration file is read at one instant,
not when it is captured and again when it is loaded. Where an error of an inheritance cycle is reported is abstracted to
the modules concerned. Of an artifact there is what others' types decide and
whether its module is initialized whole or in `actions`.

## Generated workspaces

`GeneratedWorkspaces` is the life of a directory below `.trb/run`: its process
(`owner`), where the directory is, what is in it (`source`, `marker`, `lock`), who
holds the lease, and the two ages the code looks at: `CreatedAt` in the marker
and the directory's modification time. The processes share only the file
system, so an action is a system call: `os.WriteFile` truncates and then writes,
`os.RemoveAll` opens, empties and unlinks. `Kill` stops an owner anywhere and its
lock with it; reapers in `Mortal` may be killed too.

Two variables never change: `keep` says whose command was given
`--keep-generated`, and `prompt` that nobody stalls for `workspaceCreationGrace`,
a minute, while a workspace is made, looked at or closed: it restricts `Age`. An
owner that runs its program may take any time.

**Abstractions.** The lock is the `flock` of the Unix build. A directory that is
created again under the name of a removed one counts as the same. What a run
writes below `Path()` (`writeCompiledTree` in `cli.go`, which makes missing
directories) is the single step `WriteSource`. Workspaces are independent of one
another, a reaper handling one entry at a time, so the runs have one; the proof
covers any number.

The run `workspaces` has one workspace and two reapers, one of them mortal, with
and without stalls and `--keep-generated`, under fairness. It shows that an active
workspace is untouched when nobody stalls, that a run that closes leaves no
directory in any case, and that what a killed run leaves is removed, except in
the window that `GeneratedWorkspacesLeaked.cfg` shows.

Two reapers are needed for one to hold the lease the other tries and for two
removals of one directory to overlap. Deadlock is not checked: every process
ends.

**Fairness.** A reaper that is not killed goes on and starts over (a reaper
stands for one run after another). Time passes: `Age` is strongly fair, since
when nobody stalls it waits while a reaper looks at the workspace, which is again
and again but never for long.

## Running a program

`RunCommand` is `runProgram` and `runTest` of `internal/cli/cli.go`: the relay is
opened, the workspace made and written, the child started in it and waited for,
the workspace closed, the relay closed, in the order of the deferred calls. It
extends `GeneratedWorkspaces`, whose actions for one workspace (`Command`) are the
command's, and `WebServer`, the program.

**The relay** is the two selects of `commandSignalRelay.Run`: the child ends, a
signal is in the channel (of two), the ten seconds are over. Whatever is ready may
be taken. `terminal` says whether the child stays in the foreground group, where
the terminal's interrupt reaches it without the relay, and the relay's forwarding
leaves it out. For the Go backend the child is `go run`, so `launcher` stands
between the command and the program.

**The program** is the server that `Web.serve` becomes in each backend: it listens,
accepts, works on requests, hears a signal, gives the requests the shutdown
timeout and cuts off what is left. The three differ and are kept apart by
`backend`: Go and Ruby go on accepting until their loop has noticed the signal,
node stops in the handler; node's handlers are taken away when they have run, so a
second signal of the same kind ends it; Go and node close the connections nothing
is asked on, Ruby's threads go on reading from theirs; Go and Ruby end with the
requests they cut off, while handlers of node that still run keep it alive.

**External facts**, used where the code relies on them: `go run` ignores interrupts
while its program runs and dies of SIGTERM; `/dev/null` is a character device and
counts as a terminal; `http.Server.Shutdown` and `server.close` of node close idle
connections.

The run `run_command` has a server of any backend, two connections, two signals of
either kind, from a terminal or from elsewhere, at any point, and a reaper of
another command; nothing is kept and nobody stalls (the run `workspaces` has
those). It shows that the started process has its whole source as long as it runs,
that no request is cut off before its time after one signal, and that a command
that gets a signal ends. Two signals are what the second select is for; two
connections allow one to be cut off while the other ends. `Short` says that the
server's timeout is below the relay's ten seconds, as its default is; without it
`GivesTime` is about the relay's. A second signal ends what is left at once, by intention, so
`GivesTime` says nothing after it.

**Fairness** (`CommandFairSpec`). `trb` goes on, its select takes something that is
ready, a server drains and listens, `go run` compiles and starts, and the other
commands reap. Handlers may never return and clients never leave, so that
`CommandEnds` rests on the two timeouts.

## Concurrent map

`ConcurrentMap` is `Array#concurrent_map` as the Go, Ruby and TypeScript generators
emit it and the REPL runs it. One outermost call and the calls that the blocks of
its elements make form a tree, a constant (`Nested`): each element makes at most
one call, which is as general as several one after another as far as the permits
are concerned. Of a call there are its `phase`, the `group` whose permits it uses,
the calls whose cancellation reaches it (`within`), the recorded error, the next
index and the workers without an element; of an element, how far it is.

**Steps.** One action is a step of one worker or of a caller: `Claim` an index,
`Admit` with a permit, `CallNested`, which gives the permit back, `Resume`, which
takes it again, `Finish`, `Raise` and `Unwind` for the two halves of an error
(recorded before the permit is given back, in the REPL after), `GiveUp` for a
worker that leaves because of the scope, `Join`. `Cancel` is the scope around the
outermost call. A block may raise at any point at which it is evaluated.

**Backends** differ in who looks at a cancelled scope and when, and each difference
is a guard: Go's feeder and workers select at random between an offer or a permit
and the scope; TypeScript's `acquire` looks at it first; Ruby and the REPL look
only before the index is taken. Ruby's scopes are cancelled one callback after
another, so a child may not be cancelled yet. The REPL's calls share no scope but
the evaluation's context, and find the group lexically, which a function's body
does not (`Detached`).

The run `concurrent_map` has a tree of four calls, three levels deep, of which the
root has a limit of two, both its elements make a call, one nested call is limited
to one and one nests again, and a default limit of three instead of eight. With a limit
of two, two elements that hold both permits and each wait for nested elements are
the deadlock that the code avoids; a third level lets a permit be given back twice.
Each backend runs. It shows `Bounded`, `Collected` and `Terminates`. Deadlock is
not checked: a call ends.

**Fairness.** One weak condition for everything but `Cancel`: a runtime that can do
anything does something, and a block that started ends. Nothing says which worker
goes first; since every step brings the tree nearer to its end this is enough, and
a guard that never becomes true again is a violation of `Terminates`.

## Divergences found

Two are runs with the expected result `violation`:

- `incremental_conflicts`. Conflicts between provided types and those of the
  project are looked for when declarations are loaded
  (`typeprovider/provider.go:219`). The incremental path does not load them when
  the provider's file is unchanged, so a type that a changed module comes to
  declare under a provided name is accepted until the next full analysis.
- `concurrent_map_repl`. In the REPL a concurrent map made by a function that a block
  calls does not find the group of that block and makes another with a capacity of
  its own (`repl/evaluator.go:1966`), while the caller keeps its permit. "Nested
  calls share the outer task group's capacity instead of multiplying it"
  (`docs/language.md:1048`; `docs/status.md:210` names the REPL).

The following configurations are kept for reproduction; each has a
counterexample:

| Configuration | Property | What happens |
|---|---|---|
| `RunCommandGo.cfg` | `ProgramStopped` | the child of the Go backend is `go run`, which dies of a forwarded SIGTERM; the command returns and removes the workspace while the server still drains (`cli/child_process.go:44`, `docs/cli.md:254`) |
| `RunCommandNewWork.cfg` | `NoNewWork` | a draining server lets a request begin on a connection it has already accepted ("stops accepting new work", `docs/status.md:299`) |
| `ConcurrentMapAdmission.cfg` | `AdmissionStops` | Go's select takes a permit although the scope is cancelled; with `Backends` {"ruby"} or {"repl"} the same, since nobody looks between the permit and the block; {"typescript"} passes ("Parent cancellation stops further admission", `docs/decisions/0004-bounded-structured-concurrent-map.md`) |
| `LanguageServerCleanBuffer.cfg` | `BuffersAnalyzed` | `SetDocument` (`compilerservice/service.go:100`) keeps no overlay for a document that equals the file; when the file then changes on disk the open buffer is analyzed with the file's text ("outside an open editor buffer", `docs/cli.md:616`) |
| `GeneratedWorkspacesKept.cfg` | `KeptWhole` | `Close` rewrites the marker in place, releases the lease, and then renames; a reaper that read the marker before removes the tree that is reported as kept (`docs/cli.md:258`) |
| `GeneratedWorkspacesLeaked.cfg` | `KilledReaped` | a run killed between marking its workspace retained and moving it leaves a directory that nobody removes (`generated_workspace.go:317`, `docs/cli.md:256`) |
| `JobQueueRuby.cfg` | `ActiveClaimKept` | the Ruby worker never calls its `heartbeat`, so a job longer than `lease_timeout` is claimed again while it runs ("heartbeat active claims", `docs/guides/jobs.md:187`) |
| `JobQueueMySQL.cfg` | `LeaseHonoured` | `claimed_at` in whole seconds, the cutoff with its fraction: recovery up to a second early |
| `IncrementalAnalysisBreaking.cfg` | `SameArtifacts` | a change that breaks an import cycle leaves the other modules of the cycle split into initialization actions (`compiler/incremental.go:233`), where a full compilation initializes them whole; latent, because both orders are right |

More are one change of a configuration away:

| Change | Property | What happens |
|---|---|---|
| `CompilerService.cfg` | `ShowsLatest` | of two analyses of one generation that disagree, the failing one, when it is committed second, shows what compiled before the other's success (`compilerservice/service.go:262`); latent, because the coordinator is the service's only concurrent caller, and no document says otherwise |
| `JobQueueLive.cfg` under `Spec` | `AttemptsLimited` | stale recovery never compares attempts with the maximum: a job that kills its worker is attempted again and again (`docs/guides/jobs.md:187`) |
| `JobQueue.cfg` without its symmetry | `ReturnsBeforeRelease` | after `shutdown_timeout` the claim is released while `perform()` runs (`docs/guides/jobs.md:188`) |
| `JobQueue.cfg` with `WorkerId <- SharedIds` and without its symmetry | `Fenced` | two containers have the same PID, hence the same worker id, and pass each other's fence |
| `LanguageServerFiles.cfg` | `Applied` | one unreadable file drops the other changes of its notification (`lsp/server.go:807`, `docs/cli.md:616`) |
| `LanguageServer.cfg` with `AllReadable` FALSE and `FileRoots` {TRUE} | `OlderVersionsStayCleared` | a file-root resolution that fails leaves the generation as it was, and a result for the older text is published (`lsp/server.go:848`, against the comment at 1494) |

## Proofs

The theorems hold for every value of the constants that satisfies the modules'
named assumptions. These say that constants have their types, that bounds are
above what they must not cut (`AttemptBound > MaximumAttempts[j]`, `AgeBound >
Lease + StampPeriod`) and that diagnostics are about the files that were analyzed,
and no more.

**`JobQueueProofs`.** `TypeOK` and the safety properties are not inductive each
for itself. `IInv` adds `TableInv` (a row by row statement: `claimed_by` set
exactly when running, a failed row exhausted), `ClaimInHand` (a worker in the places that act on a claim has one, and
a heartbeat only runs for it), `SelectedRows` (where SELECT locks, the row of an open claim
transaction is its alone and stays ready and due) and `ResultRecorded` (an execution that returned
without error is in `succeeded`). With `NoJobLost` these
are kept by every action; there is a lemma per group of actions.
`TypeCorrect`, `AtLeastOnce` and `ConsistentTable` follow.
`FenceHolds` is proved on top of `IInv`, with the assumption `DistinctIds` that no
two workers have the same id; without it the theorem is false
(`SharedIds`). So is `ClaimsStand`, action by action, with locks and without: every other
worker's statement is on a row that bears its own id, or that is `ready`, and the row that is
held is neither. The argument of the fence: a claim in hand whose row still bears
the worker's id has not been recovered, because recovery clears the id and only
the worker itself could put it back, for which it would have to give up the
claim first. The theorems about time hold for all leases and intervals:
`LeaseIsHonoured` from `InStep` (the age of a claim and the fraction of a second it
was stamped at differ from the fraction of now by whole periods), when the cutoff
is rounded as the stamps are and the lease is whole periods (`Comparable`;
`JobQueueMySQL.cfg` breaks the first); `ActiveClaimsStay` from
`Renewed` (the age of a claim and the time to its next heartbeat fit into one
interval), when heartbeats are on time and an interval and the rounding fit into the
lease (`Prompt`).

`QueueRefinesRecords`: the initial rows are absent records, and every action moves each row by one action of `JobRecord` or not at
all, from `IInv`, where SELECT locks the row or there is a single worker
(`LocksOrOneWorker`, as the guide asks of SQLite). So a statement that a backend changes has to stay one of the
record's methods.

**`LanguageServerProofs`, the service.** `SnapshotIsCurrent` depends on what running calls
have captured: `ServiceIInv` says of every call of the *present* generation that it
captured the present inputs (`CapturesCurrent`) and that no call is from the future
(`CapturesPast`). It does not matter which verdict an analysis comes to. For what is shown,
`Recorded` adds the history: nobody has analyzed the generation while nothing is cached,
so `lastGood` is still what it was `before` (`NobodyYet`), and that is what every call of the
generation captured (`CapturesBefore`); so the cached snapshot is the analysis that
falls back on `before` (`SnapshotIsAnalysis`), and inputs that compiled are the last good
units (`CompiledIsGood`). `LastGoodIsShown` follows, and `ServiceIsAtomic`, which
maps `CommitAnalysis` and `AnswerFromCache` to `Answer`, every change of inputs to
`Change`, and the rest to stutters.

**`LanguageServerProofs`, the server.** `LoopIsNeverBlocked`: only the loop sends requests, so
once `Drain` has emptied the slot it stays empty until `Resend`. It holds for any
bounds and in both kinds of session. `ViewAgrees` needs to say of everything that
remembers inputs (the running analysis, the cached snapshot, the coordinator's
last result, the result in the channel and the view) that it is not ahead of the
service, and that when it has the service's generation it is of the service's
inputs (`Timely`, `Answers`); so every change of the inputs has to make a new
generation (`InputStep`), the files of one watch notification taken together
(`FilesStep`) and a closure that is resolved again (`RefreshStep`) included.
`BuffersAreAnalyzed`, `RenamesFit` and `RangesAreFresh` add what buffers, overlays
and files have to do with each other (`Buffered`). They assume `Sheltered`: the
files of a project stay as they are while its documents are edited, and those of a
closure can be read. Without the first `BuffersAnalyzed` is false
(`LanguageServerCleanBuffer.cfg`), without the second `OlderVersionsStayCleared` is.
A rename, a result that is applied and a buffer then meet in `AnalyzedBuffer`.
`NotificationsApply`, of projects, is a safety property under the condition that
files stay readable: whatever is not in `unseen` is in the project (`Notified`).
`ServerTypes` needs to count (`Bounded`): in a project each file that is yet to be
notified is good for one generation, each edit for one; a pending request is one the
loop has made (`Traffic`), and a publication is of the files of its snapshot
(`Publications`).

**`RunCommandProofs`, the workspaces.** `LeaseIsProtection`, when nobody stalls: no reaper
is past the lease of an active workspace (`ActiveLeased`), none has judged a
workspace that is being made to be abandoned (`MakingFresh`), and none looks at
one that does not exist yet (`AbsentUnseen`). With stalls it is false: an
owner that stalls for a minute between `MkdirTemp` and its lock loses its
directory. `ClosedLeavesNothing` needs no such condition: whoever removes a
directory at the same time only unlinks what the owner would have.

**`RunCommandProofs`, the command.** `CommandImplementsWorkspaces`: every step of a command, its
program or the other commands is one of the workspaces' or leaves them alone, so
what is proved of workspaces holds of commands. `SourceIsThere` follows from
`LeaseIsProtection` and `Attended`: the child runs only while `relay.Run` waits, and
the owner is at `running` all that time. `ServerHasTime` follows one signal from
the channel to the server (`Told`): while at most one was sent, a server that is
still serving was not told, which happens only in a terminal, and one that was told
is not told again; so only a timer can cut a request off, and the server's own is
over before the relay's when it is the shorter one (`Short`).

**`ConcurrentMapProofs`.** For every tree, every limit and every backend. `Collected`
alone is not inductive: that a call that returns a value has evaluated every
element needs that somebody is there to take what is left. `IInv` says that
indices are claimed in order (`InOrder`), that what was given up has left an error
or a cancelled scope behind which `Join` will look at (`Excused`), and that a call
without either has, while indices are left, a worker or an element under way and
in Go a feeder (`Staffed`). So workers that have all ended have taken everything
(`Whole`). `BlocksAreBounded` counts on top of it: the permits taken are exactly
the elements that hold one, and the workers of a call with and without an element
are at most its limit (`Accounts`). It assumes `Shared`, that no call of the REPL is
made in a function; without it the theorem is false (`concurrent_map_repl`).

**`ModuleGraphProofs`, `InitializationPlanProofs`, `CheckedProjectProofs`.** About the
algorithms themselves, for every graph and every project whose names are resolved
(`ProjectsAssumption`; `PathsAssumption` says that paths are distinct). The recursive functions of the model are chosen by `CHOOSE`; that
they exist, and that they are what their equations say, is `IterationExists` (and
`StepsExist`, where the steps differ), once for all of them.

- `ComponentsFound`. The invariant of Tarjan's algorithm is over walks, not over states
  of the specification: `WalkInvariant` is kept by every `Advance` (one lemma for
  each case). Its parts: everything entered is on the stack or in a component, and the
  stack and the open calls are in the order of their indexes (`Numbered`, `Placed`); a
  call that has returned has looked at all it depends on (`Followed`); each open
  call reaches everything above it on the stack, and each module of the stack an open
  call that is not above it (`Connected`); the low index of a call is that of a module on
  the stack that it reaches, and no larger than any that was met within the call
  (`LowsReached`, `LowsBound`); what has been found so far are components that only lead
  to each other and to earlier ones (`Grouped`). When a
  module's low link is its own index, nothing from it on the stack leads below it, so
  what is popped is a component. That the walk is over after `Steps` needs a measure:
  the calls that were made, the dependencies looked at and the roots passed only grow,
  and one of them does with every `Advance` that has something to do.
- `EmitComplete`. The emission is stuck exactly when every action that is left needs
  another one that is left. Following needs inside a finite set returns to where it has
  been, which is a circle; and the first of a circle to be emitted would have
  had to wait for itself. With `ComponentsFound` for the graph of actions, `CirclesAgree`:
  `initialization.Analyze` and `OrderedInitializationSteps` decide the same.
- `PlansRespectInitialization` puts both together: needs within a component are kept by
  `Emit`, needs between components by the order of components, and the entrypoint's
  components are what it reaches.

- `TypesAreRight`. What is known while checking goes on is compared with the types of
  the project as a whole, `Typing`: after as many rounds as there are constants these
  are given by each other (`TypingSettles`), and nothing less is (`TypingLeast`). A
  check of a module adds to what is known only what is right and what what is known
  gives (`Grounded`), whatever wrong or missing type it meets on the way, and so it
  never rejects a module of a well-typed project (`ModuleChecked`). When a turn over a
  component has learnt nothing, each of its checks saw what is known in the end, so that
  what it found fits it (`Fits`, `PassMade`); a turn that has learnt something knows one
  more constant (`TurnKeeps`), so that `2 + countConstants` turns always suffice
  (`AttemptsMade`), and one is enough for a module that does not import itself. What fits
  stays so when later components are checked, which nothing before them reads
  (`FirstChecked`). When everything fits, what is known is given by itself, and everything
  else that follows from nothing is in it (`FitsTyping`).

**`IncrementalAnalysisProofs`.** The analyzer's shortcut is right for every number of
modules, every set of texts and every sequence of edits, options, declaration files,
failures and successes: `AnswersAreSame`, `StatesAreFull`, `AnalyzerTypesAreRight`. The
invariant (`IInv`) is not about how the analyzer came to its state: what it remembers
(`Remembered`) is a project with the texts and options it was analyzed with, for which
all eight stages of an analysis from nothing pass, with the types that such an analysis
finds and, but for `actions`, its artifacts. `StateIsFull` alone compares these with
`Full` only after an answer, and does not say that the project was accepted. An
analysis from nothing keeps the invariant by itself (`FullRemembered`); the work is one
change (`ChangeAnalyzed`):

- The new texts differ from the remembered ones in one module (`Differ`). The modules that
  `Affected` leaves out import only modules that export what they did, and import no
  affected module but the changed one, which then has only written types
  (`Unaffected`, `AffectedFound`). `Exports` says `Any` for an inferred constant, and
  that is why the second part of `Affected` is needed: `AffectedByExports`, without it,
  breaks `SameAnswer`.
- So what the unaffected read has the types it had, and these do not depend on the rest
  of the project (`TypesStay`): in both projects they are the least types that follow
  from nothing on a set of constants that read only each other and written types. This
  is where `TypesAreRight` is used again: types found by checking are those of the
  project as a whole.
- `CheckedOrderFound`: in a graph without circles the order has every module once and
  dependencies first. The invariant of the walk: what a module waits for
  is in the order or before it in what is left (`OrderInvariant`), and each step makes
  the modules not yet seen, with their imports, and the rest of the list fewer
  (`VisitDone`). Checking the affected modules once in that
  order then finds the types of the new project as a whole (`CheckedAgain`); with a
  cycle of imports the code analyzes in full, and the theorem shows that this is enough.
- Stage by stage, in the order of the code, an error is found in the same modules
  (`EarlySame`, `LateSame`): what the unaffected use, import and load is what it was,
  and they passed (`UnresolvableAffected`, `MisusedStays`, `DeclarationsLoad`). What is
  reused of a lowered module is what would be made of it (`ArtifactStays`,
  `AgainRemembered`).

One hypothesis is needed, `Undisputed`: no text declares a name that a declaration file
has. Without it the theorem is false, and that is the divergence of
`incremental_conflicts` below `CanReuse`: the conflict is only looked for when
declarations are loaded. The texts and files of the run `incremental` satisfy it;
`TextsAssumption` says besides what the resolver and the checker reject at once
(names that nobody declares), and that written types and those of literals are types.

**Only model-checked**: liveness (`EventuallyConcluded`,
`OrphanedClaimsRecovered`, `Settles`, `CoordinatorStops`, `AbandonedReaped`,
`CommandEnds`, `Terminates`), which is out of the prover's reach, and the violations that
the configurations under "Divergences found" show. Every invariant and every action
property of a passing run is stated by a theorem.

## What is not modelled

- *The compiler's passes* are pure functions on trees; their properties are
  about languages and types, not about states. For the service an analysis is one of the
  constant `Verdicts` on its units.
- *The analyzer behind the service* is `IncrementalAnalysis`. It answers as an analysis of
  the same inputs from nothing does while no text declares a name of a declaration file,
  and may not otherwise; the service does not rely on it, and the two are not composed
  into one state space.
- *Transactions of the ORM runtimes* are sequential: the checker does not let a
  block of `concurrent_map` capture a handle, so one thread uses a transaction
  from its begin to its end, and what is left is the database's own semantics.
- *The package resolver* reads manifests and writes a cache and a lock file; it is
  the next module of the plan.
- *The database tools* are single commands that call an external program and then
  write one file; *the playground* answers a request in its context's time.
- *The Visual Studio Code client* starts and stops language servers through the
  editor's library, whose order of callbacks is not in this repository.
- *Windows*: its relay interrupts and kills one process, and its lease is another
  lock; both are left out.
- *Reads*: hover, completion, job listings. They change nothing; what they
  rely on is that the snapshot or row is what the properties say.
- *Databases, file systems and editors* appear as their calls behave: row locks
  with SKIP LOCKED, atomic commits, `flock`, a rename that is atomic, a
  notification for each change. On platforms without `flock` reaping never gets
  a lease.
- Generated and vendored code, assets, formatting, logging and the wording of
  messages.

`PROJECT.json` lists the remaining components, with the reason for each.

## Running it

    tlc -workers 2 -config JobQueue.cfg MCJobQueue
    tlapm JobQueueProofs.tla

The run table in `PROJECT.json` gives the module of every configuration. The
longest runs, `queue`, `lsp_project` and `run_command`, take one to three minutes.
`tlapm` checks each of the proof modules in a few minutes.
