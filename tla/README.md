# searchit in TLA+

searchit is a concurrent web content scanner and fuzzer written in Go. These modules
specify its core: the recursive scanner with its worker pool, the frontier it schedules from,
the scan over a plain wordlist, the filters every response goes through, the fuzzer with its
five strategies, the pause gate with the goroutines around it, the session that takes one
target after another through the terminal, and the profiles from which a command composes its
configuration while other commands change them. TLC checks each of them on small instances;
TLAPS proves main safety properties for every number of workers, every site and every bound.

Contents: [inventory](#inventory) · [modules](#modules) · [runs](#runs) ·
[bounds](#bounds) · [fairness](#fairness) · [proofs](#proofs) ·
[findings](#findings) · [not modelled](#not-modelled) · [plan](#plan)

## Inventory

One command (`searchit scan`, `searchit fuzz`) processes its targets one after another. For
each target the main goroutine starts a pool of workers, a producer of jobs, a progress
display, a keyboard console and a shutdown coordinator. They share the scan context
(`scanCtx`, a child of `ctx`), the drain context (shared by all targets), the execution phase
(`state.Manager`) and the terminal (`output/terminal.Manager`), and they exchange jobs and
results through bounded channels.

| Component | State | Operations | Interacts with | Hard behaviour | Correct when |
|---|---|---|---|---|---|
| Recursive traversal `internal/recursion/manager.go`, `generator.go` | frontier, active generator, `nextJob`, `visited`, `pending`, wordlist cache | `Run` loop, `handleResult`, `Generator.Next`, two drain loops | pool (jobs and results channels), adaptive engine, wordlist reader | two bounded channels in opposite directions; a URL discovered by several routes; cancellation and errors between any two steps | no URL twice, no claimed URL lost, depth limit, `pending` matches the jobs in flight, `Run` always returns |
| Engine pool `internal/engine/pool.go`, `worker.go` | worker goroutines, results channel | `Start`, `Worker`, `process` | its caller through jobs and results; `state.Manager` (pause gate) | jobs dropped at cancellation; delivery of a result blocks | a taken job gives a result or a cancellation; the results channel closes after the last worker |
| Frontier `internal/recursion/frontier.go` | ring buffer, head, size | `PushBack`, `PushFront`, `PopFront`, `PeekFront`, `grow`, `shrink` | one owner, the manager goroutine | wrap-around while growing and shrinking | it is a deque, it releases references and memory, it does not thrash |
| Phases and pause gate `internal/state/state.go` | `current`, `mu`, `cond` | `Transition`, `Current`, `WaitUntilRunning` | workers, producers, console, signals, coordinator, main | lost wake-ups; two-step callers | no call hangs, and a pause stops the workers |
| Session `cmd/scan.go`, `internal/targets/manager.go`, `internal/signals` | contexts, active target, phases | target job, signal handler, console goroutine, coordinator | all of the above | second Ctrl+C, `q` and `a`, targets in sequence | every target reaches its summary, a force abort ends the requests of one target |
| Terminal `internal/output/terminal/manager.go` | phase, owner | `TransitionTo`, `AcquireOwner`, `ReleaseOwner`, `AcquireAndTransition`, `TransitionAndRelease`, `SwitchOwner`, `Emit`, `Stop` | session, renderer, progress, telemetry | helpers that fail half-way; writes from three goroutines | one owner, no write in a silent phase, phase and owner agree |
| Fuzz executor `internal/fuzz/strategy.go`, `pool.go`, `worker.go` | job channel, one reply channel per job | `ExecuteAsync`, `Execute`, `Close`, workers with retries | traversal, HTTP | cancellation against a reply; `Close` against senders on every early return | nobody sends after `Close`, a request counts once however often it is retried |
| Fuzz traversal `internal/fuzz/traversal.go` | level, tried and skipped counts | eager, DFS, BFS, priority, adaptive | executor, generator, stats | pruning arithmetic over levels and extensions | no request below a rejected probe, tried + skipped = estimate |
| Fuzz requests `internal/fuzz/template.go`, `placeholder.go`, `extensions/expander.go` | none | levels, estimate, iteration, rendering of a probe | traversal | placeholders inside one path segment or out of order | two values are two requests |
| Word producer `internal/wordlist/producer.go` | word channel, error channels | reader goroutine, eight producers | discovery, pool, pause gate | errors and cancellation on bounded channels; two goroutines close the jobs | every word as often as it is due, `Produce` returns |
| Response pipeline `engine/worker.go`, `fuzz/worker.go`, `filter`, `status`, `size`, `httpclient/drain.go` | none | early filters, measuring, late size, body filters | pools | a size known only after the body, bodies that break off | scan and fuzz show the same whole pages, counters add up |
| Adaptive discovery `internal/adaptive` | collected candidates | `Discover`, `CheckRuntimeTech` | recursion, fuzz | none of its own: mutex-protected sets | deterministic order |
| Statistics `internal/stats` | counters, sampling window | `sampleAt`, readers | progress | window slots written in three stores | counts add up, no negative rate |
| Wildcard detector `internal/wildcard` | signatures | `Add`, `IsWildcard` | recursion (disabled in every command) | first answers decide | equal signatures only |
| Console and progress `internal/console`, `internal/progress` | raw mode, view | key reader, view switch | session, terminal | reader goroutine outlives its controller | keys reach the current target |
| Configuration and profiles `internal/config`, `internal/profile`, flags in `cmd` | files of the user's directory, overlays | create, edit, import, resolve, merge, explain | commands running at the same time | check and write in two steps, a graph that changes while it is searched, layers with aliases and values that do not parse | dependencies first, a later layer wins, an import keeps its meaning |
| Pure parts: `encode`, `requesttemplate`, `html`, `robots`, `sitemap`, `fingerprint`, `semver` | none | functions | everywhere | numeric edges | input/output contracts |
| Maintenance: `update`, `news`, `doctor`, `version`, `release`, `github` | files | network and file input/output | none | none concurrent | out of scope |

`PROJECT.json` lists the same components with what is modelled of each, and under `hazards`
every place in the code where an order, a failure or a boundary is hard to test, with the
properties that would catch it going wrong.

## Modules

| Module | Content |
|---|---|
| `Recursion` | `Manager.Run`, `handleResult`, the generators and the worker pool |
| `MCRecursion`, `MCDeterminism` | the small sites TLC scans |
| `RecursionProofs` | typing, accounting, clean exit; the depth limit, no URL twice, none lost |
| `Deque` | what the frontier promises: a sequence with two ends |
| `Frontier` | the ring buffer, shown to implement `Deque` |
| `FrontierProofs` | indices, references, proportional size, reallocations, and the refinement |
| `Pause` | `state.Manager` and the goroutines of one target that use it |
| `PauseProofs` | the lock, lost wake-ups, and that a pause stops the workers |
| `FuzzPlan` | what a fuzz run is about to request: placeholders, levels, candidates, estimate, rendering |
| `Search` | what a search through a tree of probes promises, whatever its strategy |
| `FuzzTraversal` | the runner with its five strategies, the executor and its workers, shown to implement `Search` |
| `FuzzPlanProofs` | what the recursive functions of `FuzzPlan` compute: levels, values and paths, each listed once, and their order by prefix; how many candidates there are, in all and below a path; that two values are two requests |
| `FuzzTraversalProofs` | types, `Close` is last, the refinement of `Search`, and the accounting |
| `MCFuzz` | the small plans TLC runs |
| `Responses` | the filters, and the order in which the two kinds of workers apply them |
| `FlatScan` | a scan without recursion: discovery, reader, producers, workers, results |
| `FlatScanProofs` | types, every word as often as it is due, counters, the stop, the two pipelines |
| `MCFlatScan` | a small wordlist, the responses and the sets of filters |
| `Settings` | documents, overlays, validators, flags, and the importer |
| `ProfileStore` | the embedded profiles and the user's directory: what a request denotes, what create finds |
| `Profiles` | create, edit and a reading command as three kinds of processes |
| `ProfilesProofs` | dependencies first, layers, imports |
| `MCProfiles` | the profiles, directories and command lines TLC tries |
| `Terminal` | `output/terminal.Manager`: every method as a map on its state |
| `Session` | one `scan` command: targets, contexts, signals, keyboard, display, terminal |
| `SessionProofs` | typing, lost output, lifecycles, targets apart, raw mode, graceful first |

Some modules carry, next to a definition, a second version with a name of its own and a
comment that starts with "Slip:". It is the same definition with a plausible mistake in it.
No specification uses it; it documents which mistake a property detects, and `mutants` in
`PROJECT.json` pairs the two.

### Recursion

One action is one step of a goroutine between two points where another goroutine or a
cancellation can be observed.

- `LoopHead` is the head of the loop in `Run` (manager.go:324-347): the work test, the
  context test, and taking a generator off the frontier. `NextJob` is `Generator.Next`;
  `SelectDone`, `SendJob`, `ReceiveResult` and `ReceiveClosed` are the cases of the `select`.
- `DrainResult` and `DrainEnd` are the loops after a cancellation and after the last job
  (326-334, 349-361, 412-430). Both handle results, without counting them.
- `Handle`, `Expand` and `OpenDirectory`/`OpenFails` are `handleResult`, cut where it looks
  at the context: the filter and redirect rules (444-568), framework paths and links
  (570-648), and the wordlist of a new directory (650-745).
- `Take`, `JobsEnd`, `Drop`, `Request` and `Respond` are a worker. `Drop` covers the
  checks that abandon a job at a cancellation: worker.go:90, the rate limiter, and the start
  of `process`.
- `Cancel` is anything that ends the scan context.

A URL stands for its normalised form; what the server answers is chosen from `Answers`; the
variants of a word are data (`Candidates`). Two simplifications rest on the code: a buffered
generator hands out its jobs in any order (the order of a map or of a sort that no property
looks at), and a request that fails is an answer that is not accepted.

The history variables `sent`, `assumed` and `expanded` record dispatched URLs, redirect
targets taken as already fetched, and directories that were opened. They are never read by
an action.

### Deque and Frontier

`Frontier` is the ring buffer slot by slot: `PushBack` and `PushFront` grow a full buffer,
`PopFront` clears the slot and shrinks a sparse one (`size > 0`, `size = cap / 4`, above
`DefaultJobBuffer`). `since` counts calls since the last reallocation. `Deque` is a plain
sequence; the refinement mapping reads the slots from `head` onwards, modulo the capacity,
and `front` is what `PeekFront` returns, so that the refinement covers the observer as well.

### Pause

`WaitUntilRunning` is modelled statement by statement: the fast path (`Pass`), the helper
goroutine of a slow call (`Spawn`, `SeeCtx`, `SeeEnd`, `WakeAll`), the lock (`Acquire`), the
loop test (`Resume`), the context test (`CheckCtx`) and `cond.Wait` (`Park`). The notify list
of the condition variable is the set of callers at `parked`. `Transition` locks, stores,
broadcasts and unlocks, and is one step that waits for a free lock; no goroutine holds the
lock across steps except a caller.

A call that returns nil leaves its worker at `cleared`: the limiter comes next (worker.go:103),
and only then the job (`Start`), or, when the context is done, the end of the worker (`Exit`).
Nobody looks at the phase in between, so a pause may find a worker there. `late` counts the jobs
that each worker starts in the present pause.

Around it run the goroutines of one target in a non-recursive scan (scan.go:780-1113): the
console (`p`, `q`), the signal goroutine (Ctrl+C), the coordinator and main. Each of them
reads the phase and then asks for a transition, in two steps, as the code does. The console
runs the code of the signal goroutine for `a`, so `Abort` stands for both. A second signal is
`OnForce`, which reads the phase, and `ForceRequest`, which asks for FINALIZING and cancels the
drain context; no goroutine of this module waits for that context. The workers share `Jobs` jobs.

The model starts at the first target (`STARTING`). A target after that starts in `DONE`,
which every test of the phase treats the same way up to `Run`, except that Ctrl+C before
`Run` then asks for no transition.

### Terminal and Session

`Terminal` has no state of its own: phase and owner are a record, and each method is an
operator from one record to the next. A method that fails returns its argument, or, in the
second half of a two-step helper, what the first half has made of it. `Accepts` is the test in
`Emit`.

`Session` is the composition for several targets. `main` is `targets.Manager.Execute` with
the target job; its places between the join and the end of a target are the sequence
`Closing`, and `Call` is the terminal call at each of them. For each target there are the
coordinator (`Notice`, `AwaitConsole`, `AwaitProgress`, `CloseRenderer`), the display
(`ProgressEnds`), the console (`OpenConsole`, `HandleKey`, `CloseConsole`), its reader
(`Read`), and the commander that obeys `q` and `a`. The signal goroutine is one per process. The
diagnostics that the coordinator starts at its end only print and are left out.

A recursive scan may also end by an error of `Run`, and there are two kinds. `RunFails` is an error
that ends `Execute` and with it the command. `RunCancelled` is `context.Canceled`, which `Run`
returns when the target was stopped while `handleResult` loaded a wordlist: unless the command
itself is cancelled, `Execute` goes on with the next target (targets/manager.go:57-63), and nobody
has waited for the coordinator of this one. The history variable `cutShort` has the targets that
were left in this way; `StopsGracefully.cfg` shows what that does, and the properties of the run
`session` say what holds for the others.

`scanCtx` is a child of `ctx`, so `Done` is a disjunction; `termCtx` and `progCtx` are
children of `scanCtx` that the coordinator cancels only after it, so they are done when
`scanCtx` is. Tests and the calls they guard are two steps where another goroutine can act
between them (`AbortAll` and `AbortGracefully`, `Graceful` and `CancelGraceful`). A reader
holds what it has read in `readChan` and, when that is full, in a blocked send: a sequence of
at most two keys. It lives as long as the process, so the readers of several targets compete
for the keys. `RunE` returning is `Leave`; `Exit` ends the process a moment later, so that
goroutines may still act in between.

Execution phases and the key `p` are left to `Pause`; `s` only matters because the statistics
view swallows the next key.

### FuzzPlan, Search and FuzzTraversal

A path is a sequence of values, one for each level above and at the node; a value is a word and
the index of its extension. `FuzzPlan` computes levels, the estimate and the iteration from a
template of tokens, and `BuildJob` is the request for a path, with the URL of a probe cut
behind its level (traversal.go:148-192).

`FuzzTraversal` has the goroutines of `Runner.Run`: main, one goroutine per call of
`evaluateLevel` (a frame of `stack`), the producer of the eager strategy, the goroutines of an
eager visit below an adaptive decision (`burst`), and those of the priority strategy that wait
for a reply (`waiting`). A worker is not named: `Threads` bounds how many requests are in work.
`Submit`, `Publish` and `SubmitCancelled` are the sends of `ExecuteAsync` and of the pending
channel; `SendRequest`, `Fail` and `Respond` are `process` with its retries; `PruneRejected`
and `PruneUnsent` count what a rejected or unsent probe takes with it. Adaptive scores and
policies are a choice: any order of the values, any policy below an accepted one.

`Search` knows only requests, answers and deliveries. Under the mapping the status of a path
gives its request and answer, and every strategy implements it: no probe is requested twice,
none below a probe that was not accepted, and a run that nobody stops ends when each candidate
was delivered or lies below a rejected probe.

### Responses and FlatScan

A response is abstracted to what the filters look at: status, types, declared length, the bytes
that arrive, whether the body breaks off after them, and which expressions match where. Both
pipelines read a body in two goes and look at the error of the first one only, so a body that
breaks off after that passes for a whole one (`SeenBroken`). The first go is 1 MB (`BodyLimit`),
but 4096 bytes (`SkimLimit`) where a fuzz run skims a body that no filter needs. `ScanOutcome` and
`FuzzOutcome` are the two `process` functions from the response to the counters, stage by
stage; `ScanBytes` and `FuzzBytes` are what they record.

`FlatScan` is the pipeline of cmd/scan.go:942-1036: the feeder sends what discovery found and
then runs `Produce`, whose reader and producers share the channel of words; producers skip what
discovery already sent (`SkipSet`), expand the extensions and submit; `errCh` and `readErr` have
their capacities. Who sends a job counts it as produced in a later step (`CountDiscovered`,
`CountProduced`), by when a worker may have requested it; likewise a job that cannot be requested
is first failed and then skipped (`BuildFails`, `CountSkipped`). A worker looks at the context before the gate, the limiter and the request
(`Drop`), and may find that no request can be built (`BuildFails`). `late` counts requests sent
after the cancellation. The pause gate is `Pause`'s: here a producer passes it or, once
cancelled, may be turned away.

### Settings, ProfileStore and Profiles

A document, an overlay and a command line are functions from keys to values. One key stands for
every key that is treated like it, and of a value only this matters: "bad" does not parse, "" is
empty, "mixed" is a list with one bad pattern. `Overlay` is `UnmarshalYAML` (older names of
keys), `ApplyScanOverlay` and `ApplyFuzzOverlay` merge, `PreRun` and `Conflicts` are the checks
before and after loading, `applyCLIOverrides` and `applyFuzzCLIOverrides` put the flags in, and
`buildConfig` is the importer. A request template is put in after the flags (`FromTemplate`): what it
says, cookies included if it has any, stands above them. `Deaf` in `Profiles` names the keys that
only flags set, `Templated` those that a template settles. `http_version` is the one flag for which
no document has a key.

`ProfileStore` describes a directory as a function from files to contents: `Readable` is when
`readUserProfiles` succeeds, `Denoted` the four layers in which `Load` looks for a request.

`Profiles` runs three kinds of commands at once. `CreateCheck`, `CreateOpen`, `CreateWrite` are
the two calls of `Stat` and the two halves of `WriteFile`; `EditLoad` to `EditSave` are the
session of the editor, in which the user may leave anything behind. The reader has the calls of
`dfs` on an explicit `stack`, each `Load` reading the directory as it is then. A walk over the
directory is one step. A command that is killed takes no more steps, so a file may stay empty.

## Runs

Passing runs:

| Run | Shows |
|---|---|
| `recursion` (`Recursion.cfg`) | Two workers, three configurations, a site in which every URL has at least two routes to it, cancelled at any moment. `Accounting`: `pending` equals the jobs in flight until a cancellation lets workers drop some, and is never too small, so the loop cannot stop early. `WithinDepth`: no route passes `--max-depth`. `DispatchedOnce`: no URL is requested twice. `NothingLost`: every claimed URL and every word of an opened directory is still ahead or was dispatched, also when depth-first expansion suspends a generator. `CleanExit`: a scan that reports completion leaves no job, result or worker behind. `RunReturns`: the two bounded channels never block each other for good. |
| `frontier` (`Frontier.cfg`) | The ring buffer implements `Deque`, drops references (`NoRetention`), stays proportional (`Proportional`) and reallocates only after a quarter of a buffer of calls (`NoThrashing`). |
| `pause` (`Pause.cfg`) | Two workers, two jobs, three presses of `p`, with `q` and Ctrl+C at any time. `NoLostWakeup`. `PauseStops`: in one pause a worker starts at most one job, the one it had been let through with before; the next call of the gate waits, whatever resumes and wake-ups came before. With fairness, `CallsEnd`: no call hangs; `HelpersEnd`: the goroutine of a slow call ends with it, also when the scan is paused again for good; `Closes`: a cancelled target shuts down, paused or not. Each says that the good state comes again and again (`[]<>`), since no goroutine leaves it for good. |
| `session` (`Session.cfg`) | Two targets in each of the eight configurations, two inputs at any time. `NoOutputLost`: whoever may write is accepted. `LifecycleComplete`, `TargetsApart`: a target that is left, and was not cut short, has gone through all phases without a dropped error, and its goroutines have ended. `RawOnlyWhileScanning`: raw mode is over before the summary, as long as no target was cut short. `GracefulFirst`: requests of the first target are cut off only after it was told to stop. `Closes`: a stopped target ends, and one that is cut short is down at some time. |
| `fuzz` (`Fuzz.cfg`) | Each strategy on three plans, failures, retries and a cancellation at any moment. `CloseIsLast`: no goroutine of any strategy can send when the jobs are closed. `Accounting`: tried and skipped never exceed the estimate and reach it in a run that nobody cancels (breadth-first runs with extensions excepted, see finding 4). `ImplementsSearch`: the refinement. `RunEnds`: every strategy returns. |
| `flat_scan` (`FlatScan.cfg`) | Discovery, a reader, two producers and a worker behind channels of one slot, with a bad base URL, an unreadable list or a cancellation. `EveryWordOnce`: each URL is requested as often as it is due, which is not for every word that the list has (finding 8). `Reconciled`: the counters add up in every state, up to the increments that goroutines still have to make, and exactly when the scan is complete. `StopIsPrompt`: at most one request per worker after the cancellation. `PipelinesAgree`: for nine sets of filters a fuzz run shows each page that a scan shows, and no other except one whose body breaks off where only a scan looks. `ScanEnds`: nobody waits for ever. |
| `profiles` (`Profiles.cfg`) | A command resolves and composes while another creates a file and a third one edits. `DependenciesFirst`: dependencies come first, no request is resolved twice, and a cycle ends the search, however the directory changes between two loads. `LayersWin`: in the configuration each key has the value of the last layer that gives one, except for what a request template settles and for the keys that are deaf to profiles and files. `ImportKeepsMeaning`: a profile made from a command line gives what that command line gives, in every key but those named in `NotImported`, and explain shows it. |

Violations, one for each of the findings 1 to 5: `redirect_scanned`, `stranded`, `determinism`,
`bfs_accounting`, `unknown_size`.

Five more configurations are kept beside the runs and are violated too. They show findings 6 to 14:

| Configuration | Module | Property |
|---|---|---|
| `StopsGracefully.cfg` | `Session` | `StopsGracefully` |
| `ShutdownStands.cfg` | `Pause` | `ShutdownStands` |
| `NothingSuppressed.cfg` | `MCFlatScan` | `NothingSuppressed` |
| `HiddenProbe.cfg` | `MCFuzz` | `ProbesDiffer` |
| `ProfileClaims.cfg` | `MCProfiles` | `ProfileSetsStrategy`, `ProfileSetsUrl`, `FlagSetsMethod`, `FuzzHasTarget`, `DuplicatesRemoved` (TLC's `-continue` reports each of them) |

`GracefulFirst` speaks of the first target only: of later ones it is false, for the reason
given below under "the shared drain context".

`LayersWin` and `ImportKeepsMeaning` say what the code does, and name what the documentation would
not lead one to expect (`Deaf`, `Templated`, `NotImported`): findings 10 to 13 are what it says
of those keys.

Deadlock is checked in every run. `Returned`, `Quiet`, `Finished`, `Stay` and `Ended` are the steps of a program that has
finished; they are enabled nowhere else.

`NoLostWakeup` asks for more than the scan needs today: when the context ends, the
coordinator's transition to `SHUTDOWN_REQUESTED` broadcasts as well. The helper is what makes
`WaitUntilRunning` correct by its own contract, and what a caller without a coordinator
relies on, so the property is stated of it.

## Bounds

- Recursion: five URLs, two workers (so channels of capacity two), depth limit two, one seed
  and one discovered URL. With two workers both channels fill up, and results overtake each
  other. Depth two is the smallest at which a link, a word and a redirect at different
  depths claim the same URL and the limit cuts. The site gives `x` and `ax` to words, links,
  redirects and framework paths. `dfs` and `priority` differ only in the order of a buffer,
  which is nondeterministic here, so one of them is enough.
- Frontier: `InitialCap = 1`, `DefaultJobBuffer = 2`, up to nine elements: four growths and
  every shrink, at every position of head. The program makes the frontier with 2048 slots and
  never shrinks below that; smaller capacities are made through `NewFrontierWithCapacity`
  only by tests. The arithmetic is the same, and the proofs do not depend on the numbers.
- Pause: two workers compete for the lock and for the broadcast. Two jobs and three presses of
  `p` give `PauseStops` a worker that is caught in the limiter by one pause, starts its job, and
  meets the gate again. A call is identified by its job, so that a helper can outlive its call and
  meet the next one. Three presses make a scan that is resumed once and then paused for good, which
  is where a helper would be left over. `ShutdownStands.cfg` is the smallest instance of its finding.
- Session: `Targets = 2`, `MaxInputs = 2`. Everything that can go wrong between targets needs
  a target and its successor; two inputs give every pair of keys and signals, among them the
  force abort, the key that an earlier reader takes, the signal that kills, and a key for the
  target after one that was cut short. The proofs hold for any number of both.
- Fuzz: two workers, channels of capacity two and one, two tries. The plans have one level with
  two extensions, a level above another one in the next segment, two levels in one segment with
  extensions, and a placeholder outside the URL; two words are the fewest with which one subtree
  is pruned and another one is not. Capacity one makes every send of a level wait for its
  reader. Two tries give a retry and a final failure.
- FlatScan: four lines (a comment, a word that is not clean, one of which no URL can be made, an
  ordinary one), two extensions of which one cannot be requested, and discovery of the same
  word in both cases; two producers compete for words and for the set of discovered URLs;
  channels of one slot make every goroutine wait for the next. The pages are an ordinary one, an
  error, one in chunks, and one each that breaks off within 4096 bytes, within 1 MB and after it.
- Profiles: one creator, one editor and one reader; three commands are the fewest in which a
  file is read, emptied and replaced between two loads. The directories hold a chain over the
  embedded baseline, a cycle, an ambiguous base name, a bad value; the command lines cover every
  alias pair, `--mc` with and without company, two stacked profiles with a common base, templates
  with and without cookies, named by a flag, a profile or a file, and flags with no key in a document.
  `ProfileClaims.cfg` has the same instance.
- `BfsAccounting.cfg`, `UnknownSize.cfg`, `NothingSuppressed.cfg`, `HiddenProbe.cfg` and
  `StopsGracefully.cfg` are small instances of their findings.
- `Determinism.cfg` uses a chain of directories and depth three: the smallest site where the
  depth of the first claim decides whether a directory is opened.

## Fairness

Weak fairness for each goroutine separately, because the Go scheduler runs every goroutine
that can run:

- the manager and each worker: requests end, because the HTTP client has a timeout;
- in `Session` main and every goroutine of a target. A scan ends when its context is done
  (`Recursion` and `Pause` show that its loops do, and requests have a timeout); a scan that
  nobody stops may go on for ever. A console must leave when its context is done, although
  `select` may prefer keys: each target sees finitely many;
- in `Pause` each caller, each helper, the coordinator, main, and the console and the signal
  goroutine once they have started on a key or a signal.
- in `FuzzTraversal` the receiving workers, main, the submitting goroutines, those of a burst
  and those that wait for a reply; in `FlatScan` the feeder, the reader, main, each producer and
  each worker. Requests end in both, because the client has a timeout.

`Profiles` has no fairness and no liveness property: a command may be killed between any two
steps, and its file stays as it is.

Nothing is assumed of the user: `Cancel`, `Toggle`, `StopTarget`, `Abort` and `OnForce`, and in `Session`
`Type`, `Signal` and the reader, have no fairness, so the liveness properties hold for a user who
never types again. Weak fairness is enough for `Manager.mu`: a caller can be overtaken, but `sync.Mutex` hands the lock to a
waiter after a millisecond, and the number of overtaking steps is bounded by the jobs and the
key presses of the model. No fairness is assumed of a `select`: when a send and a cancellation
are both possible, either may be taken every time.

## Proofs

All of them are checked by TLAPS down to the last leaf, from the assumptions stated in the
modules, which TLC evaluates in every run:

- the sets of workers and producers are finite and not empty, and channels have room for an item;
- seeds and discovered URLs of a recursive scan are distinct (`Run` skips those already visited),
  and so are the extensions of a flat scan (their parser keeps the first of equal ones);
- absent values (`NoUrl`, `NoJob`, `NoGen`, `Nil`, `NoCaller`) are not members of the sets they
  stand outside;
- a fuzz run has a placeholder in its request, a word stands for its line of the list (so the
  words of a list are distinct), and every list and extension has its placeholder in the request
  (`InUse`; what happens otherwise is among the findings); `SmallPlans` are such plans;
- two theorems ask more of a plan, as a hypothesis: `RequestsDiffer` that the URL has the
  placeholders in the order of their levels (`LevelsInOrder`; finding 9 is the other case),
  `AccountingCorrect` that the list of a FUZZ placeholder has a word (`PrimaryListed`; what happens
  otherwise is noted below);
- filters are well formed (`NewFilterSuite` refuses others), and the declared length of a page is
  a number or -1 (`net/http` has no other);
- names of profiles and of their dependencies are names (a namespace and a base), and a command
  line has only flags of its command (the parser of the command line refuses others), with
  a value for `--url` and `--request` that is not empty.

| Theorem | Establishes |
|---|---|
| `RecursionProofs!TypeCorrect`, `AccountingCorrect`, `CleanExitCorrect` | types; `pending` against the jobs in flight; a scan that reports completion has left nothing |
| `RecursionProofs!DepthCorrect`, `OnceCorrect`, `NothingLostCorrect` | `WithinDepth`; `DispatchedOnce`; every claimed URL and every word of an opened directory is dispatched or still ahead |
| `FrontierProofs!TypeCorrect`, `NoRetentionCorrect`, `ProportionalCorrect`, `NoThrashingCorrect`, `Implementation` | indices; references are dropped; memory is given back, but not at every call; every call is the same call on a sequence |
| `PauseProofs!TypeCorrect`, `NoLostWakeupCorrect`, `PauseStopsCorrect` | the lock; wake-ups; at most one late job per worker and pause |
| `SessionProofs!TypeCorrect`, `NoOutputLostCorrect`, `LifecycleCorrect`, `TargetsApartCorrect`, `RawCorrect`, `GracefulFirstCorrect` | types; writes are accepted; but for targets cut short, every lifecycle is complete, targets do not overlap and raw mode ends; requests are cut off only after a stop |
| `FlatScanProofs!TypeCorrect`, `EveryWordOnceCorrect`, `ReconciledCorrect`, `StopIsPromptCorrect`, `PipelinesAgreeCorrect` | types and capacities; a complete scan requests each URL as often as it is due; counters add up, but for the increments to come; one late request per worker; fuzz shows what scan shows, and in addition only pages whose break it overlooks |
| `FuzzTraversalProofs!TypeCorrect`, `CloseIsLastCorrect` | capacities and tries, no result delivered twice; nobody can send when `jobsChan` is closed |
| `FuzzTraversalProofs!SearchImplemented` | every run of each of the five strategies is a search: no probe twice, none below a probe that was not accepted, and no candidate forgotten unless the run was cancelled |
| `FuzzPlanProofs!EstimateIsRight`, `RequestsDiffer` | the estimate is the number of candidates, whatever the lists, placeholders and extensions; two values of a level have different requests, if the URL has the levels in order |
| `FuzzTraversalProofs!AccountingCorrect` | tried and skipped never exceed the estimate, and reach it in an uncancelled run of any strategy (but a breadth-first one in passes, finding 4) |
| `ProfilesProofs!DependenciesFirstCorrect`, `LayersWinCorrect`, `ImportCorrect` | `DependenciesFirst`, for any profiles, directories and other commands; `LayersWin` and `ImportKeepsMeaning`, for any values, layers and command lines |

The inductive invariants:

- *Recursion.* `TypeOK` and `Accounting` are not inductive: the manager's position has to
  agree with its hands. It is in the main loop only in mode "run" and in a drain loop only in
  another; it holds a result while it handles one, and a generator but no `nextJob` at
  `next`; a worker at `got` or `busy` holds a job. With these control facts (`Control`) each
  step changes both sides of the count alike; `Drop` lowers only the jobs in flight.
- *Exit.* `CleanExit` looks at the places `Run` has already left. `Over` says it of the moment
  before: in mode "finish" the frontier, the active generator and `nextJob` are empty, and so
  are the channels and the hands of the workers, because `LoopHead` finishes only at
  `pending = 0` and `Accounting` makes that the number of jobs in flight.
- *Depth.* The limit is tested where a result is handled, but a job carries a depth through
  the frontier, the active generator, `nextJob`, the channel, a worker and a result. The
  invariant says "at most `MaxDepth`" of each of these places, and "below it" of a result
  that has passed the test.
- *Once.* `DispatchedOnce` follows when what was sent is visited, the URL of `nextJob` is
  visited and not sent, and the buffers of the frontier's generators and of the active one
  are pairwise disjoint and hold only URLs that are visited and neither sent nor next.
  The words of a directory need no such claim: a word enters a buffer only by claiming.
- *Nothing lost.* The words of a directory are ahead when some generator covers them: the rest
  of its words contains their variants or its buffer does. Depth-first expansion puts the active
  generator back before it opens a new one, and the theorem follows each generator through the
  frontier, so the step from one place to the next is a lemma about sequences with an element
  moved.
- *Frontier.* Slots inside the window hold generators and a sparse buffer has room for its
  elements. The refinement is then modular arithmetic on the index of each slot. `Unused` says
  that the slots outside the window are nil, counted from the head, so that growing and shrinking
  only move it. `Drifted` is why the buffer does not thrash: a reallocation leaves it half full,
  and since then every call moved the size by one.
- *Pause.* The lock is held by a caller at `held` or `checked` and by nobody else; a caller
  at `checked` was paused and live at its test, and nobody could store a phase since; a
  caller inside a call is in the call of some job; a call between `Spawn` and its return has
  a helper that is still watching or about to wake it. `Once` is why a pause stops the workers: one that
  has started a job in the present pause is not past the gate (`cleared`) again, because the gate
  opens only in another phase, and a change of the phase starts the count anew.
- *Session.* `Stage` gives phase and owner of the current target's terminal from the place of
  main. `Team` ties the goroutines that write to the coordinator: the display runs while the
  coordinator watches or waits for it, the console likewise, and a coordinator that has not
  ended belongs to the current target while main scans or waits, or to one that was cut short,
  whose terminal main does not touch again. So main changes phase and owner only when nobody else
  can write there. `Past` keeps what was true when main left a target that was not cut short, and
  `Behind` that one that was is left for good. `Cooked` says that, until a target is cut short, only
  the current console is open, so each one finds and restores a cooked terminal.
  `GracefulFirst` needs the ways to `cancelDrain`: a handler that has seen a first signal, a
  commander with a command in its hand and main at the end of a target. `Warned` says that
  each of them, before the second target begins, found the context of the first one done.
- *FlatScan.* `Prompt`: a worker that has sent after the cancellation is past its last look at
  the context. `Balance` counts jobs by where they are (`Spent`, `Backlog`, in flight) with
  cardinalities of sets of workers, which one worker's step changes by at most one. For
  `EveryWordOnce` each URL has a number of copies it is due, and `Counted` splits that number over
  the places a copy can be in: not yet fed, in a line not yet read, in the channel of words, in a
  variant not yet submitted, in the channel of jobs, with a worker, or requested. Each step moves
  a copy from one place to the next. `Course` ties the channels' ends to the goroutines that close
  them, so a complete scan has every copy in the last place.
- *Fuzz.* `Quiet`: main has left the last level and joined every burst before it returns, on
  each early return of each strategy, and `Close` comes after that.
  The refinement needs to know where every path is. `FramesOK`, `OthersOK` and `TasksOK` say that a
  path in somebody's hands is in one place, with a level, awaited by main, kept for the next depth,
  with a goroutine of an eager visit, or a task of `runPriority`, and that `status` agrees with the
  place. `SpineOK` says that the paths held in all places together form a cut: none lies above
  another, nothing below one has been asked for, and what was asked for above one was accepted. So
  a path that is sent is new and has only accepted probes above it, which is the guard of `Request`. A delivery takes a path out
  of the cut and, if it was accepted, puts its children there, or its leaves in an eager visit;
  `ChildrenRefine` and `LeavesRefine` are why nothing below it is lost. `NothingForgotten` says
  that until a cancellation every candidate is below the cut, answered, or below a probe that was
  turned down; when main returns the cut is empty, which is the guard of `Finish`.
  `Accounting` adds one number to that: `Outstanding` is the set of candidates that are not
  counted yet, those below the cut that nobody asked for, and those queued or taken but not tried.
  `Accounts` says that tried, skipped and its cardinality are the estimate, and until a
  cancellation exactly so. A step either moves the cut (`Moves`: what is below a dropped probe
  leaves `Outstanding`, and `PrunedCounts` says that `recordPruned` adds as many) or turns one
  request (`Turns`: a candidate leaves `Outstanding` when its first request is counted, or when
  none can be built). It rests on four smaller facts: a request that was sent was counted
  (`SentCounted`, so a retry is not counted again), only answers are delivered (`AnswersOnly`),
  without extensions a breadth-first level is one pass (`OnePass`, so what is pruned counts), and
  an uncancelled run returns with an empty cut (`AllTaken`, so nothing is outstanding then).
  `RequestsDiffer` is a fact about the plan alone: `TruncateKeeps` says that the cut of a URL
  in order leaves the first place of each level down to the one it is made for, so the
  request shows the value of each. Finding 9 is a plan out of order.
- *Profiles.* `DependenciesFirst` says nothing of a search in progress. `Finished` makes the
  visited requests those of the result, `Unfinished` keeps the calls in progress apart from
  them, and `Behind` accounts for every dependency a call has gone past: it is visited, or
  it is the last one, and then it is being called or its call is the next on the stack. A
  call that returns is the innermost one, so all of its dependencies are in the result. What
  a load returned stays in its call's record; no other fact about the directory is used, so
  what the other commands write does not matter. `Layered`
  says that while the overlays are applied every key has its topmost value among the defaults,
  the file and the layers so far (`Topmost`), in which a value that does not parse does not
  count; `Shown` is the same for explain.

The proof of `LayersWin` failed at first, for a reason the run had not met: a flag that is given
does not always settle its key. Codes that do not parse settle nothing, `--exclude-status` does
not count beside `--fc`, and an empty `--output` names no file and with it no format. `Idle`
names these flags, and the command lines of the run now have them. Likewise `ImportKeepsMeaning`
is stated of command lines that could run, and names `--regex-scope ""` among what an import
leaves out.

What a recursive function computes. `Least` (a set of numbers that is not empty has a least element)
follows from the well-foundedness of finite sets, and `UpTo` and `Recursive` turn it into induction
along an interval with a set in the place of a predicate: no theorem with an operator as
parameter is needed. `FuzzPlanProofs` proves with them what `Within` and `PathsTo` compute,
as lists: `Lists(q, A)` says that q has the elements of A, each once, in any order.

Counting candidates needs no sum over a tree. Below a path, the paths of the next depth are as
many as those of this one times the width of the level (`BelowGrows`), so the candidates below a
path are a product of widths (`CandidatesBelow`), which is what `recordPruned` computes
(`PrunedCounts`); from the root they are `GoalsCount`. `EstimateCandidates` multiplies one factor
for each supported placeholder instead, and `KeptProduct` shows that the factors of the
placeholders that do not occur are 1.

Model-checked only: the liveness properties `RunReturns`, `CallsEnd`, `HelpersEnd`, `RunEnds`,
`ScanEnds` and `Closes` of both modules, because the prover has no fairness or ENABLED. Every
invariant and action property of a passing run has a theorem.

## Findings

With a run that shows them:

1. *A redirect with a body is never requested* (manager.go:560, run `redirect_scanned`). The
   branch takes a body as a sign that the client has followed the redirect, but
   `RedirectURL` is set only when it has not (worker.go:400-405). The target is marked
   visited, so no other route requests it either.
2. *A worker can be stranded* (manager.go:383, run `stranded`). When `handleResult` fails,
   `Run` returns without draining; a worker that still has a result to send blocks for good,
   against the contract in pool.go:15-16.
3. *The result set depends on the number of workers* (manager.go:633, run `determinism`). The
   first route to a URL fixes its depth, and which one is first is a race.
   docs/scanning/recursion.md:40 promises the same set for every number.
4. *A breadth-first run ends below its total* (traversal.go:326, run `bfs_accounting`). With two
   or more extensions, `runBFS` passes over a level once per extension but counts a pruned
   subtree only in the last pass, so tried and skipped of a complete run stay below the
   announced number of candidates.
5. *A page in chunks escapes the size filter* (worker.go:333, run `unknown_size`). An empty body
   without a Content-Length keeps the length -1, for which the late size filter is skipped; and
   `--ms` rejects every body in chunks, because the early filter compares with -1.

With a configuration that shows them (the properties named in 10 to 14 are those of
`ProfileClaims.cfg`):

6. *A target that is stopped while it loads a wordlist is left as it is* (targets/manager.go:63,
   `StopsGracefully.cfg`). `Run` returns `context.Canceled`, the target job returns it without waiting for
   the coordinator (scan.go:939-941), and the next target starts while display, console and raw mode
   of this one are still there. docs/keyboard-shortcuts.md:20 says that `q` "gracefully stops the
   current target and moves on to the next one".
7. *A shutdown can be unsaid* (state.go:82, `ShutdownStands.cfg`). `Transition` "moves the state
   machine to a new phase if valid" (state.go:81), but it does not look at validity, and its callers
   test the phase in a step of their own (scan.go:797): `RUNNING` or `PAUSED` may be written over
   `SHUTDOWN_REQUESTED`. The run `pause` shows that nothing hangs because of it.
8. *Discovery suppresses words* (producer.go:104, `NothingSuppressed.cfg`). A producer skips a URL
   when discovery sent one that is equal in lower case and without slashes at its end, so `/a` is not
   requested after `/A` was found, and nothing counts it as skipped. docs/scanning/config.md:18
   guarantees that adaptive scanning "never suppresses or skips candidates".
9. *A probe can lose its own placeholder* (traversal.go:182, `HiddenProbe.cfg`). In `/FOO/FUZZ` the
   cut for the outer level removes the outer placeholder too, so all its values are asked for with
   one request; the comment at 154-155 says "never truncate into or before current/earlier level
   placeholders".
10. *Profiles and files cannot set the strategy of a fuzz run* (fuzz.go:1640,
    `ProfileSetsStrategy`). The flag has the default "eager" and is copied whenever it is not empty;
    docs/configuration.md:48-51 and the embedded profile fuzz-extra/cookie set it.
11. *Profiles and files cannot set the URL of a scan* (scan.go:1411, `ProfileSetsUrl`). The targets
    of the command line, none without `-u`, replace it before scan.go:422 looks for it there.
12. *A template beats flags* (scan.go:436, `FlagSetsMethod`). If a profile or file names a request,
    method, data and headers of the configuration are replaced by those of the first target; with
    `-u` that has none, since only `--request` loads a template. docs/profiles/guide.md:195 says that
    any flag overrides the profile.
13. *A fuzz command with the URL of a profile does nothing* (fuzz.go:746, `FuzzHasTarget`). The
    check for a target passes (fuzz.go:459), but the list of targets was made from the flags.
14. *A profile may be resolved twice* (resolver.go:52, `DuplicatesRemoved`). Under two names (fuzz/x
    and fuzz-extra/x, or its base name) it is listed twice, against "with duplicates removed"
    (resolver.go:20-22).

Noticed while modelling, without a run. In the scan session:

- *The shared drain context* (scan.go:484, :810). While a target is shutting down, because it
  completed or because of `q`, Ctrl+C or `a` only cancels `drainCtx`: `ctx` stays live, the next
  target starts, and every request of it fails at once. docs/keyboard-shortcuts.md:21 says
  "Aborts everything".
- `RunDiagnostics` (scan.go:868) sleeps and prints all goroutines to stderr whatever happened
  meanwhile, in a scan of several targets into the display of a later one. The comment at
  scan.go:863 limits it to a shutdown that "takes too long".
- The error of `Produce` is dropped (scan.go:1000): a wordlist that cannot be read to its end
  looks like a complete scan. `EveryWordOnce` leaves that exit out (`reader.at # "broken"`).
- A body that breaks off between 4096 bytes and 1 MB is shown by a fuzz run that needs no body
  (fuzz/worker.go:310 drops the error) and filtered by a scan (engine/worker.go:314, :351).
  `PipelinesAgree` names the case (`Overlooked`).
- A pause stops a worker only at the gate: one that is past it starts its job when the limiter lets
  it (worker.go:103), however long the scan has been paused by then.
- `SetOnlyRedirects` "configures whether the manager should only report findings reached via
  followed redirects" (manager.go:89), but manager.go:313 also passes the option to the pool,
  where worker.go:227-249 rejects every other response below the root, so it prunes the
  traversal as well. The model includes it (`ResultOf`, `hidden`).
- A recursive scan does not give the manager a `PauseBlocker` (scan.go:880-941), so `p` shows
  "paused" and pauses nothing; docs/keyboard-shortcuts.md:18 describes a pause.
- The contract of the terminal (terminal/manager.go:150-157) gives no owner to
  `WAITING_WORKERS`, `FINALIZING` and `DONE`; main releases `OwnerProgress` only after
  `TERMINAL_SHUTDOWN` (scan.go:1040-1051), and quiet mode leaves `OwnerSummary` at `DONE`.
- In the statistics view every key, `q` and Ctrl+C included, only closes the view
  (console/controller.go), where docs/keyboard-shortcuts.md:21 calls Ctrl+C "always active".
- When the recursive `Run` fails with an error that ends the command, scan.go returns
  (cmd/scan.go:940) without waiting for the coordinator, which is the goroutine that restores the
  terminal; the shell may find it raw.
- The goroutine that reads the keyboard outlives its controller and can take one key from the
  next target (console/controller.go:66).
- A breadth-first generator with extensions indexes its wordlist before it tests whether the
  list is empty (recursion/generator.go:161).
- A result hidden both by `--only-redirects` and by a display filter is counted as filtered
  twice (manager.go:493-508).

In the fuzzer:

- The URL of a probe is cut behind its level (traversal.go:178-184), although the comment at 154
  keeps the query and everything after it.
- An empty list of the FUZZ placeholder makes the estimate 0 (strategy.go:204-262). An eager run
  then sends nothing, but the other strategies send a candidate with the empty word and count it,
  which exceeds the estimate. `AccountingCorrect` is about the other plans.
- An eager visit below an adaptive decision calls `yield` from several goroutines
  (traversal.go:681), and the formatters behind it have no lock.
- A list whose placeholder is not in the request (`-w` or `--foo` given, but no FUZZ or FOO) still
  multiplies the candidates of an eager run (strategy.go:427-447) and the estimate of every strategy
  (strategy.go:238-249): the same request is sent once per word, and the other strategies,
  whose levels are the placeholders that occur, end below the announced total. Extensions without
  FUZZ repeat the eager requests too, but are not in the estimate. `InUse` leaves such plans out.
- `generator.go` and `generator_template.go` are used by tests only; a placeholder in the method
  is found but never substituted.

In configuration and profiles:

- Fuzz ignores the wordlist and the format of a profile (fuzz.go:523, :696-716).
- `--http-version` has no key in a document, so the importer drops it, and a profile made from a
  command line with it means another protocol version (importer.go:307). With `--request` it
  stores the name of the template, which a later `-u` command does not load: URL, method and
  cookies of the template are lost. An imported fuzz wordlist, strategy or format is stored and
  never used.
- With two stacked profiles each has a resolver of its own (scan.go:366), so a base they share
  is applied again after the first profile and undoes it.
- `profile edit` does not compare the name inside the edited text with the file
  (editor/session.go:141): renaming there, or editing under the older name fuzz/x, saves a file
  for which `readUserProfiles` fails, and with it every later command on any profile. A failed
  save removes the temporary file, and the edit with it.
- `Create` checks and writes in separate steps and `WriteFile` is not atomic (loader.go:217-243):
  a file made in between is overwritten, and a command that reads at that moment fails.
- An empty `--regex-scope ""` means the body when it is given directly (filter.go:86-88) and is
  ignored in a profile (overlay_scan.go:386), so importing it changes the scope back to the URL.
- An import keeps the flag `--mc` but not its effect of clearing the excluded codes. `recurse-on`
  is not validated and is ignored when it does not parse, and so is an empty `exclude-status`,
  which `profile explain` shows as in force; explain shows the older key `output` instead of
  `format`.

## Not modelled

Formatting and layout (output formats, telemetry, progress rendering, listing, showing and drawing
profiles), encoders and request templates, update, news, doctor and release: sequential input and
output with nothing a model checker adds. Fingerprinting, robots and sitemap: pure parsing; what
they find enters `Recursion` and `FlatScan` as data. The scores of adaptive discovery: arithmetic
on counts; `FuzzTraversal` allows every order they may give.

Inside the modelled components: `RemainingSubtreeWork` and the sampling window of the statistics,
whose slots are written in three stores that another sampler may see apart (stats.go:91), since
only the display reads them and the next sample corrects it; the wildcard detector, which every
command disables; the dry run; the text syntax of status, size and extension expressions. The
pool's `Scanner` and the engine's `SliceProducer` are used by tests only. A fuzz command's own
session (signals, console, display) repeats that of `Session` with one target and is not
modelled a second time.

## Plan

The modules of the plan are written, and every safety property that a passing run checks is
proved. What is left is beyond the prover (the liveness properties) or among what
[is not modelled](#not-modelled).
