# TLA+ models of vc-frame

vc-frame is a terminal multiplexer: a server process per session, clients that
attach to it, and WebAssembly plugins that run inside the server.  The server is
a handful of threads that own their state and talk over channels; what is hard
about it is what happens between them.  The modules in this directory model
those protocols, TLC checks them on small instances, and TLAPS proves some of
the results for every instance.

## Running

    tlc -workers 2 -config PinnedExecutor_safety.cfg MCPinnedExecutor.tla
    tlc -workers 2 -config LayoutTransaction_decide.cfg LayoutTransaction.tla
    tlc -workers 2 -config CliPipes_safety.cfg CliPipes.tla
    tlc -workers 2 -config SessionState_saves.cfg SessionState.tla
    tlc -workers 2 -config RunTransfer_finish.cfg MCRunTransfer.tla
    tlc -workers 2 -config HostQueries_replies.cfg MCHostQueries.tla
    tlc -workers 2 -config SessionChrome_counts.cfg SessionChrome.tla
    tlapm PinnedExecutor_proofs.tla
    tlapm CliPipes_proofs.tla
    tlapm SessionState_proofs.tla
    tlapm RunTransfer_proofs.tla
    tlapm LayoutTransaction_proofs.tla
    tlapm SessionChrome_proofs.tla
    tlapm HostQueries_proofs.tla
    tlapm HostQueries_answers.tla

`PROJECT.json` lists every run with what it is expected to show, the source
lines of every definition, and one deliberately broken variant (`Mut...`) for
every property (two for `SuccessIsWhole`), which TLC must refute.

## Inventory

`server` below stands for `src/zellij-server/src`, `utils` for
`src/zellij-utils/src`, `client` for `src/zellij-client/src`.

| part | state | operations | interacts by | hard because | correct when |
|---|---|---|---|---|---|
| Pinned executor (`server/plugins/pinned_executor.rs`) | slots, `plugin_assignments`, `thread_plugins`, busy counts, one queue per thread | register, execute, load, unload with a receipt, shrink, drop | called by the Plugin thread and download tasks, runs jobs on its threads | three mutexes, taken and released in the middle of operations | a plugin stays on a live thread, no accepted job is lost, calls return |
| Layout transactions (`server/screen.rs`, `plugins/mod.rs`, `wasm_bridge.rs`, `pty.rs`) | Screen: active and quarantined transactions, pending tabs; Plugin: reservations and receipts; PTY: ledger, receipts, debts | prepare, activate, commit, reject, compensate, reconcile | Screen to Plugin to PTY to Screen by channel, acks with time limits | timeouts with late effects, repetition, failures of each step, a tab closed meanwhile | all of the layout or nothing, once, eventually |
| CLI pipes (`server/plugins/pipes.rs`, `wasm_bridge.rs`, `client/cli_client.rs`) | pending pipes, caches of loading plugins, the map of instances | pipe a line, answer, load, attach, unload | CLI client to Plugin thread to plugin threads, back directly or through Screen | answers overtake each other, plugins come and go with lines in hand | one line at a time, nobody waits for somebody who is gone |
| Action completion (`server/route.rs`) | a one-shot channel in each `NotificationEnd`, its resolution | complete, fail, drop, wait with a time limit | travels through every thread with its instruction | dropped on any path, completed after the wait ended | a failed action never reports success |
| PTY writer (`server/pty_writer.rs`) | a queue of writes per terminal | write, drain, resize | Screen and PTY send, the kernel accepts or not | partial writes, a full queue | bytes stay in order, completions match what was written |
| Client queue (`server/os_input_output.rs`) | a bounded channel per client | send, evict | every thread sends, a forwarding thread per client | a client that does not read | others are not held up, eviction happens once |
| Host query forwarding (`server/screen.rs`, `host_query.rs`, `panes/terminal_pane.rs`, `tab/mod.rs`, `client/lib.rs`) | paused panes and what they hold back, a queue of forwards with tokens, a slot in the client | pause, forward, answer, time out, flush, resume | pane to Screen to the main loop to the client's terminal and back, then PTY writer | late answers, two timers, clients that leave, panes that scroll, move or close | each query is answered once, in the order of the output |
| Session state persistence (`server/background_jobs.rs`, `pty.rs`, `screen.rs`) | generations per session name, a cached capture, files on disk | capture, reserve, commit if current, rename, exit, resurrect | Screen reserves; captures travel through Plugin and Pty to a metadata loop, or straight to Pty, which writes | two ways to the disk, crashes between files | the newest layout stays on disk and never refers to contents that are missing |
| Session chrome (`server/plugins/wasm_bridge.rs`) | one runtime per kind with a count of projectors | reserve, activate, compensate, unload | shared by the layout transactions of all tabs | counts kept in four places | a runtime lives as long as somebody projects it |
| Run transfer (`utils/run_triage.rs`, `src/src/run_triage_cli.rs`, the viewer tabs of `server/screen.rs`) | a receipt, a manifest and the captured files on disk; in each drawer session the viewer tabs with their fences and tombstones | settle, capture, prepare, show, acknowledge, close the origin, reclassify, retire | the transfer command, the sessions of the drawers and of the run, through files and actions | crashes between any two steps, a drawer restored from an older save, an outcome revised meanwhile | nothing captured is lost, a viewer is never forgotten, the run's own tab is closed last |
| Screen and tabs (`server/screen.rs`, `tab/`) | tabs, panes, focus and mode per client | some two hundred actions | single thread | long sequences of actions | focus names a pane that exists |
| The rest: terminal grid, rendering, pane geometry, configuration, wire format, web client, default plugins, packaging | | | | sequential, data-heavy or output | see the notes in `PROJECT.json` |

## Modules

| module | models |
|---|---|
| `PinnedExecutor`, `MCPinnedExecutor` | the plugin thread pool, at the grain of its mutexes |
| `LayoutPlugins` | the Plugin thread's part of one layout transaction: reservation, receipts, activation, compensation, a loader that fails later |
| `LayoutPty` | the PTY thread's part: ledger, receipts, resolution and preparation debts, terminals |
| `LayoutTransaction` | Screen, its background worker and the channels; EXTENDS the two parts and composes them |
| `LayoutOutcome` | the abstract promise of a transaction, which LayoutTransaction implements |
| `CliPipes` | one CLI pipe: CLI client, Plugin thread, plugin threads, Screen |
| `SessionState` | how a session is saved for resurrection: Screen, the channels, the metadata loop, the two writers and the disk |
| `ViewerDrawer` | the viewer tabs of a drawer session: fences, requests, layouts on their way, saves and restarts |
| `RunTransfer`, `MCRunTransfer` | the transfer of one run between its session and the drawers; EXTENDS `ViewerDrawer` |
| `PtyWriter` | the PTY writer's queue for every terminal |
| `HostQueries`, `MCHostQueries` | queries that programs send to the host terminal; EXTENDS `PtyWriter` |
| `SessionChrome` | the session chrome that the layout transactions of all tabs share |
| `PinnedExecutor_proofs`, `CliPipes_proofs`, `SessionState_proofs`, `RunTransfer_proofs`, `LayoutTransaction_proofs`, `SessionChrome_proofs`, `HostQueries_proofs`, `HostQueries_answers` | the theorems about these modules and their proofs |

### PinnedExecutor

Variables stand for the fields of `PinnedExecutor`: `slot`, `chan` and
`inflight` for `execution_threads` and each thread's queue and `jobs_in_flight`,
`assignments` and `threadPlugins` for the two maps, `nextIdx` for
`next_thread_idx`, `lockA`, `lockT`, `lockE` for the mutexes.  A step is what
happens between two acquisitions of a mutex, so every place where the code
releases one and continues with what it has read is an interleaving point.
Callers are the Plugin thread and the tasks that download a remote plugin;
workers are the pool's threads.  Spawning may fail, a job may panic, and a
receipt may time out while its job is still queued.

### LayoutPlugins, LayoutPty, LayoutTransaction

One `NewTab` transaction from `register_layout_transaction` to the end.  Each
handler of a thread (`ResolveLayoutPlugins`, `LayoutCommitResolved`,
`ApplyLayout`, `LayoutPreparationFailed`, ...) is one action, because a thread
handles a message to its end; Screen and its worker block inside a coordination
for acks, and each call, ack and timeout there is an action.  A coordination is
a record (its intent, the call it is at, the attempt, the text of the
rejection); the pure operators `Continues`, `Certifies`, `NextCalls` and `Outcome` are
`coordinate_layout_activation`, `..._rejection` and
`certify_layout_preparation_cleanup`.  A layout is reduced to whether it has
plugins with a runtime of their own and panes that project a shared one
(`Shapes`).  An ack is lost by a timeout before its request is handled; the
request then stays in the channel and is handled when nobody waits any more.
A request whose ack is lost after it was handled leaves the same state.

Not modelled: `BreakPane`, `OverrideLayout` and `DurableRecovery` transactions
and the preserve flags; threads that are gone (delivery errors); the rollback
when the PTY thread exits; the eviction of receipts after 256 or 512 later
transactions; the counts shared between transactions.

### LayoutOutcome

Three variables: what Plugin holds, what PTY holds, what Screen decided.
Plugins go live only when terminals are held, terminals only when plugins are
live, Screen commits only when both are, gives up only when neither is, and
nothing is freed after a commitment or comes back.  `LayoutTransaction`'s
mapping (`PluginsBecame`, `TerminalsBecame`, `Decided`) reads that off the
receipts, the ledger and Screen's decision.

### CliPipes

`pending` is the entry of `pending_pipes` for the pipe, `loading` and `cache`
the keys and values of `cached_events_for_pending_plugins`, `known` the
`cached_plugin_map`, `jobs` the queue of each plugin's pinned thread, `inbox` and
`screen` the two channels.  Every handler of the Plugin thread is an action;
unloading waits for the plugin's jobs, as `cleanup_layout_plugin` does.  A
plugin may block or unblock the pipe when it runs a line or an event, may
render (its answer then goes through Screen) and may trap.  Not modelled:
permission requests, `remove_client`, `reload_plugin`, unloads that time out,
a CLI client that goes away, and pipes that come from keybindings or plugins.

### SessionState

A version numbers a state of the session, and the content of a file is the
version it was captured from, so "stale" and "torn" are comparisons of numbers.
Screen captures and reserves a generation in one step
(`serialize_layout_for_resurrection`, `save_session`); the capture is a message
in `toPlugin`, `toPty` or `toJobs` and, in background jobs, the cached `job`.
The metadata loop reads `current_session_name`, `_info` and `_layout` under
three locks, so its round (`loop`) takes a step for each.  `writer` is the closure
that runs under the mutex of the generation map in `commit_if_current`; every
file it writes is a step, after which the process may die or the write fail.
`next` and `latest` are the fields of the coordinator; `disk` is the folder of
every name, `files` the pane contents that a layout refers to.  A former name of
a renamed session is neither taken again nor renamed.  The Pty thread and the
metadata loop both want the mutex and may find it taken again and again, hence
strong fairness for both.

Not modelled: the contents of layouts, and the sessions that are deleted by a
user while they run.

### ViewerDrawer, RunTransfer

A run that has settled is moved into the drawer of its outcome.  `RunTransfer` is
the transfer command: it reads the receipt on disk and goes through settle,
dump, manifest, rename, request, confirmation, closing of the origin tab; every
write of the receipt is atomic (a rename) and every other write a step of its
own, and the command may die after each.  One transfer runs at a time because
it holds a lock that the system releases when it dies.  `ViewerDrawer` is what
`screen.rs` does with the viewer tab in each drawer: `NewTab` with a fence,
`ApplyLayout` for the tab or for none, rollback, the tombstone of a retired
viewer, the saving of the drawer (newest generation only, as `SessionState` shows)
and its restart from what was saved.  An outcome
is an exit code and the caller's verdict, if it gives one.  The verdict names one of
the three drawers; without one 0 goes to "Finalized runs" and any other code to "Needs
attention", never to "Failed runs" (`ForExitCode`, `Bucket`).  A run may settle again
with another outcome; a settlement with another code or another drawer (`Changed`)
reclassifies it, and the old viewer, in another drawer or in the same one, is retired.

The code's reconciler that repeats a failed transfer is external: it is assumed
to be fair.  Tab ids are abstracted to the drawer's incarnation, and the wait for a
session's readiness to a guard.  The branches that compare identities which
cannot differ here are left out, and a receipt that cannot be written is a crash at
that point.  Settlements are numbered from 1: revision 0, the path by hand, can only
resume the outcome it began with and is left out, and so is a request that names a
known revision with another outcome, which is refused without an effect.  Steps that
check and then send are merged where the server checks the tab's identity again: in
the recovery of a viewer and in the closing of the run's own tab.

## What the runs show

| run | bounds | states | shows |
|---|---|---|---|
| `executor_safety` | 3 plugins, Plugin thread and one download, 2 threads, 3 calls, timed-out receipts | 116,288 | `TypeOK`, `AssignedThreadLive`, `MapsAgree`, `AcceptedJobsKept`, `BusyCountExact` |
| `executor_live` | 3 plugins, one caller, 3 threads, 5 calls | 610,394 | `ReceiptsTrue`, `CallsReturn`, `DroppedPoolStops` |
| `executor_locks` | 2 plugins, one download | violation | `NoLockCycle`: a lock-order inversion |
| `layout_decide` | 4 shapes, 2 attempts, 4 lost acks, 3 faults of any kind, a client that closes the tab | 46,424 | `TypeOK`, `CommitIsWhole`, `RejectionLeavesNothing`, `QuarantineKeepsTab`, `GateOpens`, `EndIsFinal`; `KeepsPromise`, the implementation of `LayoutOutcome`; `Decides` |
| `pipes_safety` | a running plugin and up to 2 loads, 2 clients of which one attaches, 2 lines, one event, a cache of one, traps and failed loads | 1,947,221 | `TypeOK`, `UnloadFrees` |
| `pipes_live` | a running plugin that blocks and unblocks and 2 loads, all but the last of them unloaded, 2 clients, 4 lines | 1,437,575 | `NobodyForgotten`, `LineByLine`, `LineReleased` |
| `pipes_attach` | one plugin, 2 clients attach one after the other | violation | `PipedIsCalled` |
| `session_saves` | 2 names, one contents file, 2 versions, 2 reservations of each process, one rename, end or failed write | 229,724 | `TypeOK`, `NoStaleContents`, `NewerOnly`, `ExitKeepsLastSave`, `SaveLands` |
| `session_torn` | the same with one name | violation | `ResurrectsOneSave` |
| `transfer_finish` | 2 drawers, 2 settlements with 3 outcomes, 2 tokens, 2 origin tabs, one fault | 705,989 | `TypeOK`, `CaptureKept`, `NoOrphanViewer`, `OriginClosedLast`, `SuccessIsWhole`, `TransferSucceeds` |
| `host_replies` | 2 programs, one of which reads, one client of any kind, a writer's queue of one, 2 items held back, 2 troubles | 295,140 | `TypeOK`, `AnswersInOrder`, `OutputKept`, `Settles` |
| `chrome_counts` | 3 transactions, 2 kinds and a plugin of the tab's own, panes and tabs are closed, one fault | 1,453,082 | `TypeOK`, `CountsExact`, `RejectedLeavesNothing`, `ClosingSparesOthers` |

Nine more configurations state what the code does not do and are kept to be run
by hand; TLC refutes each of them, see "Divergences found":
`LayoutTransaction_rejection.cfg`, `LayoutTransaction_loader.cfg`,
`LayoutTransaction_mismatch.cfg`, `SessionState_clean.cfg`,
`RunTransfer_blank.cfg`, `RunTransfer_healed.cfg` (both of module `MCRunTransfer`),
`SessionChrome_close.cfg`, `HostQueries_late.cfg` and `HostQueries_several.cfg` (both
of module `MCHostQueries`).

### Why the bounds are enough

* Executor: two threads are the smallest pool that expands, shrinks and fills;
  three plugins put two on one thread; three calls let a caller act between the
  halves of another's operation.  The capacity is a constant, and the theorems
  hold for all of them.
* Layout: two attempts instead of three already separate "first", "repeated" and
  "given up"; four lost acks allow a whole coordination to be lost and repeated
  by the worker; three faults let each of Plugin, PTY and the loader fail in one
  behaviour.
* Pipes: a second load needs two ids beyond the running plugin; two lines are
  the shortest pipe on which an answer can release the wrong one, four leave
  room for a surplus release to show two lines later; a cache of one makes the
  4096-entry cap bite.
* Session: two versions are an older and a newer one, two reservations let the
  one capture overtake the other on the second way to the disk; a second name is
  what a rename needs.  One trouble puts a crash, a failed write or a rename
  before or after every step of both writers.
* Transfer: two settlements reclassify the run once.  The first outcome is code 0 with
  the verdict "Needs attention"; the second has the same code without a verdict, which
  is another drawer, or code 1 without a verdict, which is the same drawer, or nothing
  new.  So each half of `Changed` is the only one that is true at some time, and one and
  two drawers are involved; the third drawer is like the others, a drawer by name is
  only in `Bucket`, and the theorems hold for any number of them.
  Two tokens are the first request and its repetition; two origin tabs let the
  closing of one fail or be answered for the other.  One fault is a crash at any step,
  a restart, a damaged file or a closed tab; with two the state space passes eleven
  million states.
* Queries: of two programs one competes for the client's slot; a writer's queue of one
  makes the cap bite; a chunk that is held back needs a second one behind it.
  Scrolling, moving, closing and leaving count as one trouble, a late answer or an early
  timer as two, of a budget of two: a late answer does not meet another trouble.
* Chrome: three transactions are an authority, a projector and one more that comes
  after a failure of either; two kinds let a resolution fail between them; one fault is
  each kind of failure before or after every step.

Deadlock is checked where the system never stops.  The executor's
`executor_safety` run allows it, because of the lock-order inversion below; a pipe
ends with its last line, a session and a transfer when all is written and the
bounds are used up, the programs of `HostQueries` when they have printed all they print.

### Fairness

* `PinnedExecutor!FairSpec`: threads that hold a lock go on, waiting threads get
  it (Rust's mutexes are not fair, but each is free infinitely often in these
  runs' finite work), workers run their jobs.  Nobody is obliged to call.
* `LayoutTransaction!FairSpec`: each thread keeps serving its channel, the
  worker's thread runs, and the PTY thread keeps getting other instructions,
  which is where it retries its debts (`pty_thread_main` does so after every
  instruction, and all tabs share the thread).  No client is obliged to act and
  nothing is obliged to fail; lost acks and faults are bounded, which says that
  they do not go on for ever.
* `CliPipes!FairSpec`: the Plugin thread, Screen and the plugins' threads serve
  their queues and loads end; the CLI client reads its socket and its standard
  input.
* `SessionState!FairSpec`: Screen's timer, the channels' threads, the metadata loop
  and the writer under the mutex go on; the Pty thread and the loop get the mutex in
  the end although others retake it (SF: a thread that sleeps a second between its
  rounds cannot keep it from the other).
* `RunTransfer!FairSpec`: the transfer command goes on once it runs, the reconciler
  starts it again for the newest settlement (SF, because the lock is taken meanwhile by
  a transfer of an older one), a drawer handles its requests and saves land.  Faults
  are bounded.
* `HostQueries!FairSpec`: Screen, the main loop and the writer serve their channels,
  timers fire, a terminal that knows the message answers in the end, programs in
  `Readers` read.  Nobody is obliged to print, scroll or leave.

## Divergences found

Three of these are `violation` runs; `PROJECT.json` quotes the lines.

* `executor_locks`: `register_plugin` takes `thread_plugins` before
  `execution_threads`, `try_shrink_pool` the other way round.  A download task
  and a worker that finishes an unload can block each other and the pool.
* `pipes_attach`: `add_client` replaces the caches of all plugins by empty ones.
  When a second client attaches while instances load for the first, a cached
  line is never run and its CLI client waits until the plugin is unloaded.
* `session_torn`: the contents files of every save have the same names,
  `initial_contents_1` and so on.  A process that dies between a contents file and the
  layout, the commit point, leaves the old layout with the new contents.

The others are configurations to be run by hand:

* `LayoutTransaction_rejection`: PTY's receipt of a rejection compares texts.  A text
  that was made up from the attempt that failed differs at the next repetition,
  which is then refused as conflicting for ever.
* `LayoutTransaction_loader`: the compensation that a failed loader triggers is
  recorded with the ids of the runtimes, Screen's later request names all panes; it
  is refused as a replay conflict.  The projectors stay bound.
* `LayoutTransaction_mismatch`: a tab closed while PTY fails to prepare it leaves a
  quarantined rejection that PTY does not know of and never acknowledges.  The
  pending gate stays closed.  `Decides` leaves these three cases out.
* `SessionState_clean`: a generation is reserved before it is known that the layout is
  clean and not to be saved; the reservation then fences off every other save until the
  next one, and the session's info is not published.
* `RunTransfer_healed`: an `ApplyLayout` whose local generation is stale returns before
  the fence is compared and discards the tab, although the comment in `screen.rs`
  (11606) says that a tab of a newer fence is kept.  The transfer opens it again.
* `RunTransfer_blank`: a pending viewer tab is saved as a tab with an empty pane; after
  a crash it is restored with a shell in it, which `bucket_tab_ready` takes for the
  viewer, although `run_triage.rs` (965) wants proof that the viewer "has materialized its
  runtime layout".
* `SessionChrome_close`: closing the tab whose pane started a shared runtime cleans up
  by pane ids and never looks at `session_chrome_projectors`: the runtime is unloaded
  under the other tabs, its authority keeps its count, and tabs that are opened later
  project a runtime that is gone.  Closing that pane alone keeps it, as the test
  `closing_one_projector_keeps_singleton_authority_alive` (`wasm_bridge.rs`, 4734) wants.
* `HostQueries_late`: a host terminal that answers after the client's timer fills the
  next query's slot; "The pane that asked gets the captured bytes piped to its pty."
  (`client/lib.rs`, 1076) does not hold then.
* `HostQueries_several`: the first of two answers to one sequence resumes the pane, and
  what the pane answers itself overtakes the second; the comment at `tab/mod.rs`, 3893
  says that one flag is enough for any number of queries.

Seen while modelling and not stated as properties:

* `register_plugin` compares `threads.len()`, which never gets smaller, with
  `max_threads`: a pool that has expanded and shrunk does not expand again.
* A `Block` that reaches the Plugin thread while the pipe has no entry (called
  from `update`, or late) unblocks the pipe instead: the `None` branch of
  `update_pipe_state_change`.
* A pipe whose blocker is unloaded keeps its explicit block when another plugin
  is still processing: nobody is left that would unblock it but the others' answers.
* A cached line is run for every connected client, but `pipe_messages` marks only
  the instances it was directed at; surplus answers each release the CLI client
  a line early.  So does an answer that comes through Screen after its plugin
  was unloaded.  This is why `LineByLine` is checked on running plugins only.
* A failed load for an attached client never sends `ApplyCachedEvents`; its
  plugin caches everything from then on.
* PTY keeps the receipts of 256 transactions, Screen and Plugin of 512: a resolution
  that is repeated after its receipt was evicted is unknown to PTY alone.
* An activation that is rolled back leaves the authority, without projectors, to a
  runtime that is gone; the next layout projects it.
* A compensation that is repeated after its cleanup failed takes the projectors off the
  count again, and drops every authority without projectors, also one that another
  transaction has just reserved.
* A shared runtime that does not stop is asked to unload once more under its own id.  If
  the pane with that id has been bound again meanwhile, to a runtime that replaced it,
  `unload_plugin` takes the pane off the count of that one, and its own unload, which is
  still to come, stops the pane's former runtime.  The attempt to prove `CountsExact` found this;
  three transactions are too few for it, and `torn` excuses the kind.
* Compensating the transaction that started a shared runtime stops it under a tab that
  has committed; so does a loader of it that fails.
* `scroll_terminal_down` and `scroll_to_top` of a tab end the scrolling without handing
  on the output that was held: it is shown later, behind newer output.  A scrolled pane
  that is moved to another tab leaves its held output in the old one.
* The metadata loop reads name, info and layout under three locks, so a session's
  metadata may go back by one round.

## What is proved

`PinnedExecutor_proofs` proves, for any set of plugins and downloads, any
`MaxThreads >= 1` and any number of calls (`PoolAssumption`):

* `TypeCorrect`: the type invariant, in particular that no thread index passes
  `MaxThreads`;
* `MappingsAgree`: `plugin_assignments` and `thread_plugins` say the same;
* `PinnedThreadStays`: no thread that a plugin is pinned to is taken away;
* `JobsKept`: `AcceptedJobsKept`, that a `Shutdown` is the last message of its channel
  and a worker that left its loop left no job behind;
* `BusyCounted`: `BusyCountExact`, that `jobs_in_flight` is the number of a thread's
  unfinished jobs;
* `ReceiptsTold`: `ReceiptsTrue`, that the receipt of an unload says what became of the
  plugin, as long as the plugin thread waits for each (`ReceiptTimeouts = FALSE`);
* `OkReceiptsTold`: that an Ok is true with timeouts and late receipts too.

None of them is inductive alone.  `MapsAgree` is broken between the two
insertions of `register_plugin` and the two removals of an unload unless one
knows who holds which lock (`LockInv`), that a caller that is registering has
found no assignment and still holds A (`RegisterInv`, `LookupInv`), which index
it is spawning (`SpawnInv`) and that no two processes have one plugin's unload
in hand (`JobsInHand`).  `IInv` is their conjunction; `InitInv` establishes it
and one lemma for each conjunct (`TypeStep`, `JobsStep`, ...) shows that each
action preserves it.

`JobsKept` and `BusyCounted` rest on `IInv /\ JInv`.  `WorkersSee` sums up what the 22 actions can do to
one worker (`Rests`, `Sent`, `Told`, `Receives`, `Ends`, `IsBorn`), and `ChannelsStep`
goes through these six instead of the actions.  A `Shutdown` is last because a slot is
emptied in the step that sends it (`ChannelInv`: a live slot of a pool that was not
dropped has no `Shutdown` in its channel) and because nobody sends once the pool is
dropped (`DropInv`: the drop owns the pool, so no call and no unload is left).
`CountInv` states the count without a cardinality; `JobsCounted` turns it into one.
TLC checks these five properties on `executor_safety`, and checked the conjuncts of
`JInv` there before they were proved.

The receipts need the history of a plugin.  Its one load registers it, and when the
registration is over the plugin is settled for good: from then on it can only lose its
thread (`Settled`, `SettledStays`).  A load rolls back only a plugin that is gone or pinned
to a thread that never ran (`PlacedInv`), so a worker's unload is the only other thing
that unregisters.  Without timeouts at most one unload is on its way, it is the one the
plugin thread waits for, and it is in the channel or the hands of the thread that the
plugin is pinned to (`UnloadInv`, `OneUnload`); so nobody but its worker takes the thread
away, and the receipt it sends is still true when it is read (`WaitInv`).  With timeouts
TLC finds the Err half violated: an unload that was given up unregisters the plugin after
a later one was told Err.  The Ok half stays true for another reason: a receipt goes to
the call whose number its job carries (`MailInv`, `OwnInv`), and a worker that sends Ok
has unregistered a settled plugin, which stays unregistered (`GoneInv`).

`CliPipes_proofs` proves, for any number of plugins, any finite set of clients,
any number of lines and events, any cap and any faults (`PipeAssumption`):

* `TypeCorrect`: the type invariant, in particular that no cache of a loading
  plugin outgrows its cap;
* `UnloadingFrees`: `UnloadFrees`, that no pipe waits for a plugin whose unload
  was handled, and that an entry of `pending_pipes` that nothing holds is gone;
* `NobodyIsForgotten`: `NobodyForgotten`, that every instance which the entry waits
  for still has the line, in behaviours without the four things that lose it: a
  trap in a plugin, a load that fails, a client that attaches (`Undisturbed`), and
  a cache of a loading plugin that fills up (`NoneFull`);
* `OneLineAtATime`: `LineByLine`, for plugins that do not answer for the pipe while
  they handle an event (`EventCalls = {}`).  With such answers TLC finds it violated:
  `update_cli_pipe_state` takes any answer for the end of the instance's line.

`UnloadFrees` is not inductive alone: a line could be marked again for the
plugin that was unloaded.  `IInv` adds that such a plugin is `Gone` (no jobs, not
loading, in none of `plugin_map`, `cached_plugin_map` and the entry, and its id
was handed out already), which holds because the unload runs behind the plugin's
jobs (`UnloadMakesGone`) and stays because messages go only to instances and
loading plugins, caches are flushed only to instances, and new plugins get new
ids (`GoneStays`); that an entry without reasons is removed (`EntryMeant`); and
that only plugins that exist are asked to unload (`AskedExist`).  `UnloadWaits`
says that an unload leaves the channel only by being handled.  `KeepType`,
`SetToSeqType`, `RoundBounds` and `FlushedType` are the facts about the queues.

`NobodyForgotten` needs to know where plugins load (`LoadInv`): an id that was not
handed out is `Absent` everywhere; a plugin's load is the first of its jobs, and a
plugin that counts as loading has an instance for every connected client or still
has its load (`Loads`).  So when `ApplyCachedEvents` is handled, the load is
behind the plugin, each instance that was marked for a cached line exists, and
`FlushedHolds` finds its job in the flushed queue (`WaitApplied`).  The hypotheses
are exactly where the code loses lines: a trap answers nothing, a failed load
leaves no instance to flush to, `add_client` empties the caches of all plugins
(the run `pipes_attach`), and a full ring buffer drops its oldest item, which may
be the only line among events.  Events, blocks, unblocks, unloads, loads for a
line and answers through either channel are all within the theorem.
`SetToSeqLists`, `HoldsJoined`, `HoldsTail`, `KeepAll` and `RoundPlace` are the
facts about the queues that it needs.

`LineByLine` is about a `Calm` system, in which nothing was loaded or unloaded since
the pipe was opened, and a system that is calm was so before (`WasCalm`), so
`LineInv` says something of calm states only.  Then nothing loads and the queues
hold lines, events and answers (`Quiet`); each instance that the entry waits for has
the line in one place at most, as a job, on its way to Screen or on its way to the
Plugin thread, and no other instance has it (`Traced`, `Marked`); and it is the
`Turn` of one line: either it is in the channel and the entry waits for nobody, or
with the instances that the entry waits for, or at most one unblocking is under way
and nobody is waited for.  So the answer that releases the pipe is the last trace of
the line (`CalmAnswered`).  Queues are counted with `None` and `One` (`TailOnce`,
`AddedOnce`, `JoinedOnce`); `Deliver` adds one job for each instance because
`SetToSeq` repeats nothing.  TLC checked `LineInv` before it was proved.

`SessionState_proofs` proves, for any names, contents files, versions and budgets
(`HomeAssumption`):

* `TypeCorrect`;
* `ContentsNeverStale`: `NoStaleContents`, that a layout on disk never refers to a contents
  file that is missing or older than it;
* `SavesInOrder`: `NewerOnly`, that no save replaces a newer one;
* `ExitKeepsSave`: `ExitKeepsLastSave`, that the last acknowledged save is on disk when
  all threads have ended in an orderly exit.

The first two need that the order of the generations is that of the versions (`InOrder`: every
capture in a channel, in the cache or in hand has a generation that was reserved for its
name, the one with the newest is not older than what is on disk, and one generation has
one version) and what the writer has written so far of the save in hand (`WriterHolds`).
The third adds `ExitInv`: an acknowledged save that is still the newest of its name is in
Pty's channel before Exit, in Pty's hands, or on disk, as long as no write failed.

`RunTransfer_proofs` proves, for any exit codes, verdicts, drawers, tabs, tokens and faults:

* `TypeCorrect`;
* `CaptureIsKept`: `CaptureKept`, that a receipt which says the scrollback is captured
  is never without it, unless somebody else damaged the file.

`CaptureInv` relates the receipt to the manifest and the files, `FilesInv` says that what
is staged belongs to the capture in hand and that two captures are never staged under
one name; the second is what a retried transfer could break.

It also proves, of the transfer together with the drawers' threads, restarts and saves:

* `NoOrphans`: `NoOrphanViewer`, that every viewer that is open, saved or about to be
  saved is the receipt's or has a tombstone in it;
* `OriginLast`: `OriginClosedLast`, the order of capture, metadata, confirmation,
  retirement and closing, and that only the captured tab is closed;
* `SuccessWhole`: `SuccessIsWhole`, that a transfer which succeeds leaves the metadata of
  its outcome and no viewer but one in the drawer of that outcome: the caller's verdict
  where there is one, and what the exit code alone can say where there is none.

`NoOrphanViewer` speaks of the receipt on disk, but any failure writes the one in memory,
and a viewer appears in a drawer whenever its fence still holds.  `ViewerInv` therefore
asks of both receipts that they account for all viewers (`Accounts`) and that a viewer of
the receipt's own token exists only where the receipt is marked, pending or with a known
identity (`Marked`): a changed outcome writes a tombstone for a marked viewer only, and
draws a token that no viewer and no tombstone has (`ReclassifiedIsSound`).  What the
drawers do is summed up in four effects (`Effect`: tabs are closed or the pending one
opened, the drawer restarts from what is saved, a layout is captured, a capture lands), so
the transfer's lemmas do not go through the drawers' twelve actions again; `ServerInv` has
what they need of the threads: one commit at a time, one saved layout, a generation in
every request.  A tombstone is dropped when the saved layout is read without the viewer.
That the viewer does not come back from a save that is still under way is `RetireInv`:
between closing and proof a drawer that shows the viewer again was restored from a layout
that has it, so that layout, or the one replacing it, fails the proof.  `OrderInv` says
what is on disk at each place of the transfer.  TLC checked the four on
`RunTransfer_finish` before they were proved.

`LayoutTransaction_proofs` proves, for any shapes of layouts, any number of attempts,
lost acks and faults:

* `TypeCorrect`;
* `CommitsWhole`: `CommitIsWhole`, that Screen commits only a layout whose plugins were
  activated, whose activation was never taken back, and whose terminals run;
* `QuarantineKeeps` and `GateIsOpen`: a quarantined transaction keeps its tab, and the
  gate is open once a transaction is over.

The last two follow from what Screen's variables have to do with each other (`ScreenInv`).
The first needs the history of the transaction.  `Early` holds until Screen takes PTY's
report: there is one message in the system, and nothing was resolved.  `Later` holds from
then on: a coordinator without an answer waits for one request (`CallInv`), an answer
agrees with the receipts (`ReplyInv`), and a release is asked for only of plugins that
cannot be activated any more or whose activation was never asked for (`Cannot`,
`NeverAsked`).

Its second half proves, under the same assumptions:

* `RejectionLeaves`: `RejectionLeavesNothing`, that no thread holds anything for a
  transaction that was given up;
* `EndsFinally`: `EndIsFinal`, that nothing which is still queued or paid late changes
  what the threads hold once a transaction is over;
* `PromiseKept`: `KeepsPromise`, that the transaction implements `LayoutOutcome`.

The three rest on `OutcomeInv`: what each thread keeps fits its own state (`PluginsFit`,
`TerminalsFit`), a call is made only when its ground is laid (`CallsFit`: PTY is asked to
commit only what Plugin activated and to reject only what Plugin no longer holds, Plugin
to compensate only what PTY undid), and an answer or a report certifies what Screen takes
it for (`AnswersFit`, `ReportsFit`), also when the call it answers is a repetition whose
first request was handled after its ack timed out.  What is certified stays so:
`PluginsMove` and `TerminalsMove` say what any request, wanted or orphaned, may still do.
`PluginsAre` and `TerminalsAre` read the abstract state off the two threads' variables;
`PluginsPromise`, `TerminalsPromise`, `PreparesPromise` and `ScreenPromise` map the steps.

`SessionChrome_proofs` proves, for any number of transactions, any finite set of kinds,
any layouts and any faults (`ChromeAssumption`):

* `TypeCorrect`;
* `CountsAreExact`: `CountsExact`, the count of an authority is the number of panes bound
  to its kind;
* `RejectedIsClean`: `RejectedLeavesNothing`;
* `ClosingIsLocal`: `ClosingSparesOthers`, an action property.

A count is an integer that four operations add to and take from, the bound panes are a
set, so each step compares cardinalities (`CountMore`, `CountLess`).  That a pane is taken
off once only depends on the phase of its transaction (`BoundInv`: all chrome panes are
bound between activation and commit, none before and after), and that the last projector
is the last on the count being exact (`CountOne`).  `UnloadInv` says which panes are
still bound while their unload is on its way, `LeftInv` what is gone with a layout.
`StartedFacts`, `ReserveDoes`, `ActivateDoes`, `CompensateDoes`, `ReleaseDoes` and the
`...Keeps` lemmas say what each operation does; the proofs of the invariants cite those.

`HostQueries_proofs` proves, for any panes, scripts, clients and bounds
(`PendingAssumption`, `ScriptsAssumption`, `HeldAssumption`):

* `TypeCorrect`, with the caps on the terminals' queues and on queries in flight;
* `OutputIsKept`: `OutputKept`, that what a program printed is, in this order, what the
  pane has shown, has buffered behind a query, holds back while it is scrolled, and what
  is still in Screen's channel.

`OutputKept` is not inductive alone: a step of a pane that is not paused appends to what
is shown and would overtake what is buffered.  `KeptInv` adds that only a paused pane has
something buffered and only a scrolled one holds something back; `ProcessKeeps` says what
any call of `process_pty_bytes` does to the output, `ProcessKept` that it preserves the
invariant, and the steps of Screen cite those two.  The rest is about sequences: the
channel is split by pane with `FlattenSeq`, a fold, and `FlattenConcat`, `FlatMapConcat`,
`ArrivingHead` and `ArrivingNone` say how it behaves when messages are added and taken.

`HostQueries_answers` proves, for all of these in which no escape sequence asks for two
things at once (`NoPairs`):

* `AnswersRightly`: `AnswersInOrder`, that as long as no answer and no timer comes at
  another time than it should, each program reads the answers to its own queries, each
  at most once, in the order in which it asked.

`NoPairs` is not a convenience: `host_several` shows that two questions in one sequence do
overtake each other.  The invariant has two halves.  `TrafficInv` is about Screen, the
server and the clients: while nothing came too late, the query in flight is at exactly one
of the server's queue, a client or the way back, nobody else owns its token, and what Screen
finds for its token is an answer to it (`AtOnePlace`); tokens grow from the answered over
the one in flight to those that wait (`Numbered`).  It needs that a client that has left
says so last and is removed behind everything it sent (`Farewell`).  `AskInv` is about
the panes: one that reads on has no question on its way, and what was written to its
program is about items it has shown; one that is paused has exactly one question, in
Screen's channel or in its queue of forwards, and everything written is about earlier
items (`Free`, `Waits`, `Within`).  `Clear` and `Sole` (nothing, or exactly one element,
of a kind in a sequence) and the lemmas on appending, joining, taking and filtering carry
both.

Every invariant of the passing runs is thus stated by a theorem, four of them under a
hypothesis that is explained above: `ReceiptsTrue` (no timeouts), `NobodyForgotten`,
`LineByLine` and `AnswersInOrder` (`NoPairs`).  Model-checked only: liveness.
Liveness under fairness and `ENABLED` are out of the prover's reach, and so are the
library's induction theorems, which take an operator; where a fold has to be reasoned about
the induction is over a set (`SeqInduction`).  No module that is proved about uses a
RECURSIVE operator.

## Not modelled

`PROJECT.json` says of every component what is left out and why.  In short: terminal
emulation, rendering, pane geometry, configuration, wire format and the default plugins
are sequential and about data that TLC cannot enumerate; together they are most of the
repository's lines, which is why the share of lines the models cover is small.  Focus and
positions of several clients over tabs are sequential handlers over large records.
Shutdown of the threads is not modelled in any module.

What would be worth adding next:

1. `BreakPane`, `OverrideLayout` and `DurableRecovery` transactions, cleanup debts of
   Plugin and Screen.
2. `ActionCompletion` and the client queue, with the abstract promise "a failed action
   never reports success" for the actions that ask for a receipt.
3. Focus and mode of several clients over tabs.
