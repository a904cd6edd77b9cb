------------------------------- MODULE CliPipes -------------------------------
(***************************************************************************)
(* Flow control of one CLI pipe (`vc-frame pipe`).  The CLI client sends a *)
(* line and waits until it is unblocked before it reads the next one.  The *)
(* Plugin thread hands a line to plugin instances, or caches it for        *)
(* plugins that are loading, and remembers in pending_pipes which          *)
(* instances are processing it; an instance's answer, which may also block *)
(* or unblock the pipe, comes back to the Plugin thread directly or, when  *)
(* the instance rendered, through the Screen thread                        *)
(* (zellij-server/src/plugins/pipes.rs, plugins/wasm_bridge.rs).           *)
(***************************************************************************)
EXTENDS Naturals, FiniteSets, SequencesExt

CONSTANTS
  LastId,      \* bound: the last plugin id that is handed out
  Running,     \* plugins 1 .. Running have been loaded for everybody already
  Clients,     \* client ids that plugins are instantiated for
  Connected,   \* those connected at the start
  Broadcast,   \* whether the pipe names no plugin and goes to all of them
  MaxLines,    \* bound: lines the CLI client sends; the last one is the end of file
  MaxEvents,   \* bound: events that reach plugins
  CacheCap,    \* MAX_CACHED_EVENTS_PER_PENDING_PLUGIN
  Holders,     \* plugins that call block_cli_pipe_input and unblock_cli_pipe_input
  PipeCalls,   \* which of "Block" and "Unblock" they call when they get a line
  EventCalls,  \* and when they get an event
  Renders,     \* whether jobs render: a subset of BOOLEAN
  Attaches,    \* clients that may attach
  Unloads,     \* plugins that may be unloaded
  Faults       \* subset of {"crash", "load"}

Changes == {"NoChange", "Block", "Unblock"}
Ids == 1 .. LastId
Instances == Ids \X Clients
Nobody == 0       \* no client: a message for every instance of a plugin

ASSUME PipeAssumption ==
  /\ LastId \in Nat \ {0} /\ Running \in 0 .. LastId
  /\ Clients \subseteq Nat \ {0} /\ IsFiniteSet(Clients)
  /\ Connected \subseteq Clients /\ Connected # {}
  /\ Attaches \subseteq Clients /\ Unloads \subseteq Ids /\ Holders \subseteq Ids
  /\ Broadcast \in BOOLEAN /\ Renders \subseteq BOOLEAN /\ Renders # {}
  /\ MaxLines \in Nat \ {0} /\ MaxEvents \in Nat /\ CacheCap \in Nat \ {0}
  /\ PipeCalls \cup EventCalls \subseteq Changes
  /\ Faults \subseteq {"crash", "load"}

VARIABLES
  cli,        \* the CLI client: its current line, and whether it waits
  unblocks,   \* UnblockCliPipeInput messages on their way to it
  inbox,      \* the Plugin thread's channel
  screen,     \* the Screen thread's channel, as far as it carries answers
  jobs,       \* the pinned thread of each plugin: its queue of jobs
  pending,    \* pending_pipes[pipe]
  loading,    \* keys of cached_events_for_pending_plugins
  cache,      \* cached_events_for_pending_plugins
  instances,  \* plugin_map
  known,      \* cached_plugin_map, emptied when plugins come or go
  connected,  \* connected_clients
  nextId,     \* next_plugin_id
  events,     \* events sent so far
  asked       \* clients and plugins that have been asked to attach and unload

threadVars == <<pending, loading, cache, known, connected, nextId>>
vars == <<cli, unblocks, inbox, screen, jobs, threadVars, instances, events, asked>>

Lines == 1 .. MaxLines
Message(is, plugin, client, line, change) ==
  [is |-> is, plugin |-> plugin, client |-> client, line |-> line, change |-> change]
CliPipe(line) == Message("CliPipe", 0, Nobody, line, "NoChange")
Answer(instance, change) == Message("Answer", instance[1], instance[2], 0, change)
ApplyCached(p) == Message("ApplyCached", p, Nobody, 0, "NoChange")
AddClient(c) == Message("AddClient", 0, c, 0, "NoChange")
Unload(p) == Message("Unload", p, Nobody, 0, "NoChange")
Update(p) == Message("Update", p, Nobody, 0, "NoChange")

Job(is, client, line) == [is |-> is, client |-> client, line |-> line]
Cached(is, line) == Job(is, Nobody, line)

-----------------------------------------------------------------------------
(* PendingPipes *)

Unknown == [known |-> FALSE, blocked |-> FALSE, by |-> {}]

\* mark_being_processed, for every instance in marked
Mark(info, marked) ==
  IF marked = {} THEN info ELSE [info EXCEPT !.known = TRUE, !.by = @ \cup marked]

\* Mutant: the first instance that has finished releases the pipe.
MutReleased(info) == ~info.blocked

Released(info) == info.by = {} /\ ~info.blocked

\* What is left of an entry once it was updated: a released one is removed.
Remaining(info) == IF Released(info) THEN Unknown ELSE info

\* Mutant: an answer does not end the instance's processing.
MutUpdateInfo(info, change, instance) == [info EXCEPT !.blocked = change = "Block"]

UpdateInfo(info, change, instance) ==
  [info EXCEPT !.blocked = CASE change = "Block" -> TRUE
                             [] change = "Unblock" -> FALSE
                             [] OTHER -> @,
               !.by = @ \ {instance}]

\* Mutant: instances of an unloaded plugin stay in the entry.
MutUnloadInfo(info, p) == info

UnloadInfo(info, p) == [info EXCEPT !.by = {i \in @ : i[1] # p}]

\* The Plugin thread sends UnblockCliPipeInput for an updated entry that is
\* released, and for a pipe it has no entry for.
Settle(info) ==
  /\ pending' = Remaining(info)
  /\ unblocks' = unblocks + IF Released(info) THEN 1 ELSE 0

-----------------------------------------------------------------------------
(* The CLI client (pipe_client). *)

SendLine ==
  /\ ~cli.waiting /\ cli.line < MaxLines
  /\ cli' = [line |-> cli.line + 1, waiting |-> cli.line + 1 < MaxLines]
  /\ inbox' = Append(inbox, CliPipe(cli.line + 1))
  /\ UNCHANGED <<unblocks, screen, jobs, threadVars, instances, events, asked>>

TakeUnblock ==
  /\ cli.waiting /\ unblocks > 0
  /\ cli' = [cli EXCEPT !.waiting = FALSE]
  /\ unblocks' = unblocks - 1
  /\ UNCHANGED <<inbox, screen, jobs, threadVars, instances, events, asked>>

-----------------------------------------------------------------------------
(* What else reaches the Plugin thread. *)

Ask(message, key) ==
  /\ key \notin asked /\ asked' = asked \cup {key}
  /\ inbox' = Append(inbox, message)
  /\ UNCHANGED <<cli, unblocks, screen, jobs, threadVars, instances, events>>

AskAttach == \E c \in Attaches : Ask(AddClient(c), <<"attach", c>>)

AskUnload == \E p \in Unloads : p < nextId /\ Ask(Unload(p), <<"unload", p>>)

SendEvent ==
  /\ events < MaxEvents /\ events' = events + 1
  /\ \E p \in 1 .. nextId - 1 : inbox' = Append(inbox, Update(p))
  /\ UNCHANGED <<cli, unblocks, screen, jobs, threadVars, instances, asked>>

-----------------------------------------------------------------------------
(* The Plugin thread: lines and events.  A message is directed at a plugin *)
(* and either one client's instance of it or all of them.                  *)

ReceiveNext(kind) ==
  /\ inbox # <<>> /\ Head(inbox).is = kind
  /\ inbox' = Tail(inbox)

\* Mutant: the ring buffer has no cap.
MutKeep(queue, items) == queue \o items

\* The ring buffer drops its oldest entries.
Keep(queue, items) ==
  LET all == queue \o items
      excess == IF Len(all) > CacheCap THEN Len(all) - CacheCap ELSE 0
  IN  SubSeq(all, excess + 1, Len(all))

Repeat(item, n) == [i \in 1 .. n |-> item]

Directed(target, instance) ==
  target[1] = instance[1] /\ target[2] \in {Nobody, instance[2]}

\* pipe_messages (and update_plugins for events): running instances get a job,
\* a loading plugin caches one item per message, whoever it was for.
Deliver(is, line, targets, queues, ready) ==
  LET clientsOf(p) == {c \in Clients : <<p, c>> \in instances
                                        /\ \E t \in targets : Directed(t, <<p, c>>)}
      newJobs(p) == SetToSeq({Job(is, c, line) : c \in clientsOf(p)})
      copies(p) == Cardinality({t \in targets : t[1] = p})
  IN  /\ jobs' = [p \in Ids |-> IF p \in ready THEN queues[p]
                                               ELSE queues[p] \o newJobs(p)]
      /\ cache' = [p \in Ids |-> IF p \in ready
                                   THEN Keep(cache[p], Repeat(Cached(is, line), copies(p)))
                                   ELSE cache[p]]

\* Instances that pending_pipes is told of.
MarkedFor(targets, ready) ==
  {i \in instances : i[1] \notin ready /\ \E t \in targets : Directed(t, i)}
  \cup {i \in ready \X connected : \E t \in targets : Directed(t, i)}

PipeTo(line, targets, queues, ready) ==
  /\ Deliver("pipe", line, targets, queues, ready)
  /\ pending' = Mark(pending, MarkedFor(targets, ready))
  /\ loading' = ready

\* get_or_load_plugins: the instances as they were last looked up, or a plugin
\* that is loading, or a new one.
FreshMap == IF known = {} THEN instances ELSE known

PipeToPlugin(line) ==
  /\ known' = FreshMap
  /\ \/ /\ FreshMap # {}
        /\ PipeTo(line, FreshMap, jobs, loading)
        /\ UNCHANGED nextId
     \/ /\ FreshMap = {} /\ loading # {}
        /\ \E p \in loading : PipeTo(line, {<<p, Nobody>>}, jobs, loading)
        /\ UNCHANGED nextId
     \/ /\ FreshMap = {} /\ loading = {} /\ nextId <= LastId
        /\ \E c \in connected :
             PipeTo(line, {<<nextId, c>>},
                    [jobs EXCEPT ![nextId] = Append(@, Job("load", c, 0))],
                    {nextId})
        /\ nextId' = nextId + 1

HandleCliPipe ==
  /\ ReceiveNext("CliPipe")
  /\ IF Broadcast
       THEN PipeTo(Head(inbox).line, instances, jobs, loading) /\ UNCHANGED <<known, nextId>>
       ELSE PipeToPlugin(Head(inbox).line)
  /\ UNCHANGED <<cli, unblocks, screen, connected, instances, events, asked>>

HandleUpdate ==
  /\ ReceiveNext("Update")
  /\ Deliver("event", 0, {<<Head(inbox).plugin, Nobody>>}, jobs, loading)
  /\ UNCHANGED <<cli, unblocks, screen, pending, loading, known, connected, nextId,
                 instances, events, asked>>

-----------------------------------------------------------------------------
(* The Plugin thread: answers, loads, clients and unloads. *)

\* update_cli_pipe_state
HandleAnswer ==
  /\ ReceiveNext("Answer")
  /\ LET answer == Head(inbox)
     IN  Settle(IF pending.known
                  THEN UpdateInfo(pending, answer.change, <<answer.plugin, answer.client>>)
                  ELSE Unknown)
  /\ UNCHANGED <<cli, screen, jobs, loading, cache, known, connected, nextId, instances,
                 events, asked>>

\* Mutant: the cache is dropped when the plugin has loaded.
MutFlushed(p) == <<>>

\* Every cached item goes to every connected client's instance: all of them
\* to the first client's, then all of them to the next one's.
Flushed(p) ==
  LET clients == SetToSeq({c \in connected : <<p, c>> \in instances})
      n == Len(cache[p])
  IN  [k \in 1 .. n * Len(clients) |->
         [cache[p][((k - 1) % n) + 1] EXCEPT !.client = clients[((k - 1) \div n) + 1]]]

HandleApplyCached ==
  /\ ReceiveNext("ApplyCached")
  /\ LET p == Head(inbox).plugin
     IN  /\ jobs' = [jobs EXCEPT ![p] = @ \o Flushed(p)]
         /\ cache' = [cache EXCEPT ![p] = <<>>]
         /\ loading' = loading \ {p}
  /\ known' = {}
  /\ UNCHANGED <<cli, unblocks, screen, pending, connected, nextId, instances, events, asked>>

\* Each plugin is instantiated for the new client too; its cache starts empty,
\* also when it holds something already.
HandleAddClient ==
  /\ ReceiveNext("AddClient")
  /\ LET c == Head(inbox).client
         plugins == {i[1] : i \in instances}
     IN  IF c \in connected
           THEN UNCHANGED <<jobs, cache, loading, connected>>
           ELSE /\ jobs' = [p \in Ids |-> IF p \in plugins
                                            THEN Append(jobs[p], Job("attach", c, 0))
                                            ELSE jobs[p]]
                /\ cache' = [p \in Ids |-> IF p \in plugins THEN <<>> ELSE cache[p]]
                /\ loading' = loading \cup plugins
                /\ connected' = connected \cup {c}
  /\ UNCHANGED <<cli, unblocks, screen, pending, known, nextId, instances, events, asked>>

\* The Plugin thread waits for the unload, which runs behind the plugin's jobs.
HandleUnload ==
  /\ ReceiveNext("Unload")
  /\ LET p == Head(inbox).plugin
     IN  /\ jobs[p] = <<>>
         /\ instances' = {i \in instances : i[1] # p}
         /\ cache' = [cache EXCEPT ![p] = <<>>]
         /\ loading' = loading \ {p}
         /\ IF pending.known THEN Settle(UnloadInfo(pending, p))
                             ELSE UNCHANGED <<pending, unblocks>>
  /\ known' = {}
  /\ UNCHANGED <<cli, screen, jobs, connected, nextId, events, asked>>

-----------------------------------------------------------------------------
(* The plugins' threads, and Screen. *)

NextJob(p) == Head(jobs[p])

\* start_plugin; a first load says that it is over even when it failed.
RunLoad(p) ==
  /\ jobs[p] # <<>> /\ NextJob(p).is \in {"load", "attach"}
  /\ jobs' = [jobs EXCEPT ![p] = Tail(@)]
  /\ LET others == IF NextJob(p).is = "load" THEN connected ELSE {}
     IN  \/ /\ instances' = instances \cup ({p} \X ({NextJob(p).client} \cup others))
            /\ inbox' = Append(inbox, ApplyCached(p))
         \/ /\ "load" \in Faults
            /\ inbox' = IF NextJob(p).is = "load" THEN Append(inbox, ApplyCached(p))
                                                  ELSE inbox
            /\ UNCHANGED instances
  /\ UNCHANGED <<cli, unblocks, screen, threadVars, events, asked>>

\* What the plugin calls while it runs the job: the answer to a pipe message
\* always names the pipe, one to an event only if the plugin called something.
Answers(p, job) ==
  LET calls == IF job.is = "pipe" THEN PipeCalls ELSE EventCalls
  IN  (IF job.is = "pipe" THEN {"NoChange"} ELSE {"none"})
      \cup (IF p \in Holders THEN calls ELSE {})

RunPlugin(p) ==
  /\ jobs[p] # <<>> /\ NextJob(p).is \in {"pipe", "event"}
  /\ jobs' = [jobs EXCEPT ![p] = Tail(@)]
  /\ \E change \in Answers(p, NextJob(p)) :
       LET answer == Answer(<<p, NextJob(p).client>>, change)
       IN  IF change = "none" THEN UNCHANGED <<inbox, screen>>
           ELSE \/ TRUE \in Renders
                   /\ screen' = Append(screen, answer) /\ UNCHANGED inbox
                \/ FALSE \in Renders
                   /\ inbox' = Append(inbox, answer) /\ UNCHANGED screen
  /\ UNCHANGED <<cli, unblocks, threadVars, instances, events, asked>>

\* A trap in the plugin's code is shown to the user and answers nothing.
PluginCrashes(p) ==
  /\ "crash" \in Faults
  /\ jobs[p] # <<>> /\ NextJob(p).is \in {"pipe", "event"}
  /\ jobs' = [jobs EXCEPT ![p] = Tail(@)]
  /\ UNCHANGED <<cli, unblocks, inbox, screen, threadVars, instances, events, asked>>

\* Screen::render passes the answers of rendered plugins on.
ScreenForwards ==
  /\ screen # <<>>
  /\ screen' = Tail(screen)
  /\ inbox' = Append(inbox, Head(screen))
  /\ UNCHANGED <<cli, unblocks, jobs, threadVars, instances, events, asked>>

-----------------------------------------------------------------------------
Init ==
  /\ cli = [line |-> 0, waiting |-> FALSE] /\ unblocks = 0
  /\ inbox = <<>> /\ screen = <<>>
  /\ jobs = [p \in Ids |-> <<>>]
  /\ pending = Unknown
  /\ loading = {} /\ cache = [p \in Ids |-> <<>>]
  /\ instances = (1 .. Running) \X Connected
  /\ known = {} /\ connected = Connected
  /\ nextId = Running + 1
  /\ events = 0 /\ asked = {}

PluginThread ==
  HandleCliPipe \/ HandleUpdate \/ HandleAnswer \/ HandleApplyCached \/ HandleAddClient
  \/ HandleUnload

Next ==
  \/ SendLine \/ TakeUnblock
  \/ AskAttach \/ AskUnload \/ SendEvent
  \/ PluginThread
  \/ \E p \in Ids : RunLoad(p) \/ RunPlugin(p) \/ PluginCrashes(p)
  \/ ScreenForwards

Spec == Init /\ [][Next]_vars

\* The threads keep serving their queues and the CLI client its socket.
Fairness ==
  /\ WF_vars(SendLine) /\ WF_vars(TakeUnblock)
  /\ WF_vars(PluginThread) /\ WF_vars(ScreenForwards)
  /\ \A p \in Ids : WF_vars(RunLoad(p)) /\ WF_vars(RunPlugin(p))

FairSpec == Spec /\ Fairness

-----------------------------------------------------------------------------
Jobs == [is : {"pipe", "event", "load", "attach"}, client : Clients, line : 0 .. MaxLines]

CachedItems == [is : {"pipe", "event"}, client : {Nobody}, line : 0 .. MaxLines]

Messages ==
  {CliPipe(line) : line \in Lines} \cup {Answer(i, change) : i \in Instances, change \in Changes}
  \cup {ApplyCached(p) : p \in Ids} \cup {AddClient(c) : c \in Attaches}
  \cup {Unload(p) : p \in Unloads} \cup {Update(p) : p \in Ids}

\* Every variable has its type; in particular no cache outgrows its cap.
TypeOK ==
  /\ cli \in [line : 0 .. MaxLines, waiting : BOOLEAN]
  /\ unblocks \in Nat
  /\ inbox \in Seq(Messages) /\ screen \in Seq(Messages)
  /\ jobs \in [Ids -> Seq(Jobs)]
  /\ pending \in [known : BOOLEAN, blocked : BOOLEAN, by : SUBSET Instances]
  /\ loading \subseteq Ids
  /\ cache \in [Ids -> Seq(CachedItems)] /\ \A p \in Ids : Len(cache[p]) <= CacheCap
  /\ instances \subseteq Instances /\ known \subseteq Instances
  /\ connected \subseteq Clients
  /\ nextId \in 1 .. LastId + 1
  /\ events \in 0 .. MaxEvents

Holds(queue, item) == \E k \in DOMAIN queue : queue[k] = item

HoldsKind(queue, kind) == \E k \in DOMAIN queue : queue[k].is = kind

AnswerComing(i) ==
  \E queue \in {inbox, screen}, change \in Changes : Holds(queue, Answer(i, change))

Unloaded(p) == <<"unload", p>> \in asked /\ ~Holds(inbox, Unload(p))

\* An entry of pending_pipes is there for a reason, and a plugin that was
\* unloaded is none: cleanup_layout_plugin frees the pipes that a plugin keeps
\* waiting, also when it crashed on them or never loaded.
UnloadFrees ==
  /\ pending.known => ~Released(pending)
  /\ \A i \in pending.by : ~Unloaded(i[1])

\* Each instance that pending_pipes waits for still has the line: as a job, in
\* the cache of its loading plugin, or answered.  Otherwise the CLI client
\* would be stuck until that plugin is unloaded.
NobodyForgotten ==
  \A i \in pending.by :
    \/ \E line \in Lines : Holds(jobs[i[1]], Job("pipe", i[2], line))
    \/ /\ i[1] \in loading /\ HoldsKind(cache[i[1]], "pipe")
       /\ i \in instances \/ HoldsKind(jobs[i[1]], "load")
    \/ AnswerComing(i)

Held(line) ==
  \/ Holds(inbox, CliPipe(line))
  \/ \E p \in Ids : \/ \E c \in Clients : Holds(jobs[p], Job("pipe", c, line))
                    \/ Holds(cache[p], Cached("pipe", line))

\* As long as no plugin is loaded or unloaded, the CLI client reads its next line
\* only when no plugin has the previous one still to process.
LineByLine ==
  asked = {} /\ nextId = Running + 1 =>
    \A line \in Lines : Held(line) => cli.line = line /\ (cli.waiting \/ line = MaxLines)

\* A CLI client whose plugins do not crash is unblocked, unless one of them
\* blocks its pipe, however plugins are loaded for its lines and unloaded
\* behind them.
LineReleased == cli.waiting ~> ~cli.waiting \/ pending.blocked

\* zellij-tile/src/lib.rs, ZellijPlugin::pipe: "Will be called when data is being
\* piped to the plugin", here for what is cached until the plugin has loaded.
PipedIsCalled ==
  \A p \in Ids : HoldsKind(cache[p], "pipe") ~> HoldsKind(jobs[p], "pipe")
=============================================================================
