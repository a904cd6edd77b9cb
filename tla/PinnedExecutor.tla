--------------------------- MODULE PinnedExecutor ---------------------------
(***************************************************************************)
(* The dynamic thread pool that runs every plugin's jobs on one pinned     *)
(* thread (zellij-server/src/plugins/pinned_executor.rs).                   *)
(*                                                                         *)
(* Processes are the plugin thread, which loads, drives and unloads        *)
(* plugins; the download tasks, which load a plugin once its file has      *)
(* arrived; and the pool's own workers, one per slot of the sparse vector  *)
(* execution_threads.  Three mutexes guard the pool: A for                 *)
(* plugin_assignments, T for thread_plugins and E for execution_threads.   *)
(* Every acquisition is a step, and what runs between two acquisitions     *)
(* under the same mutexes is one step.                                     *)
(***************************************************************************)
EXTENDS Integers, Sequences, FiniteSets

CONSTANTS
    Plugins,        \* plugin ids, each loaded at most once: next_plugin_id only grows
    PluginThread,   \* the server's plugin thread
    Downloads,      \* tokio tasks that load a remote plugin when it has arrived
    MaxThreads,     \* max_threads
    MaxCalls,       \* bound: calls each caller makes
    ReceiptTimeouts,\* whether waiting for an unload receipt may time out
    None            \* no thread, no job, no owner

Callers == Downloads \cup {PluginThread}
Idx == 0 .. MaxThreads - 1      \* next_thread_idx never passes max_threads
Procs == Callers \cup Idx

ASSUME PoolAssumption ==
    /\ MaxThreads \in Nat \ {0}
    /\ MaxCalls \in Nat
    /\ ReceiptTimeouts \in BOOLEAN
    /\ Callers \cap Idx = {}
    /\ PluginThread \notin Downloads
    /\ None \notin Idx \cup Callers

Kinds == {"load", "event", "unload"}
Work == [kind : Kinds, plugin : Plugins, caller : Callers, n : 0 .. MaxCalls]
Shutdown == [kind |-> "shutdown"]
Job == Work \cup {Shutdown}

VARIABLES
    slot,           \* execution_threads: not yet pushed, Some(thread) or None
    nextIdx,        \* next_thread_idx, and the vector's length once the push is done
    queue,          \* the mpsc channel into each worker
    inflight,       \* jobs_in_flight of each ExecutionThread
    assignments,    \* plugin_assignments
    threadPlugins,  \* thread_plugins
    lockA, lockT, lockE,    \* owner of each mutex
    pc,             \* where each caller and each worker is
    cur,            \* the job a caller submits, or a worker runs
    target,         \* the thread index a caller has read
    calls,          \* calls begun by each caller
    begun,          \* plugins whose load has begun
    receipt,        \* what the completion channel of a waiting caller holds
    dropped         \* the PinnedExecutor has been dropped

maps == <<assignments, threadPlugins>>
locks == <<lockA, lockT, lockE>>
pool == <<slot, nextIdx, queue, inflight>>
api == <<calls, begun, dropped>>
vars == <<slot, nextIdx, queue, inflight, assignments, threadPlugins, lockA, lockT,
          lockE, pc, cur, target, calls, begun, receipt, dropped>>

(***************************************************************************)
(* Helpers                                                                 *)
(***************************************************************************)
Live == {i \in Idx : slot[i] = "live"}
Load(i) == Cardinality(threadPlugins[i])
\* i is the first of the threads of S with the fewest plugins.
LeastLoaded(i, S) ==
    \A j \in S : Load(i) < Load(j) \/ (Load(i) = Load(j) /\ i <= j)

Receiving(i) == pc[i] \notin {"failed", "exited"}
Running(i) == pc[i] \in {"work", "un_A", "un_T", "sh_E", "sh_T", "receipt", "panicked", "done"}

\* Mutation: one thread too many.
MutHasRoom == nextIdx <= MaxThreads
\* The vector has not reached max_threads slots, the emptied ones included.
HasRoom == nextIdx < MaxThreads

\* Mutation: a send that does not look whether the slot is still Some.
MutAccepts(i) == Receiving(i)
\* The slot still holds a sender, and its receiver is not gone.
Accepts(i) == slot[i] = "live" /\ Receiving(i)

\* Mutation: the plugin stays in its thread's set when it is unregistered.
MutWithout(p) == threadPlugins
Without(p) == [i \in Idx |-> IF i = assignments[p] THEN threadPlugins[i] \ {p}
                                                  ELSE threadPlugins[i]]

\* Mutation: threads are taken out when they are idle.
MutRemovableIdle == {i \in Live \ {0} : inflight[i] = 0}
\* threads_to_remove: live, not thread 0, without an assigned plugin.
Removable == {i \in Live \ {0} : threadPlugins[i] = {}}

\* Mutation: the receipt says the same whatever became of the cleanup.
MutOutcomeOk(at) == "ok"
Outcome(at) == IF at = "panicked" THEN "err" ELSE "ok"

\* Mutation: the pool is told to shut down only where it is idle.
MutShutDown(S) == {i \in S : Receiving(i) /\ inflight[i] = 0}
\* The threads of S that a Shutdown message reaches.
ShutDown(S) == {i \in S : Receiving(i)}

\* Mutation: the guard is not dropped after an unload.
MutReleasedUnlessUnload(i) == IF cur[i].kind = "unload" THEN inflight[i] ELSE inflight[i] - 1
Released(i) == inflight[i] - 1

-----------------------------------------------------------------------------
Init ==
    /\ slot = [i \in Idx |-> IF i = 0 THEN "live" ELSE "absent"]
    /\ nextIdx = 1
    /\ queue = [i \in Idx |-> <<>>]
    /\ inflight = [i \in Idx |-> 0]
    /\ assignments = [p \in Plugins |-> None]
    /\ threadPlugins = [i \in Idx |-> {}]
    /\ lockA = None /\ lockT = None /\ lockE = None
    /\ \E first \in {"recv", "failed"} :
        pc = [q \in Procs |-> CASE q \in Callers -> "idle"
                                [] q = 0 -> first
                                [] OTHER -> "unborn"]
    /\ cur = [q \in Procs |-> None]
    /\ target = [c \in Callers |-> None]
    /\ calls = [c \in Callers |-> 0]
    /\ begun = {}
    /\ receipt = [c \in Callers |-> "none"]
    /\ dropped = FALSE

-----------------------------------------------------------------------------
(* Calls into the pool *)

\* A caller takes up an operation: a job of the given kind for plugin p.
Begin(c, kind, p, at) ==
    /\ pc[c] = "idle" /\ ~dropped
    /\ calls[c] < MaxCalls
    /\ calls' = [calls EXCEPT ![c] = @ + 1]
    /\ cur' = [cur EXCEPT ![c] = [kind |-> kind, plugin |-> p, caller |-> c, n |-> calls[c]]]
    /\ pc' = [pc EXCEPT ![c] = at]
    /\ receipt' = [receipt EXCEPT ![c] = "none"]
    /\ UNCHANGED <<pool, maps, locks, target, dropped>>

BeginLoad(c, p) ==
    /\ p \notin begun
    /\ c \in Downloads => calls[c] = 0     \* a task loads the one plugin it fetched
    /\ Begin(c, "load", p, "reg_A")
    /\ begun' = begun \cup {p}

BeginEvent(p) ==
    /\ p \in begun
    /\ Begin(PluginThread, "event", p, "ex_A")
    /\ UNCHANGED begun

BeginUnload(p) ==
    /\ p \in begun
    /\ Begin(PluginThread, "unload", p, "ex_A")
    /\ UNCHANGED begun

(* register_plugin: A, then T, then E, all held until the mappings are in *)

RegisterLockA(c) ==
    /\ pc[c] = "reg_A" /\ lockA = None
    /\ IF assignments[cur[c].plugin] # None
       THEN /\ pc' = [pc EXCEPT ![c] = "ex_A"]
            /\ UNCHANGED lockA
       ELSE /\ pc' = [pc EXCEPT ![c] = "reg_T"]
            /\ lockA' = c
    /\ UNCHANGED <<pool, maps, lockT, lockE, cur, target, receipt, api>>

RegisterLockT(c) ==
    /\ pc[c] = "reg_T" /\ lockT = None
    /\ lockT' = c
    /\ pc' = [pc EXCEPT ![c] = "reg_E"]
    /\ UNCHANGED <<pool, maps, lockA, lockE, cur, target, receipt, api>>

\* Mutation: thread_plugins stays locked.
MutAssign(c, i) ==
    /\ assignments' = [assignments EXCEPT ![cur[c].plugin] = i]
    /\ threadPlugins' = [threadPlugins EXCEPT ![i] = @ \cup {cur[c].plugin}]
    /\ lockA' = None /\ UNCHANGED lockT
    /\ pc' = [pc EXCEPT ![c] = "ex_A"]

\* Update both mappings and let go of every mutex the call holds.
Assign(c, i) ==
    /\ assignments' = [assignments EXCEPT ![cur[c].plugin] = i]
    /\ threadPlugins' = [threadPlugins EXCEPT ![i] = @ \cup {cur[c].plugin}]
    /\ lockA' = None /\ lockT' = None
    /\ pc' = [pc EXCEPT ![c] = "ex_A"]

\* All live threads are busy and the vector may still grow.
Expand(c) ==
    /\ \A i \in Live : inflight[i] > 0
    /\ HasRoom
    /\ target' = [target EXCEPT ![c] = nextIdx]
    /\ nextIdx' = nextIdx + 1
    /\ pc' = [pc EXCEPT ![c] = "spawn"]
    /\ UNCHANGED <<maps, lockA, lockT>>

\* The first least-loaded thread that is idle, or of all when the vector is full.
Reuse(c) ==
    LET idle == {i \in Live : inflight[i] = 0}
    IN  /\ idle # {} \/ ~HasRoom
        /\ LET eligible == IF idle # {} THEN idle ELSE Live
           IN  \E i \in eligible : LeastLoaded(i, eligible) /\ Assign(c, i)
        /\ UNCHANGED <<target, nextIdx>>

RegisterChoose(c) ==
    /\ pc[c] = "reg_E" /\ lockE = None
    /\ Expand(c) \/ Reuse(c)
    /\ UNCHANGED <<slot, queue, inflight, lockE, cur, receipt, api>>

\* add_thread takes E again; the operating system may refuse the thread, which
\* is logged, and leaves a sender whose receiver is gone.
RegisterSpawn(c) ==
    /\ pc[c] = "spawn" /\ lockE = None
    /\ slot' = [slot EXCEPT ![target[c]] = "live"]
    /\ assignments' = [assignments EXCEPT ![cur[c].plugin] = target[c]]
    /\ threadPlugins' = [threadPlugins EXCEPT ![target[c]] = @ \cup {cur[c].plugin}]
    /\ lockA' = None /\ lockT' = None
    /\ \E born \in {"recv", "failed"} :
        pc' = [pc EXCEPT ![c] = "ex_A", ![target[c]] = born]
    /\ UNCHANGED <<nextIdx, queue, inflight, lockE, cur, target, receipt, api>>

(* try_execute_for_plugin_job: read the assignment, let A go, then take E *)

\* What an Err does to each caller: a load rolls its registration back.
Refused(c) == IF cur[c].kind = "load" THEN "un_A" ELSE "idle"

ExecuteLookup(c) ==
    /\ pc[c] = "ex_A" /\ lockA = None
    /\ LET i == assignments[cur[c].plugin]
       IN  /\ target' = [target EXCEPT ![c] = i]
           /\ pc' = [pc EXCEPT ![c] = IF i = None THEN Refused(c) ELSE "ex_E"]
    /\ UNCHANGED <<pool, maps, locks, cur, receipt, api>>

\* The counter goes up before the job is sent, and down again if it is refused.
ExecuteSend(c) ==
    /\ pc[c] = "ex_E" /\ lockE = None
    /\ LET i == target[c]
       IN  IF Accepts(i)
           THEN /\ queue' = [queue EXCEPT ![i] = Append(@, cur[c])]
                /\ inflight' = [inflight EXCEPT ![i] = @ + 1]
                /\ pc' = [pc EXCEPT ![c] = IF cur[c].kind = "unload" THEN "wait" ELSE "idle"]
           ELSE /\ pc' = [pc EXCEPT ![c] = Refused(c)]
                /\ UNCHANGED <<queue, inflight>>
    /\ UNCHANGED <<slot, nextIdx, maps, locks, cur, target, receipt, api>>

\* cleanup_layout_plugin waits for the receipt, or gives up on it.
TakeReceipt ==
    /\ pc[PluginThread] = "wait"
    /\ receipt[PluginThread] # "none"
    /\ pc' = [pc EXCEPT ![PluginThread] = "idle"]
    /\ UNCHANGED <<pool, maps, locks, cur, target, receipt, api>>

ReceiptTimeout ==
    /\ ReceiptTimeouts
    /\ pc[PluginThread] = "wait"
    /\ receipt[PluginThread] = "none"
    /\ pc' = [pc EXCEPT ![PluginThread] = "idle"]
    /\ UNCHANGED <<pool, maps, locks, cur, target, receipt, api>>

-----------------------------------------------------------------------------
(* unregister_plugin, called by a worker after the cleanup of an unload and *)
(* by a caller whose load was refused: A, then T, both released; then       *)
(* try_shrink_pool: E, then T.                                              *)

UnregisterLockA(q) ==
    /\ pc[q] = "un_A" /\ lockA = None
    /\ lockA' = q
    /\ pc' = [pc EXCEPT ![q] = "un_T"]
    /\ UNCHANGED <<pool, maps, lockT, lockE, cur, target, receipt, api>>

UnregisterRemove(q) ==
    /\ pc[q] = "un_T" /\ lockT = None
    /\ assignments' = [assignments EXCEPT ![cur[q].plugin] = None]
    /\ threadPlugins' = Without(cur[q].plugin)
    /\ lockA' = None
    /\ pc' = [pc EXCEPT ![q] = "sh_E"]
    /\ UNCHANGED <<pool, lockT, lockE, cur, target, receipt, api>>

ShrinkLockE(q) ==
    /\ pc[q] = "sh_E" /\ lockE = None
    /\ lockE' = q
    /\ pc' = [pc EXCEPT ![q] = "sh_T"]
    /\ UNCHANGED <<pool, maps, lockA, lockT, cur, target, receipt, api>>

\* Every live thread but thread 0 that has no plugin is taken out of the vector
\* and told to shut down, behind the jobs already in its channel.
ShrinkRemove(q) ==
    /\ pc[q] = "sh_T" /\ lockT = None
    /\ slot' = [i \in Idx |-> IF i \in Removable THEN "removed" ELSE slot[i]]
    /\ queue' = [i \in Idx |-> IF i \in ShutDown(Removable)
                               THEN Append(queue[i], Shutdown) ELSE queue[i]]
    /\ lockE' = None
    /\ pc' = [pc EXCEPT ![q] = IF q \in Callers THEN "idle" ELSE "receipt"]
    /\ UNCHANGED <<nextIdx, inflight, maps, lockA, lockT, cur, target, receipt, api>>

-----------------------------------------------------------------------------
(* The worker loop *)

WorkerReceive(i) ==
    /\ pc[i] = "recv" /\ queue[i] # <<>>
    /\ queue' = [queue EXCEPT ![i] = Tail(@)]
    /\ IF Head(queue[i]) = Shutdown
       THEN /\ pc' = [pc EXCEPT ![i] = "exited"]
            /\ UNCHANGED cur
       ELSE /\ pc' = [pc EXCEPT ![i] = "work"]
            /\ cur' = [cur EXCEPT ![i] = Head(queue[i])]
    /\ UNCHANGED <<slot, nextIdx, inflight, maps, locks, target, receipt, api>>

\* A load or an event ends, whether it returns or panics: the panic is caught.
WorkerFinish(i) ==
    /\ pc[i] = "work" /\ cur[i].kind # "unload"
    /\ pc' = [pc EXCEPT ![i] = "done"]
    /\ UNCHANGED <<pool, maps, locks, cur, target, receipt, api>>

\* The cleanup of an unload returns, or panics before unregister_plugin.
WorkerCleanup(i) ==
    /\ pc[i] = "work" /\ cur[i].kind = "unload"
    /\ \E next \in {"un_A", "panicked"} : pc' = [pc EXCEPT ![i] = next]
    /\ UNCHANGED <<pool, maps, locks, cur, target, receipt, api>>

\* The completion reaches the caller only if it still waits for this very call.
WorkerReceipt(i) ==
    /\ pc[i] \in {"receipt", "panicked"}
    /\ LET c == cur[i].caller
       IN  receipt' = IF pc[c] = "wait" /\ cur[c].n = cur[i].n
                      THEN [receipt EXCEPT ![c] = Outcome(pc[i])]
                      ELSE receipt
    /\ pc' = [pc EXCEPT ![i] = "done"]
    /\ UNCHANGED <<pool, maps, locks, cur, target, api>>

\* InFlightGuard is dropped at the end of the job.
WorkerDone(i) ==
    /\ pc[i] = "done"
    /\ inflight' = [inflight EXCEPT ![i] = Released(i)]
    /\ cur' = [cur EXCEPT ![i] = None]
    /\ pc' = [pc EXCEPT ![i] = "recv"]
    /\ UNCHANGED <<slot, nextIdx, queue, maps, locks, target, receipt, api>>

\* Drop for PinnedExecutor: the last Arc goes when no caller is in a call and no
\* unload job, which holds a clone, is left.
DropExecutor ==
    /\ ~dropped /\ lockE = None
    /\ \A c \in Callers : pc[c] = "idle"
    /\ \A i \in Idx : /\ Running(i) => cur[i].kind # "unload"
                      /\ \A k \in 1 .. Len(queue[i]) : queue[i][k].kind # "unload"
    /\ dropped' = TRUE
    /\ queue' = [i \in Idx |-> IF i \in ShutDown(Live)
                               THEN Append(queue[i], Shutdown) ELSE queue[i]]
    /\ UNCHANGED <<slot, nextIdx, inflight, maps, locks, pc, cur, target, receipt, calls, begun>>

Stopped ==
    /\ dropped /\ \A i \in Idx : pc[i] \in {"unborn", "failed", "exited"}
    /\ UNCHANGED vars

-----------------------------------------------------------------------------
CallerStep(c) ==
    \/ RegisterLockA(c) \/ RegisterLockT(c) \/ RegisterChoose(c) \/ RegisterSpawn(c)
    \/ ExecuteLookup(c) \/ ExecuteSend(c)

UnregisterStep(q) ==
    \/ UnregisterLockA(q) \/ UnregisterRemove(q) \/ ShrinkLockE(q) \/ ShrinkRemove(q)

WorkerStep(i) ==
    \/ WorkerReceive(i) \/ WorkerFinish(i) \/ WorkerCleanup(i)
    \/ WorkerReceipt(i) \/ WorkerDone(i)

Next ==
    \/ \E c \in Callers, p \in Plugins : BeginLoad(c, p)
    \/ \E p \in Plugins : BeginEvent(p)
    \/ \E p \in Plugins : BeginUnload(p)
    \/ \E c \in Callers : CallerStep(c)
    \/ TakeReceipt
    \/ ReceiptTimeout
    \/ \E q \in Procs : UnregisterStep(q)
    \/ \E i \in Idx : WorkerStep(i)
    \/ DropExecutor
    \/ Stopped

Spec == Init /\ [][Next]_vars

\* A thread that can run is run, and plugin jobs return.
Fairness ==
    /\ \A c \in Callers : WF_vars(CallerStep(c))
    /\ WF_vars(TakeReceipt)
    /\ \A q \in Procs : WF_vars(UnregisterStep(q))
    /\ \A i \in Idx : WF_vars(WorkerStep(i))

FairSpec == Spec /\ Fairness

-----------------------------------------------------------------------------
(* Properties *)

CallerPcs == {"idle", "reg_A", "reg_T", "reg_E", "spawn", "ex_A", "ex_E", "wait",
              "un_A", "un_T", "sh_E", "sh_T"}
WorkerPcs == {"unborn", "failed", "exited", "recv", "work", "un_A", "un_T", "sh_E",
              "sh_T", "receipt", "panicked", "done"}
Pcs == CallerPcs \cup WorkerPcs
PcRange(q) == IF q \in Callers THEN CallerPcs ELSE WorkerPcs

\* The variables keep their types; in particular next_thread_idx never passes max_threads.
TypeOK ==
    /\ slot \in [Idx -> {"absent", "live", "removed"}]
    /\ nextIdx \in 1 .. MaxThreads
    /\ queue \in [Idx -> Seq(Job)]
    /\ inflight \in [Idx -> Int]
    /\ assignments \in [Plugins -> Idx \cup {None}]
    /\ threadPlugins \in [Idx -> SUBSET Plugins]
    /\ {lockA, lockT, lockE} \subseteq Procs \cup {None}
    /\ pc \in [Procs -> Pcs]
    /\ \A q \in Procs : pc[q] \in PcRange(q)
    /\ cur \in [Procs -> Work \cup {None}]
    /\ target \in [Callers -> Idx \cup {None}]
    /\ calls \in [Callers -> 0 .. MaxCalls]
    /\ begun \subseteq Plugins
    /\ receipt \in [Callers -> {"none", "ok", "err"}]
    /\ dropped \in BOOLEAN

\* A thread that some plugin is pinned to is never taken out of the pool,
\* however registrations, unloads and shrinking interleave.
AssignedThreadLive ==
    \A p \in Plugins : assignments[p] # None => slot[assignments[p]] = "live"

\* The two mappings say the same whenever nobody is changing them: the load that
\* balances registrations and the test for an idle thread read one, jobs the other.
MapsAgree ==
    \A p \in Plugins, i \in Idx : p \in threadPlugins[i] <=> assignments[p] = i

\* A job the pool has accepted is never lost: no job is behind a Shutdown in a
\* channel, and a worker that left its loop left nothing in its channel.
AcceptedJobsKept ==
    \A i \in Idx :
        /\ \A k \in 1 .. Len(queue[i]) : queue[i][k] = Shutdown => k = Len(queue[i])
        /\ ~Receiving(i) => queue[i] = <<>>

\* jobs_in_flight counts exactly the jobs queued to a thread and the one it runs,
\* so a thread that looks idle to register_plugin has nothing left to do.
BusyCountExact ==
    \A i \in Idx :
        inflight[i] = Cardinality({k \in 1 .. Len(queue[i]) : queue[i][k] # Shutdown})
                      + (IF Running(i) THEN 1 ELSE 0)

\* When a caller holds the receipt Ok of an unload, the plugin is assigned nowhere; when
\* it is Err, the plugin is still assigned to a live thread, so that the cleanup can be
\* tried again there.
ReceiptsTrue ==
    \A c \in Callers : pc[c] = "wait" =>
        LET p == cur[c].plugin
        IN  /\ receipt[c] = "ok" => /\ assignments[p] = None
                                    /\ \A i \in Idx : p \notin threadPlugins[i]
            /\ receipt[c] = "err" => /\ assignments[p] # None
                                     /\ slot[assignments[p]] = "live"

\* Every call into the pool returns.
CallsReturn == \A c \in Callers : pc[c] # "idle" ~> pc[c] = "idle"

\* After the pool is dropped every worker runs what it had accepted and stops.
DroppedPoolStops ==
    dropped ~> \A i \in Idx : pc[i] \in {"unborn", "failed", "exited"} /\ inflight[i] = 0

\* No caller that holds T for register_plugin wants E from a process that holds E for
\* try_shrink_pool and wants T.
NoLockCycle ==
    ~ \E c \in Callers, q \in Procs :
        /\ pc[c] \in {"reg_E", "spawn"} /\ lockT = c
        /\ pc[q] = "sh_T" /\ lockE = q
=============================================================================
