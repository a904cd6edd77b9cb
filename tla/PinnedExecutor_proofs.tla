------------------------ MODULE PinnedExecutor_proofs ------------------------
(***************************************************************************)
(* Proofs about the pinned executor, for any number of plugins, download   *)
(* tasks, threads and calls: the mutexes exclude, the two mappings agree,  *)
(* a thread that a plugin is pinned to stays in the pool, no accepted job  *)
(* is lost, jobs_in_flight is the number of a thread's unfinished jobs,    *)
(* and the receipt of an unload says what became of the plugin.            *)
(***************************************************************************)
EXTENDS PinnedExecutor, FiniteSetTheorems, TLAPS

\* Every process in an operation has a job in hand.
JobsInHand ==
    /\ \A c \in Callers : pc[c] # "idle" => cur[c] \in Work
    /\ \A i \in Idx : Running(i) => cur[i] \in Work

\* Each mutex is held by the process whose program counter says so.
LockInv ==
    \A q \in Procs :
        /\ lockA = q <=> pc[q] \in {"reg_T", "reg_E", "spawn", "un_T"}
        /\ lockT = q <=> pc[q] \in {"reg_E", "spawn"}
        /\ lockE = q <=> pc[q] = "sh_T"

\* A slot at or past next_thread_idx has never had a thread, and neither has the
\* slot that a registration is about to fill.
SpawnInv ==
    /\ \A i \in Idx : i >= nextIdx => pc[i] = "unborn"
    /\ \A c \in Callers : pc[c] = "spawn" =>
            target[c] \in Idx /\ target[c] < nextIdx /\ pc[target[c]] = "unborn"

\* A registration in progress is for a plugin with no assignment.
RegisterInv ==
    \A c \in Callers : pc[c] \in {"reg_T", "reg_E", "spawn"} =>
        assignments[cur[c].plugin] = None

\* A caller between the look-up and the send has a thread index.
LookupInv == \A c \in Callers : pc[c] = "ex_E" => target[c] \in Idx

IInv == TypeOK /\ JobsInHand /\ LockInv /\ SpawnInv /\ RegisterInv /\ LookupInv
        /\ MapsAgree /\ AssignedThreadLive

-----------------------------------------------------------------------------
\* A caller is no worker, and None is neither.
LEMMA ProcsApart ==
    ASSUME PoolAssumption
    PROVE  /\ \A c \in Callers, i \in Idx : c # i
           /\ \A q \in Procs : q # None
           /\ PluginThread \in Callers
  BY DEF PoolAssumption, Procs, Callers

\* Reusing a thread assigns the plugin to a live one.
LEMMA ReuseAssigns ==
    ASSUME NEW c \in Callers, Reuse(c)
    PROVE  \E i \in Live : Assign(c, i) /\ UNCHANGED <<target, nextIdx>>
  BY DEF Reuse, Live

\* Every step keeps the types.
LEMMA TypeStep == ASSUME PoolAssumption, IInv, [Next]_vars PROVE TypeOK'
<1> USE DEF IInv, TypeOK, Pcs, CallerPcs, WorkerPcs, PcRange, Procs, JobsInHand, LookupInv, SpawnInv, Running
<1>0. /\ PoolAssumption
      /\ \A c \in Callers, i \in Idx : c # i
      /\ \A q \in Procs : q # None
      /\ PluginThread \in Callers
  BY ProcsApart
<1>1. ASSUME NEW c \in Callers, NEW p \in Plugins, BeginLoad(c, p) PROVE TypeOK'
  <2>1. cur' \in [Procs -> Work \cup {None}] /\ calls' \in [Callers -> 0 .. MaxCalls]
    <3>1. [kind |-> "load", plugin |-> p, caller |-> c, n |-> calls[c]] \in Work
      BY <1>1 DEF Work, Kinds
    <3>2. calls[c] + 1 \in 0 .. MaxCalls
      BY <1>0, <1>1 DEF BeginLoad, Begin, PoolAssumption
    <3> QED
      BY <1>1, <3>1, <3>2 DEF BeginLoad, Begin
  <2>2. pc' = [pc EXCEPT ![c] = "reg_A"]
    BY <1>1 DEF BeginLoad, Begin
  <2>3. pc' \in [Procs -> Pcs] /\ \A q \in Procs : pc'[q] \in PcRange(q)
    BY <2>2
  <2>4. receipt' \in [Callers -> {"none", "ok", "err"}] /\ begun' \subseteq Plugins
    BY <1>1 DEF BeginLoad, Begin
  <2> QED
    BY <1>1, <2>1, <2>3, <2>4 DEF BeginLoad, Begin, pool, maps, locks
<1>2. ASSUME NEW p \in Plugins, BeginEvent(p) \/ BeginUnload(p) PROVE TypeOK'
  <2>1. PICK kind \in {"event", "unload"} : Begin(PluginThread, kind, p, "ex_A") /\ begun' = begun
    BY <1>2 DEF BeginEvent, BeginUnload
  <2>2. cur' \in [Procs -> Work \cup {None}] /\ calls' \in [Callers -> 0 .. MaxCalls]
    BY <1>0, <2>1 DEF Begin, Work, Kinds, PoolAssumption
  <2> QED
    BY <1>0, <2>1, <2>2 DEF Begin, pool, maps, locks
<1>3. ASSUME NEW c \in Callers, RegisterLockA(c) PROVE TypeOK'
  <2>1. \E at \in {"ex_A", "reg_T"} : pc' = [pc EXCEPT ![c] = at]
    BY <1>3 DEF RegisterLockA
  <2>2. pc' \in [Procs -> Pcs] /\ \A q \in Procs : pc'[q] \in PcRange(q)
    BY <2>1
  <2>3. lockA' \in Procs \cup {None}
    BY <1>3 DEF RegisterLockA
  <2> QED
    BY <1>3, <2>2, <2>3 DEF RegisterLockA, pool, maps, api
<1>4. ASSUME NEW c \in Callers, RegisterLockT(c) PROVE TypeOK'
  BY <1>0, <1>4 DEF RegisterLockT, pool, maps, locks, api
<1>5. ASSUME NEW c \in Callers, RegisterChoose(c) PROVE TypeOK'
  <2>1. CASE Expand(c)
    <3>1. nextIdx \in Idx /\ nextIdx' \in 1 .. MaxThreads
      BY <1>0, <2>1 DEF Expand, HasRoom, PoolAssumption, Idx
    <3>2. pc' \in [Procs -> Pcs] /\ \A q \in Procs : pc'[q] \in PcRange(q)
      BY <2>1 DEF Expand
    <3> QED
      BY <1>5, <2>1, <3>1, <3>2 DEF RegisterChoose, Expand, maps, api
  <2>2. ASSUME NEW i \in Live, Assign(c, i), UNCHANGED <<target, nextIdx>> PROVE TypeOK'
    BY <1>0, <1>5, <2>2, SMTT(30) DEF RegisterChoose, Assign, Live, Work, api
  <2> QED
    BY <1>5, <2>1, <2>2, ReuseAssigns DEF RegisterChoose
<1>6. ASSUME NEW c \in Callers, RegisterSpawn(c) PROVE TypeOK'
  <2>1. target[c] \in Idx /\ cur[c] \in Work
    BY <1>6 DEF RegisterSpawn
  <2>2. slot' \in [Idx -> {"absent", "live", "removed"}]
    BY <1>6, <2>1 DEF RegisterSpawn
  <2>3. PICK born \in {"recv", "failed"} : pc' = [pc EXCEPT ![c] = "ex_A", ![target[c]] = born]
    BY <1>6 DEF RegisterSpawn
  <2>4. \A q \in Procs : pc'[q] = IF q = c THEN "ex_A" ELSE IF q = target[c] THEN born ELSE pc[q]
    BY <1>0, <2>1, <2>3
  <2>5. \A q \in Procs : pc'[q] \in PcRange(q)
    BY <1>0, <2>1, <2>3, <2>4 DEF Callers
  <2>6. pc' \in [Procs -> Pcs]
    BY <2>3, <2>5
  <2>7. /\ assignments' \in [Plugins -> Idx \cup {None}]
        /\ threadPlugins' \in [Idx -> SUBSET Plugins]
    BY <1>6, <2>1 DEF RegisterSpawn, Work
  <2> QED
    BY <1>6, <2>2, <2>5, <2>6, <2>7 DEF RegisterSpawn, api
<1>7. ASSUME NEW c \in Callers, ExecuteLookup(c) PROVE TypeOK'
  <2>1. \E at \in {"ex_E", "un_A", "idle"} : pc' = [pc EXCEPT ![c] = at]
    BY <1>7 DEF ExecuteLookup, Refused
  <2>2. pc' \in [Procs -> Pcs] /\ \A q \in Procs : pc'[q] \in PcRange(q)
    BY <2>1
  <2>3. target' \in [Callers -> Idx \cup {None}]
    BY <1>7 DEF ExecuteLookup, Work
  <2> QED
    BY <1>7, <2>2, <2>3 DEF ExecuteLookup, pool, maps, locks, api
<1>8. ASSUME NEW c \in Callers, ExecuteSend(c) PROVE TypeOK'
  <2>1. target[c] \in Idx /\ cur[c] \in Job
    BY <1>8 DEF ExecuteSend, Job
  <2>2. \E at \in {"wait", "idle", "un_A"} : pc' = [pc EXCEPT ![c] = at]
    BY <1>8 DEF ExecuteSend, Refused
  <2>3. pc' \in [Procs -> Pcs] /\ \A q \in Procs : pc'[q] \in PcRange(q)
    BY <2>2
  <2>4. Append(queue[target[c]], cur[c]) \in Seq(Job)
    BY <2>1
  <2>5. queue' \in [Idx -> Seq(Job)] /\ inflight' \in [Idx -> Int]
    <3>1. CASE Accepts(target[c])
      <4>1. queue' = [queue EXCEPT ![target[c]] = Append(queue[target[c]], cur[c])]
        BY <1>8, <3>1 DEF ExecuteSend
      <4>2. inflight' = [inflight EXCEPT ![target[c]] = inflight[target[c]] + 1]
        BY <1>8, <3>1 DEF ExecuteSend
      <4> QED
        BY <2>1, <2>4, <4>1, <4>2
    <3>2. CASE ~Accepts(target[c])
      BY <1>8, <3>2 DEF ExecuteSend
    <3> QED
      BY <3>1, <3>2
  <2> QED
    BY <1>8, <2>3, <2>5 DEF ExecuteSend, maps, locks, api
<1>9. ASSUME NEW q \in Procs, UnregisterLockA(q) PROVE TypeOK'
  BY <1>0, <1>9 DEF UnregisterLockA, pool, maps, locks, api
<1>10. ASSUME NEW q \in Procs, UnregisterRemove(q) PROVE TypeOK'
  <2>1. assignments' \in [Plugins -> Idx \cup {None}]
    BY <1>10 DEF UnregisterRemove
  <2>2. \A i \in Idx : threadPlugins[i] \ {cur[q].plugin} \in SUBSET Plugins
    OBVIOUS
  <2>3. threadPlugins' \in [Idx -> SUBSET Plugins]
    BY <1>10, <2>2, SMTT(30) DEF UnregisterRemove, Without
  <2>4. pc' = [pc EXCEPT ![q] = "sh_E"]
    BY <1>10 DEF UnregisterRemove
  <2>5. pc' \in [Procs -> Pcs] /\ \A r \in Procs : pc'[r] \in PcRange(r)
    BY <1>0, <2>4, SMTT(30)
  <2>6. /\ UNCHANGED <<slot, nextIdx, queue, inflight>>
        /\ UNCHANGED <<cur, target, calls, begun, receipt, dropped>>
        /\ lockA' = None /\ UNCHANGED <<lockT, lockE>>
    BY <1>10 DEF UnregisterRemove, pool, api
  <2> QED
    BY <2>1, <2>3, <2>5, <2>6, SMTT(30)
<1>11. ASSUME NEW q \in Procs, ShrinkLockE(q) PROVE TypeOK'
  BY <1>0, <1>11 DEF ShrinkLockE, pool, maps, locks, api
<1>12. ASSUME NEW q \in Procs, ShrinkRemove(q) PROVE TypeOK'
  <2>1. Shutdown \in Job
    BY DEF Job
  <2>2. queue' \in [Idx -> Seq(Job)]
    BY <1>12, <2>1 DEF ShrinkRemove
  <2>3. slot' \in [Idx -> {"absent", "live", "removed"}]
    BY <1>12 DEF ShrinkRemove
  <2>4. \E at \in {"idle", "receipt"} : (at = "idle" <=> q \in Callers) /\ pc' = [pc EXCEPT ![q] = at]
    BY <1>12 DEF ShrinkRemove
  <2>5. pc' \in [Procs -> Pcs] /\ \A r \in Procs : pc'[r] \in PcRange(r)
    BY <2>4
  <2> QED
    BY <1>12, <2>2, <2>3, <2>5 DEF ShrinkRemove, maps, api
<1>13. ASSUME NEW i \in Idx, WorkerReceive(i) PROVE TypeOK'
  <2>1. Head(queue[i]) \in Job /\ Tail(queue[i]) \in Seq(Job)
    BY <1>13 DEF WorkerReceive
  <2>2. queue' \in [Idx -> Seq(Job)]
    BY <1>13, <2>1 DEF WorkerReceive
  <2>3. \E at \in {"exited", "work"} : pc' = [pc EXCEPT ![i] = at]
    BY <1>13 DEF WorkerReceive
  <2>4. pc' \in [Procs -> Pcs] /\ \A q \in Procs : pc'[q] \in PcRange(q)
    BY <1>0, <2>3
  <2>5. cur' \in [Procs -> Work \cup {None}]
    <3>1. CASE Head(queue[i]) = Shutdown
      BY <1>13, <3>1 DEF WorkerReceive
    <3>2. CASE Head(queue[i]) # Shutdown
      <4>1. Head(queue[i]) \in Work
        BY <2>1, <3>2 DEF Job
      <4>2. cur' = [cur EXCEPT ![i] = Head(queue[i])]
        BY <1>13, <3>2 DEF WorkerReceive
      <4> QED
        BY <4>1, <4>2
    <3> QED
      BY <3>1, <3>2
  <2> QED
    BY <1>13, <2>2, <2>4, <2>5 DEF WorkerReceive, maps, locks, api
<1>14. ASSUME NEW i \in Idx, WorkerFinish(i) PROVE TypeOK'
  BY <1>0, <1>14 DEF WorkerFinish, pool, maps, locks, api
<1>15. ASSUME NEW i \in Idx, WorkerCleanup(i) PROVE TypeOK'
  BY <1>0, <1>15 DEF WorkerCleanup, pool, maps, locks, api
<1>16. ASSUME NEW i \in Idx, WorkerReceipt(i) PROVE TypeOK'
  BY <1>0, <1>16 DEF WorkerReceipt, pool, maps, locks, api, Outcome
<1>17. ASSUME NEW i \in Idx, WorkerDone(i) PROVE TypeOK'
  BY <1>0, <1>17 DEF WorkerDone, pool, maps, locks, api, Released
<1>18. ASSUME TakeReceipt \/ ReceiptTimeout PROVE TypeOK'
  BY <1>0, <1>18 DEF TakeReceipt, ReceiptTimeout, pool, maps, locks, api, Callers
<1>19. ASSUME DropExecutor PROVE TypeOK'
  <2>1. Shutdown \in Job
    BY DEF Job
  <2>2. queue' \in [Idx -> Seq(Job)]
    BY <1>19, <2>1 DEF DropExecutor
  <2> QED
    BY <1>19, <2>2 DEF DropExecutor, maps, locks
<1>20. CASE UNCHANGED vars
  BY <1>20 DEF vars
<1>21. QED
  BY <1>1, <1>2, <1>3, <1>4, <1>5, <1>6, <1>7, <1>8, <1>9, <1>10, <1>11, <1>12, <1>13, <1>14, <1>15, <1>16, <1>17, <1>18, <1>19, <1>20
     DEF Next, CallerStep, UnregisterStep, WorkerStep, Stopped

\* Every step leaves a job in the hands of whoever is in an operation.
LEMMA JobsStep == ASSUME PoolAssumption, IInv, [Next]_vars PROVE JobsInHand'
<1> USE DEF IInv, TypeOK, Pcs, CallerPcs, WorkerPcs, PcRange, Procs, JobsInHand, SpawnInv, Work, Kinds, Running, Job, Shutdown
<1>0. /\ PoolAssumption
      /\ \A c \in Callers, i \in Idx : c # i
      /\ \A q \in Procs : q # None
      /\ PluginThread \in Callers
  BY ProcsApart
<1>a. ASSUME NEW c \in Callers, pc[c] # "idle", cur' = cur, \E at : pc' = [pc EXCEPT ![c] = at]
      PROVE  JobsInHand'
  BY <1>0, <1>a
<1>1. ASSUME NEW c \in Callers, NEW p \in Plugins, BeginLoad(c, p) PROVE JobsInHand'
  BY <1>0, <1>1 DEF BeginLoad, Begin, pool, maps, locks
<1>2. ASSUME NEW p \in Plugins, BeginEvent(p) \/ BeginUnload(p) PROVE JobsInHand'
  <2>1. CASE BeginEvent(p)
    BY <1>0, <2>1 DEF BeginEvent, Begin, pool, maps, locks, PoolAssumption, Kinds
  <2>2. CASE BeginUnload(p)
    BY <1>0, <2>2 DEF BeginUnload, Begin, pool, maps, locks, PoolAssumption, Kinds
  <2> QED
    BY <1>2, <2>1, <2>2
<1>3. ASSUME NEW c \in Callers, RegisterLockA(c) PROVE JobsInHand'
  BY <1>a, <1>3 DEF RegisterLockA
<1>4. ASSUME NEW c \in Callers, RegisterLockT(c) PROVE JobsInHand'
  BY <1>a, <1>4 DEF RegisterLockT
<1>5. ASSUME NEW c \in Callers, RegisterChoose(c) PROVE JobsInHand'
  <2>1. \E at : pc' = [pc EXCEPT ![c] = at]
    BY <1>5 DEF RegisterChoose, Expand, Reuse, Assign
  <2> QED
    BY <1>a, <1>5, <2>1 DEF RegisterChoose
<1>6. ASSUME NEW c \in Callers, RegisterSpawn(c) PROVE JobsInHand'
  <2>1. target[c] \in Idx /\ pc[target[c]] = "unborn" /\ pc[c] = "spawn" /\ cur' = cur
    BY <1>6 DEF RegisterSpawn
  <2>2. PICK born \in {"recv", "failed"} : pc' = [pc EXCEPT ![c] = "ex_A", ![target[c]] = born]
    BY <1>6 DEF RegisterSpawn
  <2>3. \A d \in Callers : pc'[d] = IF d = c THEN "ex_A" ELSE pc[d]
    BY <1>0, <2>1, <2>2
  <2>4. \A i \in Idx : pc'[i] = IF i = target[c] THEN born ELSE pc[i]
    BY <1>0, <2>1, <2>2
  <2> QED
    BY <2>1, <2>3, <2>4
<1>7. ASSUME NEW c \in Callers, ExecuteLookup(c) PROVE JobsInHand'
  BY <1>a, <1>7 DEF ExecuteLookup
<1>8. ASSUME NEW c \in Callers, ExecuteSend(c) PROVE JobsInHand'
  <2>1. pc[c] # "idle" /\ cur' = cur /\ \E at : pc' = [pc EXCEPT ![c] = at]
    BY <1>8 DEF ExecuteSend
  <2> QED
    BY <1>a, <2>1
<1>9. ASSUME NEW q \in Procs, UnregisterLockA(q) PROVE JobsInHand'
  BY <1>0, <1>9 DEF UnregisterLockA, pool, maps, locks, api
<1>10. ASSUME NEW q \in Procs, UnregisterRemove(q) PROVE JobsInHand'
  BY <1>0, <1>10 DEF UnregisterRemove, Without, pool, maps, locks, api
<1>11. ASSUME NEW q \in Procs, ShrinkLockE(q) PROVE JobsInHand'
  BY <1>0, <1>11 DEF ShrinkLockE, pool, maps, locks, api
<1>12. ASSUME NEW q \in Procs, ShrinkRemove(q) PROVE JobsInHand'
  BY <1>0, <1>12 DEF ShrinkRemove, Removable, ShutDown, pool, maps, locks, api
<1>13. ASSUME NEW i \in Idx, WorkerReceive(i) PROVE JobsInHand'
  <2>1. \A c \in Callers : pc'[c] = pc[c] /\ cur'[c] = cur[c]
    BY <1>0, <1>13 DEF WorkerReceive
  <2>2. \A j \in Idx \ {i} : pc'[j] = pc[j] /\ cur'[j] = cur[j]
    BY <1>0, <1>13 DEF WorkerReceive
  <2>3. pc'[i] = "exited" \/ (pc'[i] = "work" /\ cur'[i] \in Work)
    BY <1>13 DEF WorkerReceive
  <2> QED
    BY <2>1, <2>2, <2>3
<1>14. ASSUME NEW i \in Idx, WorkerFinish(i) PROVE JobsInHand'
  BY <1>0, <1>14 DEF WorkerFinish, pool, maps, locks, api
<1>15. ASSUME NEW i \in Idx, WorkerCleanup(i) PROVE JobsInHand'
  BY <1>0, <1>15 DEF WorkerCleanup, pool, maps, locks, api
<1>16. ASSUME NEW i \in Idx, WorkerReceipt(i) PROVE JobsInHand'
  BY <1>0, <1>16 DEF WorkerReceipt, pool, maps, locks, api, Outcome
<1>17. ASSUME NEW i \in Idx, WorkerDone(i) PROVE JobsInHand'
  BY <1>0, <1>17 DEF WorkerDone, pool, maps, locks, api, Released
<1>18. ASSUME TakeReceipt \/ ReceiptTimeout PROVE JobsInHand'
  BY <1>0, <1>18 DEF TakeReceipt, ReceiptTimeout, pool, maps, locks, api
<1>19. ASSUME DropExecutor PROVE JobsInHand'
  BY <1>0, <1>19 DEF DropExecutor, ShutDown, pool, maps, locks, api
<1>20. CASE UNCHANGED vars
  BY <1>20 DEF vars
<1>21. QED
  BY <1>1, <1>2, <1>3, <1>4, <1>5, <1>6, <1>7, <1>8, <1>9, <1>10, <1>11, <1>12, <1>13, <1>14, <1>15, <1>16, <1>17, <1>18, <1>19, <1>20
     DEF Next, CallerStep, UnregisterStep, WorkerStep, Stopped

\* Every step keeps the mutexes exclusive.
LEMMA LockStep == ASSUME PoolAssumption, IInv, [Next]_vars PROVE LockInv'
<1> USE DEF IInv, TypeOK, Pcs, CallerPcs, WorkerPcs, PcRange, Procs, LockInv, SpawnInv
<1>0. /\ PoolAssumption
      /\ \A c \in Callers, i \in Idx : c # i
      /\ \A q \in Procs : q # None
      /\ PluginThread \in Callers
  BY ProcsApart
<1>1. ASSUME NEW c \in Callers, NEW p \in Plugins, BeginLoad(c, p) PROVE LockInv'
  BY <1>0, <1>1 DEF BeginLoad, Begin, pool, maps, locks
<1>2. ASSUME NEW p \in Plugins, BeginEvent(p) \/ BeginUnload(p) PROVE LockInv'
  BY <1>0, <1>2 DEF BeginEvent, BeginUnload, Begin, pool, maps, locks
<1>3. ASSUME NEW c \in Callers, RegisterLockA(c) PROVE LockInv'
  BY <1>0, <1>3 DEF RegisterLockA, pool, maps, locks, api
<1>4. ASSUME NEW c \in Callers, RegisterLockT(c) PROVE LockInv'
  BY <1>0, <1>4 DEF RegisterLockT, pool, maps, locks, api
<1>5. ASSUME NEW c \in Callers, RegisterChoose(c) PROVE LockInv'
  <2>1. CASE Expand(c)
    BY <1>0, <1>5, <2>1 DEF RegisterChoose, Expand, HasRoom, PoolAssumption, Idx, maps, api
  <2>2. ASSUME NEW i \in Live, Assign(c, i), UNCHANGED <<target, nextIdx>> PROVE LockInv'
    BY <1>0, <1>5, <2>2 DEF RegisterChoose, Assign, Live, api
  <2> QED
    BY <1>5, <2>1, <2>2, ReuseAssigns DEF RegisterChoose
<1>6. ASSUME NEW c \in Callers, RegisterSpawn(c) PROVE LockInv'
  BY <1>0, <1>6 DEF RegisterSpawn, api
<1>7. ASSUME NEW c \in Callers, ExecuteLookup(c) PROVE LockInv'
  BY <1>0, <1>7 DEF ExecuteLookup, Refused, pool, maps, locks, api
<1>8. ASSUME NEW c \in Callers, ExecuteSend(c) PROVE LockInv'
  BY <1>0, <1>8 DEF ExecuteSend, Refused, maps, locks, api
<1>9. ASSUME NEW q \in Procs, UnregisterLockA(q) PROVE LockInv'
  BY <1>0, <1>9 DEF UnregisterLockA, pool, maps, locks, api
<1>10. ASSUME NEW q \in Procs, UnregisterRemove(q) PROVE LockInv'
  BY <1>0, <1>10 DEF UnregisterRemove, Without, pool, maps, locks, api
<1>11. ASSUME NEW q \in Procs, ShrinkLockE(q) PROVE LockInv'
  BY <1>0, <1>11 DEF ShrinkLockE, pool, maps, locks, api
<1>12. ASSUME NEW q \in Procs, ShrinkRemove(q) PROVE LockInv'
  BY <1>0, <1>12 DEF ShrinkRemove, Removable, ShutDown, pool, maps, locks, api
<1>13. ASSUME NEW i \in Idx, WorkerReceive(i) PROVE LockInv'
  <2>1. \E at \in {"exited", "work"} : pc' = [pc EXCEPT ![i] = at]
    BY <1>13 DEF WorkerReceive
  <2> QED
    BY <1>0, <1>13, <2>1 DEF WorkerReceive, locks
<1>14. ASSUME NEW i \in Idx, WorkerFinish(i) PROVE LockInv'
  BY <1>0, <1>14 DEF WorkerFinish, pool, maps, locks, api
<1>15. ASSUME NEW i \in Idx, WorkerCleanup(i) PROVE LockInv'
  BY <1>0, <1>15 DEF WorkerCleanup, pool, maps, locks, api
<1>16. ASSUME NEW i \in Idx, WorkerReceipt(i) PROVE LockInv'
  BY <1>0, <1>16 DEF WorkerReceipt, pool, maps, locks, api, Outcome
<1>17. ASSUME NEW i \in Idx, WorkerDone(i) PROVE LockInv'
  BY <1>0, <1>17 DEF WorkerDone, pool, maps, locks, api, Released
<1>18. ASSUME TakeReceipt \/ ReceiptTimeout PROVE LockInv'
  BY <1>0, <1>18 DEF TakeReceipt, ReceiptTimeout, pool, maps, locks, api
<1>19. ASSUME DropExecutor PROVE LockInv'
  BY <1>0, <1>19 DEF DropExecutor, ShutDown, pool, maps, locks, api
<1>20. CASE UNCHANGED vars
  BY <1>20 DEF vars
<1>21. QED
  BY <1>1, <1>2, <1>3, <1>4, <1>5, <1>6, <1>7, <1>8, <1>9, <1>10, <1>11, <1>12, <1>13, <1>14, <1>15, <1>16, <1>17, <1>18, <1>19, <1>20
     DEF Next, CallerStep, UnregisterStep, WorkerStep, Stopped

\* Every step keeps the slots yet to be filled without a thread.
LEMMA SpawnStep == ASSUME PoolAssumption, IInv, [Next]_vars PROVE SpawnInv'
<1> USE DEF IInv, TypeOK, Pcs, CallerPcs, WorkerPcs, PcRange, Procs, SpawnInv, LockInv
<1>0. /\ PoolAssumption
      /\ \A c \in Callers, i \in Idx : c # i
      /\ \A q \in Procs : q # None
      /\ PluginThread \in Callers
  BY ProcsApart
<1>1. ASSUME NEW c \in Callers, NEW p \in Plugins, BeginLoad(c, p) PROVE SpawnInv'
  BY <1>0, <1>1 DEF BeginLoad, Begin, pool, maps, locks
<1>2. ASSUME NEW p \in Plugins, BeginEvent(p) \/ BeginUnload(p) PROVE SpawnInv'
  BY <1>0, <1>2 DEF BeginEvent, BeginUnload, Begin, pool, maps, locks
<1>3. ASSUME NEW c \in Callers, RegisterLockA(c) PROVE SpawnInv'
  BY <1>0, <1>3 DEF RegisterLockA, pool, maps, locks, api
<1>4. ASSUME NEW c \in Callers, RegisterLockT(c) PROVE SpawnInv'
  BY <1>0, <1>4 DEF RegisterLockT, pool, maps, locks, api
<1>5. ASSUME NEW c \in Callers, RegisterChoose(c) PROVE SpawnInv'
  <2>1. CASE Expand(c)
    <3>1. /\ nextIdx \in Idx /\ nextIdx' = nextIdx + 1 /\ target' = [target EXCEPT ![c] = nextIdx]
          /\ pc' = [pc EXCEPT ![c] = "spawn"] /\ pc[c] = "reg_E"
      BY <1>0, <1>5, <2>1 DEF RegisterChoose, Expand, HasRoom, PoolAssumption, Idx
    <3>2. pc[nextIdx] = "unborn" /\ \A i \in Idx : pc'[i] = pc[i]
      BY <1>0, <3>1 DEF Idx
    <3>3. \A i \in Idx : i >= nextIdx' => pc'[i] = "unborn"
      <4>1. \A i \in Idx : i >= nextIdx' => i >= nextIdx
        BY <3>1 DEF Idx
      <4> QED
        BY <3>2, <4>1
    <3>4. ASSUME NEW d \in Callers, pc'[d] = "spawn"
          PROVE  target'[d] \in Idx /\ target'[d] < nextIdx' /\ pc'[target'[d]] = "unborn"
      <4>1. CASE d = c
        BY <3>1, <3>2, <4>1 DEF Idx
      <4>2. CASE d # c
        <5>1. pc[d] = "spawn" /\ target'[d] = target[d]
          BY <3>1, <3>4, <4>2
        <5>2. target[d] \in Idx /\ target[d] < nextIdx /\ pc[target[d]] = "unborn"
          BY <5>1
        <5> QED
          BY <3>1, <3>2, <5>1, <5>2 DEF Idx
      <4> QED
        BY <4>1, <4>2
    <3> QED
      BY <3>3, <3>4
  <2>2. ASSUME NEW i \in Live, Assign(c, i), UNCHANGED <<target, nextIdx>> PROVE SpawnInv'
    BY <1>0, <1>5, <2>2 DEF RegisterChoose, Assign, Live, api
  <2> QED
    BY <1>5, <2>1, <2>2, ReuseAssigns DEF RegisterChoose
<1>6. ASSUME NEW c \in Callers, RegisterSpawn(c) PROVE SpawnInv'
  <2>1. PICK born \in {"recv", "failed"} : pc' = [pc EXCEPT ![c] = "ex_A", ![target[c]] = born]
    BY <1>6 DEF RegisterSpawn
  <2>2. \A d \in Callers \ {c} : pc[d] # "spawn"
    BY <1>0, <1>6 DEF RegisterSpawn
  <2>3. \A d \in Callers : pc'[d] # "spawn"
    BY <1>0, <1>6, <2>1, <2>2
  <2>4. target[c] \in Idx /\ target[c] < nextIdx /\ nextIdx' = nextIdx
    BY <1>6 DEF RegisterSpawn
  <2>5. \A i \in Idx : i # target[c] => pc'[i] = pc[i]
    BY <1>0, <2>1, <2>4
  <2>6. \A i \in Idx : i >= nextIdx => i # target[c]
    BY <2>4 DEF Idx
  <2> QED
    BY <2>3, <2>4, <2>5, <2>6
<1>7. ASSUME NEW c \in Callers, ExecuteLookup(c) PROVE SpawnInv'
  BY <1>0, <1>7 DEF ExecuteLookup, Refused, pool, maps, locks, api
<1>8. ASSUME NEW c \in Callers, ExecuteSend(c) PROVE SpawnInv'
  BY <1>0, <1>8 DEF ExecuteSend, Refused, maps, locks, api
<1>9. ASSUME NEW q \in Procs, UnregisterLockA(q) PROVE SpawnInv'
  BY <1>0, <1>9 DEF UnregisterLockA, pool, maps, locks, api
<1>10. ASSUME NEW q \in Procs, UnregisterRemove(q) PROVE SpawnInv'
  BY <1>0, <1>10 DEF UnregisterRemove, Without, pool, maps, locks, api
<1>11. ASSUME NEW q \in Procs, ShrinkLockE(q) PROVE SpawnInv'
  BY <1>0, <1>11 DEF ShrinkLockE, pool, maps, locks, api
<1>12. ASSUME NEW q \in Procs, ShrinkRemove(q) PROVE SpawnInv'
  BY <1>0, <1>12 DEF ShrinkRemove, Removable, ShutDown, pool, maps, locks, api
<1>13. ASSUME NEW i \in Idx, WorkerReceive(i) PROVE SpawnInv'
  BY <1>0, <1>13 DEF WorkerReceive, pool, maps, locks, api
<1>14. ASSUME NEW i \in Idx, WorkerFinish(i) PROVE SpawnInv'
  BY <1>0, <1>14 DEF WorkerFinish, pool, maps, locks, api
<1>15. ASSUME NEW i \in Idx, WorkerCleanup(i) PROVE SpawnInv'
  BY <1>0, <1>15 DEF WorkerCleanup, pool, maps, locks, api
<1>16. ASSUME NEW i \in Idx, WorkerReceipt(i) PROVE SpawnInv'
  BY <1>0, <1>16 DEF WorkerReceipt, pool, maps, locks, api, Outcome
<1>17. ASSUME NEW i \in Idx, WorkerDone(i) PROVE SpawnInv'
  BY <1>0, <1>17 DEF WorkerDone, pool, maps, locks, api, Released
<1>18. ASSUME TakeReceipt \/ ReceiptTimeout PROVE SpawnInv'
  BY <1>0, <1>18 DEF TakeReceipt, ReceiptTimeout, pool, maps, locks, api
<1>19. ASSUME DropExecutor PROVE SpawnInv'
  BY <1>0, <1>19 DEF DropExecutor, ShutDown, pool, maps, locks, api
<1>20. CASE UNCHANGED vars
  BY <1>20 DEF vars
<1>21. QED
  BY <1>1, <1>2, <1>3, <1>4, <1>5, <1>6, <1>7, <1>8, <1>9, <1>10, <1>11, <1>12, <1>13, <1>14, <1>15, <1>16, <1>17, <1>18, <1>19, <1>20
     DEF Next, CallerStep, UnregisterStep, WorkerStep, Stopped

\* Every step keeps a plugin being registered unassigned: lock A is held for it.
LEMMA RegisterStep == ASSUME PoolAssumption, IInv, [Next]_vars PROVE RegisterInv'
<1> USE DEF IInv, TypeOK, Pcs, CallerPcs, WorkerPcs, PcRange, Procs, JobsInHand, RegisterInv, LockInv, SpawnInv, Work
<1>0. /\ PoolAssumption
      /\ \A c \in Callers, i \in Idx : c # i
      /\ \A q \in Procs : q # None
      /\ PluginThread \in Callers
  BY ProcsApart
<1>1. ASSUME NEW c \in Callers, NEW p \in Plugins, BeginLoad(c, p) PROVE RegisterInv'
  BY <1>0, <1>1 DEF BeginLoad, Begin, pool, maps, locks
<1>2. ASSUME NEW p \in Plugins, BeginEvent(p) \/ BeginUnload(p) PROVE RegisterInv'
  <2>1. CASE BeginEvent(p)
    BY <1>0, <2>1 DEF BeginEvent, Begin, pool, maps, locks, PoolAssumption, Kinds
  <2>2. CASE BeginUnload(p)
    BY <1>0, <2>2 DEF BeginUnload, Begin, pool, maps, locks, PoolAssumption, Kinds
  <2> QED
    BY <1>2, <2>1, <2>2
<1>3. ASSUME NEW c \in Callers, RegisterLockA(c) PROVE RegisterInv'
  BY <1>0, <1>3 DEF RegisterLockA, pool, maps, locks, api
<1>4. ASSUME NEW c \in Callers, RegisterLockT(c) PROVE RegisterInv'
  BY <1>0, <1>4 DEF RegisterLockT, pool, maps, locks, api
<1>5. ASSUME NEW c \in Callers, RegisterChoose(c) PROVE RegisterInv'
  <2>1. CASE Expand(c)
    BY <1>0, <1>5, <2>1 DEF RegisterChoose, Expand, HasRoom, PoolAssumption, Idx, maps, api
  <2>2. ASSUME NEW i \in Live, Assign(c, i), UNCHANGED <<target, nextIdx>> PROVE RegisterInv'
    BY <1>0, <1>5, <2>2 DEF RegisterChoose, Assign, Live, api
  <2> QED
    BY <1>5, <2>1, <2>2, ReuseAssigns DEF RegisterChoose
<1>6. ASSUME NEW c \in Callers, RegisterSpawn(c) PROVE RegisterInv'
  BY <1>0, <1>6 DEF RegisterSpawn, api
<1>7. ASSUME NEW c \in Callers, ExecuteLookup(c) PROVE RegisterInv'
  BY <1>0, <1>7 DEF ExecuteLookup, Refused, pool, maps, locks, api
<1>8. ASSUME NEW c \in Callers, ExecuteSend(c) PROVE RegisterInv'
  BY <1>0, <1>8 DEF ExecuteSend, Refused, maps, locks, api
<1>9. ASSUME NEW q \in Procs, UnregisterLockA(q) PROVE RegisterInv'
  BY <1>0, <1>9 DEF UnregisterLockA, pool, maps, locks, api
<1>10. ASSUME NEW q \in Procs, UnregisterRemove(q) PROVE RegisterInv'
  BY <1>0, <1>10 DEF UnregisterRemove, Without, pool, maps, locks, api
<1>11. ASSUME NEW q \in Procs, ShrinkLockE(q) PROVE RegisterInv'
  BY <1>0, <1>11 DEF ShrinkLockE, pool, maps, locks, api
<1>12. ASSUME NEW q \in Procs, ShrinkRemove(q) PROVE RegisterInv'
  BY <1>0, <1>12 DEF ShrinkRemove, Removable, ShutDown, pool, maps, locks, api
<1>13. ASSUME NEW i \in Idx, WorkerReceive(i) PROVE RegisterInv'
  <2>1. \A c \in Callers : pc'[c] = pc[c] /\ cur'[c] = cur[c]
    BY <1>0, <1>13 DEF WorkerReceive
  <2> QED
    BY <1>13, <2>1 DEF WorkerReceive, maps
<1>14. ASSUME NEW i \in Idx, WorkerFinish(i) PROVE RegisterInv'
  BY <1>0, <1>14 DEF WorkerFinish, pool, maps, locks, api
<1>15. ASSUME NEW i \in Idx, WorkerCleanup(i) PROVE RegisterInv'
  BY <1>0, <1>15 DEF WorkerCleanup, pool, maps, locks, api
<1>16. ASSUME NEW i \in Idx, WorkerReceipt(i) PROVE RegisterInv'
  BY <1>0, <1>16 DEF WorkerReceipt, pool, maps, locks, api, Outcome
<1>17. ASSUME NEW i \in Idx, WorkerDone(i) PROVE RegisterInv'
  BY <1>0, <1>17 DEF WorkerDone, pool, maps, locks, api, Released
<1>18. ASSUME TakeReceipt \/ ReceiptTimeout PROVE RegisterInv'
  BY <1>0, <1>18 DEF TakeReceipt, ReceiptTimeout, pool, maps, locks, api, Callers
<1>19. ASSUME DropExecutor PROVE RegisterInv'
  BY <1>0, <1>19 DEF DropExecutor, ShutDown, pool, maps, locks, api
<1>20. CASE UNCHANGED vars
  BY <1>20 DEF vars
<1>21. QED
  BY <1>1, <1>2, <1>3, <1>4, <1>5, <1>6, <1>7, <1>8, <1>9, <1>10, <1>11, <1>12, <1>13, <1>14, <1>15, <1>16, <1>17, <1>18, <1>19, <1>20
     DEF Next, CallerStep, UnregisterStep, WorkerStep, Stopped

\* Every step keeps an index in the hands of a caller about to send.
LEMMA LookupStep == ASSUME PoolAssumption, IInv, [Next]_vars PROVE LookupInv'
<1> USE DEF IInv, TypeOK, Pcs, CallerPcs, WorkerPcs, PcRange, Procs, JobsInHand, LookupInv, SpawnInv, Work
<1>0. /\ PoolAssumption
      /\ \A c \in Callers, i \in Idx : c # i
      /\ \A q \in Procs : q # None
      /\ PluginThread \in Callers
  BY ProcsApart
<1>1. ASSUME NEW c \in Callers, NEW p \in Plugins, BeginLoad(c, p) PROVE LookupInv'
  BY <1>0, <1>1 DEF BeginLoad, Begin, pool, maps, locks
<1>2. ASSUME NEW p \in Plugins, BeginEvent(p) \/ BeginUnload(p) PROVE LookupInv'
  BY <1>0, <1>2 DEF BeginEvent, BeginUnload, Begin, pool, maps, locks
<1>3. ASSUME NEW c \in Callers, RegisterLockA(c) PROVE LookupInv'
  BY <1>0, <1>3 DEF RegisterLockA, pool, maps, locks, api
<1>4. ASSUME NEW c \in Callers, RegisterLockT(c) PROVE LookupInv'
  BY <1>0, <1>4 DEF RegisterLockT, pool, maps, locks, api
<1>5. ASSUME NEW c \in Callers, RegisterChoose(c) PROVE LookupInv'
  <2>1. CASE Expand(c)
    BY <1>0, <1>5, <2>1 DEF RegisterChoose, Expand, HasRoom, PoolAssumption, Idx, maps, api
  <2>2. ASSUME NEW i \in Live, Assign(c, i), UNCHANGED <<target, nextIdx>> PROVE LookupInv'
    BY <1>0, <1>5, <2>2 DEF RegisterChoose, Assign, Live, api
  <2> QED
    BY <1>5, <2>1, <2>2, ReuseAssigns DEF RegisterChoose
<1>6. ASSUME NEW c \in Callers, RegisterSpawn(c) PROVE LookupInv'
  BY <1>0, <1>6 DEF RegisterSpawn, api
<1>7. ASSUME NEW c \in Callers, ExecuteLookup(c) PROVE LookupInv'
  BY <1>0, <1>7 DEF ExecuteLookup, Refused, pool, maps, locks, api
<1>8. ASSUME NEW c \in Callers, ExecuteSend(c) PROVE LookupInv'
  BY <1>0, <1>8 DEF ExecuteSend, Refused, maps, locks, api
<1>9. ASSUME NEW q \in Procs, UnregisterLockA(q) PROVE LookupInv'
  BY <1>0, <1>9 DEF UnregisterLockA, pool, maps, locks, api
<1>10. ASSUME NEW q \in Procs, UnregisterRemove(q) PROVE LookupInv'
  BY <1>0, <1>10 DEF UnregisterRemove, Without, pool, maps, locks, api
<1>11. ASSUME NEW q \in Procs, ShrinkLockE(q) PROVE LookupInv'
  BY <1>0, <1>11 DEF ShrinkLockE, pool, maps, locks, api
<1>12. ASSUME NEW q \in Procs, ShrinkRemove(q) PROVE LookupInv'
  BY <1>0, <1>12 DEF ShrinkRemove, Removable, ShutDown, pool, maps, locks, api
<1>13. ASSUME NEW i \in Idx, WorkerReceive(i) PROVE LookupInv'
  BY <1>0, <1>13 DEF WorkerReceive, pool, maps, locks, api
<1>14. ASSUME NEW i \in Idx, WorkerFinish(i) PROVE LookupInv'
  BY <1>0, <1>14 DEF WorkerFinish, pool, maps, locks, api
<1>15. ASSUME NEW i \in Idx, WorkerCleanup(i) PROVE LookupInv'
  BY <1>0, <1>15 DEF WorkerCleanup, pool, maps, locks, api
<1>16. ASSUME NEW i \in Idx, WorkerReceipt(i) PROVE LookupInv'
  BY <1>0, <1>16 DEF WorkerReceipt, pool, maps, locks, api, Outcome
<1>17. ASSUME NEW i \in Idx, WorkerDone(i) PROVE LookupInv'
  BY <1>0, <1>17 DEF WorkerDone, pool, maps, locks, api, Released
<1>18. ASSUME TakeReceipt \/ ReceiptTimeout PROVE LookupInv'
  BY <1>0, <1>18 DEF TakeReceipt, ReceiptTimeout, pool, maps, locks, api
<1>19. ASSUME DropExecutor PROVE LookupInv'
  BY <1>0, <1>19 DEF DropExecutor, ShutDown, pool, maps, locks, api
<1>20. CASE UNCHANGED vars
  BY <1>20 DEF vars
<1>21. QED
  BY <1>1, <1>2, <1>3, <1>4, <1>5, <1>6, <1>7, <1>8, <1>9, <1>10, <1>11, <1>12, <1>13, <1>14, <1>15, <1>16, <1>17, <1>18, <1>19, <1>20
     DEF Next, CallerStep, UnregisterStep, WorkerStep, Stopped

\* Every step changes both mappings alike.
LEMMA MapsStep == ASSUME PoolAssumption, IInv, [Next]_vars PROVE MapsAgree'
<1> USE DEF IInv, TypeOK, Pcs, CallerPcs, WorkerPcs, PcRange, Procs, JobsInHand, RegisterInv, SpawnInv, LockInv, MapsAgree, Work
<1>0. /\ PoolAssumption
      /\ \A c \in Callers, i \in Idx : c # i
      /\ \A q \in Procs : q # None
      /\ PluginThread \in Callers
  BY ProcsApart
<1>1. ASSUME NEW c \in Callers, NEW p \in Plugins, BeginLoad(c, p) PROVE MapsAgree'
  BY <1>0, <1>1 DEF BeginLoad, Begin, pool, maps, locks
<1>2. ASSUME NEW p \in Plugins, BeginEvent(p) \/ BeginUnload(p) PROVE MapsAgree'
  BY <1>0, <1>2 DEF BeginEvent, BeginUnload, Begin, pool, maps, locks
<1>3. ASSUME NEW c \in Callers, RegisterLockA(c) PROVE MapsAgree'
  BY <1>0, <1>3 DEF RegisterLockA, pool, maps, locks, api
<1>4. ASSUME NEW c \in Callers, RegisterLockT(c) PROVE MapsAgree'
  BY <1>0, <1>4 DEF RegisterLockT, pool, maps, locks, api
<1>5. ASSUME NEW c \in Callers, RegisterChoose(c) PROVE MapsAgree'
  <2>1. CASE Expand(c)
    BY <1>0, <1>5, <2>1 DEF RegisterChoose, Expand, HasRoom, PoolAssumption, Idx, maps, api
  <2>2. ASSUME NEW i \in Live, Assign(c, i), UNCHANGED <<target, nextIdx>> PROVE MapsAgree'
    BY <1>0, <1>5, <2>2 DEF RegisterChoose, Assign, Live, api
  <2> QED
    BY <1>5, <2>1, <2>2, ReuseAssigns DEF RegisterChoose
<1>6. ASSUME NEW c \in Callers, RegisterSpawn(c) PROVE MapsAgree'
  BY <1>0, <1>6 DEF RegisterSpawn, api
<1>7. ASSUME NEW c \in Callers, ExecuteLookup(c) PROVE MapsAgree'
  BY <1>0, <1>7 DEF ExecuteLookup, Refused, pool, maps, locks, api
<1>8. ASSUME NEW c \in Callers, ExecuteSend(c) PROVE MapsAgree'
  BY <1>0, <1>8 DEF ExecuteSend, Refused, maps, locks, api
<1>9. ASSUME NEW q \in Procs, UnregisterLockA(q) PROVE MapsAgree'
  BY <1>0, <1>9 DEF UnregisterLockA, pool, maps, locks, api
<1>10. ASSUME NEW q \in Procs, UnregisterRemove(q) PROVE MapsAgree'
  BY <1>0, <1>10 DEF UnregisterRemove, Without, pool, maps, locks, api
<1>11. ASSUME NEW q \in Procs, ShrinkLockE(q) PROVE MapsAgree'
  BY <1>0, <1>11 DEF ShrinkLockE, pool, maps, locks, api
<1>12. ASSUME NEW q \in Procs, ShrinkRemove(q) PROVE MapsAgree'
  BY <1>0, <1>12 DEF ShrinkRemove, Removable, ShutDown, pool, maps, locks, api
<1>13. ASSUME NEW i \in Idx, WorkerReceive(i) PROVE MapsAgree'
  BY <1>0, <1>13 DEF WorkerReceive, pool, maps, locks, api
<1>14. ASSUME NEW i \in Idx, WorkerFinish(i) PROVE MapsAgree'
  BY <1>0, <1>14 DEF WorkerFinish, pool, maps, locks, api
<1>15. ASSUME NEW i \in Idx, WorkerCleanup(i) PROVE MapsAgree'
  BY <1>0, <1>15 DEF WorkerCleanup, pool, maps, locks, api
<1>16. ASSUME NEW i \in Idx, WorkerReceipt(i) PROVE MapsAgree'
  BY <1>0, <1>16 DEF WorkerReceipt, pool, maps, locks, api, Outcome
<1>17. ASSUME NEW i \in Idx, WorkerDone(i) PROVE MapsAgree'
  BY <1>0, <1>17 DEF WorkerDone, pool, maps, locks, api, Released
<1>18. ASSUME TakeReceipt \/ ReceiptTimeout PROVE MapsAgree'
  BY <1>0, <1>18 DEF TakeReceipt, ReceiptTimeout, pool, maps, locks, api
<1>19. ASSUME DropExecutor PROVE MapsAgree'
  BY <1>0, <1>19 DEF DropExecutor, ShutDown, pool, maps, locks, api
<1>20. CASE UNCHANGED vars
  BY <1>20 DEF vars
<1>21. QED
  BY <1>1, <1>2, <1>3, <1>4, <1>5, <1>6, <1>7, <1>8, <1>9, <1>10, <1>11, <1>12, <1>13, <1>14, <1>15, <1>16, <1>17, <1>18, <1>19, <1>20
     DEF Next, CallerStep, UnregisterStep, WorkerStep, Stopped

\* No step takes an assigned thread out of the pool.
LEMMA LiveStep == ASSUME PoolAssumption, IInv, [Next]_vars PROVE AssignedThreadLive'
<1> USE DEF IInv, TypeOK, Pcs, CallerPcs, WorkerPcs, PcRange, Procs, JobsInHand, MapsAgree, AssignedThreadLive, SpawnInv, Work, Live
<1>0. /\ PoolAssumption
      /\ \A c \in Callers, i \in Idx : c # i
      /\ \A q \in Procs : q # None
      /\ PluginThread \in Callers
  BY ProcsApart
<1>a. ASSUME UNCHANGED <<slot, assignments>> PROVE AssignedThreadLive'
  BY <1>a
<1>1. ASSUME NEW c \in Callers, NEW p \in Plugins, BeginLoad(c, p) PROVE AssignedThreadLive'
  BY <1>a, <1>1 DEF BeginLoad, Begin, pool, maps
<1>2. ASSUME NEW p \in Plugins, BeginEvent(p) \/ BeginUnload(p) PROVE AssignedThreadLive'
  BY <1>a, <1>2 DEF BeginEvent, BeginUnload, Begin, pool, maps
<1>3. ASSUME NEW c \in Callers, RegisterLockA(c) PROVE AssignedThreadLive'
  BY <1>a, <1>3 DEF RegisterLockA, pool, maps
<1>4. ASSUME NEW c \in Callers, RegisterLockT(c) PROVE AssignedThreadLive'
  BY <1>a, <1>4 DEF RegisterLockT, pool, maps
<1>5. ASSUME NEW c \in Callers, RegisterChoose(c) PROVE AssignedThreadLive'
  <2>1. CASE Expand(c)
    BY <1>0, <1>5, <2>1 DEF RegisterChoose, Expand, HasRoom, PoolAssumption, Idx, maps, api
  <2>2. ASSUME NEW i \in Live, Assign(c, i), UNCHANGED <<target, nextIdx>> PROVE AssignedThreadLive'
    BY <1>0, <1>5, <2>2 DEF RegisterChoose, Assign, Live, api
  <2> QED
    BY <1>5, <2>1, <2>2, ReuseAssigns DEF RegisterChoose
<1>6. ASSUME NEW c \in Callers, RegisterSpawn(c) PROVE AssignedThreadLive'
  <2>1. /\ target[c] \in Idx
        /\ slot' = [slot EXCEPT ![target[c]] = "live"]
        /\ assignments' = [assignments EXCEPT ![cur[c].plugin] = target[c]]
    BY <1>0, <1>6 DEF RegisterSpawn
  <2>2. \A i \in Idx : slot[i] = "live" => slot'[i] = "live"
    BY <2>1
  <2>3. \A p \in Plugins : assignments'[p] = assignments[p] \/ assignments'[p] = target[c]
    BY <2>1
  <2>4. slot'[target[c]] = "live"
    BY <2>1
  <2>5. \A p \in Plugins : /\ assignments[p] \in Idx \cup {None}
                          /\ assignments[p] # None => slot[assignments[p]] = "live"
    OBVIOUS
  <2>6. ASSUME NEW p \in Plugins, assignments'[p] # None PROVE slot'[assignments'[p]] = "live"
    <3>1. CASE assignments'[p] = target[c]
      BY <2>4, <3>1
    <3>2. CASE assignments'[p] = assignments[p]
      <4>1. assignments[p] \in Idx /\ slot[assignments[p]] = "live"
        BY <2>5, <2>6, <3>2
      <4> QED
        BY <2>2, <3>2, <4>1
    <3> QED
      BY <2>3, <3>1, <3>2
  <2> QED
    BY <2>6
<1>7. ASSUME NEW c \in Callers, ExecuteLookup(c) PROVE AssignedThreadLive'
  BY <1>a, <1>7 DEF ExecuteLookup, pool, maps
<1>8. ASSUME NEW c \in Callers, ExecuteSend(c) PROVE AssignedThreadLive'
  BY <1>a, <1>8 DEF ExecuteSend, pool, maps
<1>9. ASSUME NEW q \in Procs, UnregisterLockA(q) PROVE AssignedThreadLive'
  BY <1>a, <1>9 DEF UnregisterLockA, pool, maps
<1>10. ASSUME NEW q \in Procs, UnregisterRemove(q) PROVE AssignedThreadLive'
  BY <1>0, <1>10 DEF UnregisterRemove, Without, pool, maps, locks, api
<1>11. ASSUME NEW q \in Procs, ShrinkLockE(q) PROVE AssignedThreadLive'
  BY <1>a, <1>11 DEF ShrinkLockE, pool, maps
<1>12. ASSUME NEW q \in Procs, ShrinkRemove(q) PROVE AssignedThreadLive'
  BY <1>0, <1>12 DEF ShrinkRemove, Removable, ShutDown, pool, maps, locks, api
<1>13. ASSUME NEW i \in Idx, WorkerReceive(i) PROVE AssignedThreadLive'
  BY <1>a, <1>13 DEF WorkerReceive, pool, maps
<1>14. ASSUME NEW i \in Idx, WorkerFinish(i) PROVE AssignedThreadLive'
  BY <1>a, <1>14 DEF WorkerFinish, pool, maps
<1>15. ASSUME NEW i \in Idx, WorkerCleanup(i) PROVE AssignedThreadLive'
  BY <1>a, <1>15 DEF WorkerCleanup, pool, maps
<1>16. ASSUME NEW i \in Idx, WorkerReceipt(i) PROVE AssignedThreadLive'
  BY <1>a, <1>16 DEF WorkerReceipt, pool, maps
<1>17. ASSUME NEW i \in Idx, WorkerDone(i) PROVE AssignedThreadLive'
  BY <1>a, <1>17 DEF WorkerDone, pool, maps
<1>18. ASSUME TakeReceipt \/ ReceiptTimeout PROVE AssignedThreadLive'
  BY <1>a, <1>18 DEF TakeReceipt, ReceiptTimeout, pool, maps
<1>19. ASSUME DropExecutor PROVE AssignedThreadLive'
  BY <1>0, <1>19 DEF DropExecutor, ShutDown, pool, maps, locks, api
<1>20. CASE UNCHANGED vars
  BY <1>20 DEF vars
<1>21. QED
  BY <1>1, <1>2, <1>3, <1>4, <1>5, <1>6, <1>7, <1>8, <1>9, <1>10, <1>11, <1>12, <1>13, <1>14, <1>15, <1>16, <1>17, <1>18, <1>19, <1>20
     DEF Next, CallerStep, UnregisterStep, WorkerStep, Stopped

\* The invariant holds in every initial state, whether or not thread 0 was born.
LEMMA InitInv == ASSUME PoolAssumption, Init PROVE IInv
<1>0. /\ PoolAssumption
      /\ \A c \in Callers, i \in Idx : c # i
      /\ \A q \in Procs : q # None
      /\ 0 \in Idx /\ 0 \in Procs
  BY ProcsApart DEF PoolAssumption, Idx, Procs
<1>1. PICK first \in {"recv", "failed"} :
        pc = [q \in Procs |-> CASE q \in Callers -> "idle"
                                 [] q = 0 -> first
                                 [] OTHER -> "unborn"]
  BY DEF Init
<1>2. /\ \A c \in Callers : pc[c] = "idle"
      /\ \A i \in Idx : pc[i] = IF i = 0 THEN first ELSE "unborn"
  BY <1>0, <1>1 DEF Procs
<1>3. TypeOK
  <2>1. \A q \in Procs : pc[q] \in PcRange(q)
    BY <1>0, <1>2 DEF PcRange, CallerPcs, WorkerPcs, Procs
  <2>2. pc \in [Procs -> Pcs]
    BY <1>1, <2>1 DEF PcRange, Pcs
  <2>3. /\ slot \in [Idx -> {"absent", "live", "removed"}]
        /\ nextIdx \in 1 .. MaxThreads
        /\ queue \in [Idx -> Seq(Job)]
        /\ inflight \in [Idx -> Int]
    BY <1>0 DEF Init, PoolAssumption
  <2>4. /\ assignments \in [Plugins -> Idx \cup {None}]
        /\ threadPlugins \in [Idx -> SUBSET Plugins]
        /\ {lockA, lockT, lockE} \subseteq Procs \cup {None}
        /\ cur \in [Procs -> Work \cup {None}]
        /\ target \in [Callers -> Idx \cup {None}]
        /\ receipt \in [Callers -> {"none", "ok", "err"}]
    BY DEF Init
  <2>5. calls \in [Callers -> 0 .. MaxCalls] /\ begun \subseteq Plugins /\ dropped \in BOOLEAN
    BY <1>0 DEF Init, PoolAssumption
  <2> QED
    BY <2>1, <2>2, <2>3, <2>4, <2>5 DEF TypeOK
<1>4. JobsInHand /\ RegisterInv /\ LookupInv /\ MapsAgree /\ AssignedThreadLive
  BY <1>0, <1>2 DEF Init, JobsInHand, Running, RegisterInv, LookupInv, MapsAgree, AssignedThreadLive
<1>5. LockInv
  BY <1>0, <1>2 DEF Init, LockInv, Procs
<1>6. SpawnInv
  <2>1. nextIdx = 1 /\ \A i \in Idx : i >= 1 => i # 0
    BY DEF Init
  <2> QED
    BY <1>2, <2>1 DEF SpawnInv
<1> QED
  BY <1>3, <1>4, <1>5, <1>6 DEF IInv

\* The inductive invariant holds in every reachable state.
THEOREM Invariance == Spec => []IInv
<1>1. Init => IInv
  BY PoolAssumption, InitInv
<1>2. IInv /\ [Next]_vars => IInv'
  BY PoolAssumption, TypeStep, JobsStep, LockStep, SpawnStep, RegisterStep, LookupStep,
     MapsStep, LiveStep DEF IInv
<1> QED
  BY <1>1, <1>2, PTL DEF Spec

\* The pool's variables keep their types: in particular no registration ever
\* spawns past max_threads.
THEOREM TypeCorrect == Spec => []TypeOK
<1>1. IInv => TypeOK
  BY DEF IInv
<1> QED
  BY <1>1, Invariance, PTL

\* plugin_assignments and thread_plugins never disagree, although they are behind
\* two mutexes that different calls take in different orders.
THEOREM MappingsAgree == Spec => []MapsAgree
<1>1. IInv => MapsAgree
  BY DEF IInv
<1> QED
  BY <1>1, Invariance, PTL

\* A thread that some plugin is pinned to is never taken out of the pool.
THEOREM PinnedThreadStays == Spec => []AssignedThreadLive
<1>1. IInv => AssignedThreadLive
  BY DEF IInv
<1> QED
  BY <1>1, Invariance, PTL

-----------------------------------------------------------------------------
(* The channels of the workers.                                            *)

\* No Shutdown is in the channel of i.
Clean(i) == \A k \in 1 .. Len(queue[i]) : queue[i][k] # Shutdown

\* Only the worker of an unload takes part in unregistering and shrinking, and once
\* the pool is dropped nobody does: no caller is in a call, no unload is left.
DropInv ==
    /\ \A i \in Idx : pc[i] \in {"un_A", "un_T", "sh_E", "sh_T", "receipt", "panicked"}
                        => cur[i].kind = "unload"
    /\ dropped => \A c \in Callers : pc[c] = "idle"
    /\ dropped => \A i \in Idx :
         /\ Running(i) => cur[i].kind # "unload"
         /\ \A k \in 1 .. Len(queue[i]) : queue[i][k].kind # "unload"

\* A thread is told to shut down when its slot is emptied or the pool is dropped, and
\* gets no job after that; a slot without a thread has no jobs.
ChannelInv ==
    \A i \in Idx :
        /\ slot[i] = "absent" <=> pc[i] = "unborn"
        /\ slot[i] = "absent" => queue[i] = <<>>
        /\ slot[i] = "live" /\ ~dropped => Clean(i)

\* jobs_in_flight, counted by positions: only the last can be a Shutdown.
CountInv ==
    \A i \in Idx :
        inflight[i] = (IF Clean(i) THEN Len(queue[i]) ELSE Len(queue[i]) - 1)
                      + (IF Running(i) THEN 1 ELSE 0)

JInv == DropInv /\ ChannelInv /\ AcceptedJobsKept /\ CountInv

\* What a step can do to the worker i and its channel: nothing, or
Rests(i) ==
    /\ queue'[i] = queue[i] /\ inflight'[i] = inflight[i] /\ cur'[i] = cur[i]
    /\ slot'[i] = slot[i] \/ (slot[i] = "live" /\ slot'[i] = "removed")
    /\ \/ pc'[i] = pc[i]
       \/ /\ Running(i) /\ pc'[i] \in {"un_A", "un_T", "sh_E", "sh_T", "receipt", "panicked", "done"}
          /\ pc'[i] # "done" => cur[i].kind = "unload"

\* a job of a caller is appended,
Sent(i) ==
    /\ ~dropped /\ ~dropped' /\ Accepts(i)
    /\ \E c \in Callers : cur[c] \in Work /\ queue'[i] = Append(queue[i], cur[c])
    /\ inflight'[i] = inflight[i] + 1
    /\ UNCHANGED <<slot[i], pc[i], cur[i]>>

\* a Shutdown is,
Told(i) ==
    /\ ~dropped /\ slot[i] = "live" /\ Receiving(i)
    /\ queue'[i] = Append(queue[i], Shutdown)
    /\ slot'[i] = "removed" \/ (dropped' /\ slot'[i] = "live")
    /\ inflight'[i] = inflight[i] /\ cur'[i] = cur[i]
    /\ pc'[i] = pc[i] \/ (pc[i] = "sh_T" /\ pc'[i] = "receipt")

\* it takes the first message,
Receives(i) ==
    /\ pc[i] = "recv" /\ queue[i] # <<>>
    /\ queue'[i] = Tail(queue[i])
    /\ \/ Head(queue[i]) = Shutdown /\ pc'[i] = "exited" /\ cur'[i] = cur[i]
       \/ Head(queue[i]) # Shutdown /\ pc'[i] = "work" /\ cur'[i] = Head(queue[i])
    /\ UNCHANGED <<slot[i], inflight[i], dropped>>

\* it ends a job,
Ends(i) ==
    /\ pc[i] = "done" /\ pc'[i] = "recv"
    /\ inflight'[i] = inflight[i] - 1
    /\ UNCHANGED <<slot[i], queue[i]>>

\* it is born.
IsBorn(i) ==
    /\ pc[i] = "unborn" /\ pc'[i] \in {"recv", "failed"}
    /\ slot'[i] = "live"
    /\ UNCHANGED <<queue[i], inflight[i], cur[i]>>

Seen(i) ==
    /\ Rests(i) \/ Sent(i) \/ Told(i) \/ Receives(i) \/ Ends(i) \/ IsBorn(i)
    /\ dropped => dropped'

\* Every step is one of these for every worker.
LEMMA WorkersSee ==
    ASSUME PoolAssumption, IInv, DropInv, [Next]_vars
    PROVE  \A i \in Idx : Seen(i)
<1> USE DEF IInv, TypeOK, Procs, Seen, Rests
<1>0. /\ PoolAssumption
      /\ \A c \in Callers, i \in Idx : c # i
      /\ PluginThread \in Callers
  BY ProcsApart
<1>a. ASSUME NEW c \in Callers, UNCHANGED <<slot, queue, inflight, dropped>>,
             \E at : pc' = [pc EXCEPT ![c] = at], cur' = cur \/ \E x : cur' = [cur EXCEPT ![c] = x]
      PROVE  \A i \in Idx : Seen(i)
  BY <1>0, <1>a
<1>1. ASSUME NEW c \in Callers, NEW p \in Plugins, BeginLoad(c, p) PROVE \A i \in Idx : Seen(i)
  BY <1>a, <1>1 DEF BeginLoad, Begin, pool
<1>2. ASSUME NEW p \in Plugins, BeginEvent(p) \/ BeginUnload(p) PROVE \A i \in Idx : Seen(i)
  BY <1>0, <1>a, <1>2 DEF BeginEvent, BeginUnload, Begin, pool
<1>3. ASSUME NEW c \in Callers, RegisterLockA(c) \/ RegisterLockT(c) PROVE \A i \in Idx : Seen(i)
  BY <1>a, <1>3 DEF RegisterLockA, RegisterLockT, pool, api
<1>4. ASSUME NEW c \in Callers, RegisterChoose(c) PROVE \A i \in Idx : Seen(i)
  <2>1. \E at : pc' = [pc EXCEPT ![c] = at]
    BY <1>4 DEF RegisterChoose, Expand, Reuse, Assign
  <2> QED
    BY <1>4, <1>a, <2>1 DEF RegisterChoose, api
<1>5. ASSUME NEW c \in Callers, RegisterSpawn(c) PROVE \A i \in Idx : Seen(i)
  <2>1. target[c] \in Idx /\ pc[target[c]] = "unborn"
    BY <1>5 DEF RegisterSpawn, SpawnInv
  <2>2. PICK born \in {"recv", "failed"} : pc' = [pc EXCEPT ![c] = "ex_A", ![target[c]] = born]
    BY <1>5 DEF RegisterSpawn
  <2>3. UNCHANGED <<queue, inflight, cur, dropped>> /\ slot' = [slot EXCEPT ![target[c]] = "live"]
    BY <1>5 DEF RegisterSpawn, api
  <2>4. ASSUME NEW i \in Idx, i # target[c] PROVE Rests(i)
    BY <1>0, <2>1, <2>2, <2>3, <2>4
  <2>5. ASSUME NEW i \in Idx, i = target[c] PROVE IsBorn(i)
    BY <1>0, <2>1, <2>2, <2>3, <2>5 DEF IsBorn
  <2> QED
    BY <2>3, <2>4, <2>5
<1>6. ASSUME NEW c \in Callers, ExecuteLookup(c) PROVE \A i \in Idx : Seen(i)
  BY <1>a, <1>6 DEF ExecuteLookup, pool, api
<1>7. ASSUME NEW c \in Callers, ExecuteSend(c) PROVE \A i \in Idx : Seen(i)
  <2>1. target[c] \in Idx /\ cur[c] \in Work /\ pc[c] # "idle"
    BY <1>7 DEF ExecuteSend, LookupInv, JobsInHand
  <2>2. ~dropped /\ dropped' = dropped /\ UNCHANGED <<slot, cur>>
    BY <1>7, <2>1 DEF ExecuteSend, DropInv, api
  <2>3. \E at : pc' = [pc EXCEPT ![c] = at]
    BY <1>7 DEF ExecuteSend
  <2>4. CASE Accepts(target[c])
    <3>1. /\ queue' = [queue EXCEPT ![target[c]] = Append(queue[target[c]], cur[c])]
          /\ inflight' = [inflight EXCEPT ![target[c]] = inflight[target[c]] + 1]
      BY <1>7, <2>4 DEF ExecuteSend
    <3>2. ASSUME NEW i \in Idx, i # target[c] PROVE Rests(i)
      BY <1>0, <2>1, <2>2, <2>3, <3>1, <3>2
    <3>3. ASSUME NEW i \in Idx, i = target[c] PROVE Sent(i)
      BY <1>0, <2>1, <2>2, <2>3, <2>4, <3>1, <3>3 DEF Sent
    <3> QED
      BY <2>2, <3>2, <3>3
  <2>5. CASE ~Accepts(target[c])
    <3>1. UNCHANGED <<queue, inflight>>
      BY <1>7, <2>5 DEF ExecuteSend
    <3> QED
      BY <1>a, <2>2, <2>3, <3>1
  <2> QED
    BY <2>4, <2>5
<1>8. ASSUME NEW q \in Procs, UnregisterLockA(q) \/ UnregisterRemove(q) \/ ShrinkLockE(q)
      PROVE  \A i \in Idx : Seen(i)
  <2>1. /\ UNCHANGED <<slot, queue, inflight, dropped, cur>>
        /\ pc[q] \in {"un_A", "un_T", "sh_E"}
        /\ \E at \in {"un_T", "sh_E", "sh_T"} : pc' = [pc EXCEPT ![q] = at]
    BY <1>8 DEF UnregisterLockA, UnregisterRemove, ShrinkLockE, pool, api
  <2>2. CASE q \in Callers
    BY <1>a, <2>1, <2>2
  <2>3. CASE q \in Idx
    BY <2>1, <2>3 DEF DropInv, Running
  <2> QED
    BY <2>2, <2>3
<1>9. ASSUME NEW q \in Procs, ShrinkRemove(q) PROVE \A i \in Idx : Seen(i)
  <2>1. /\ pc[q] = "sh_T" /\ UNCHANGED <<inflight, cur, dropped>>
        /\ slot' = [i \in Idx |-> IF i \in Removable THEN "removed" ELSE slot[i]]
        /\ queue' = [i \in Idx |-> IF i \in ShutDown(Removable)
                               THEN Append(queue[i], Shutdown) ELSE queue[i]]
        /\ pc' = [pc EXCEPT ![q] = IF q \in Callers THEN "idle" ELSE "receipt"]
    BY <1>9 DEF ShrinkRemove, api
  <2>2. ~dropped
    <3>1. CASE q \in Callers
      BY <2>1, <3>1 DEF DropInv
    <3>2. CASE q \in Idx
      BY <2>1, <3>2 DEF DropInv, Running
    <3> QED
      BY <3>1, <3>2
  <2>3. Removable \subseteq Live /\ Removable \subseteq Idx
    BY DEF Removable, Live
  <2>4. ASSUME NEW i \in Idx PROVE pc'[i] = pc[i] \/ (pc[i] = "sh_T" /\ pc'[i] = "receipt")
    BY <1>0, <2>1
  <2>5. ASSUME NEW i \in Idx PROVE Seen(i)
    <3>1. CASE i \in ShutDown(Removable)
      BY <2>1, <2>2, <2>3, <2>4, <3>1 DEF ShutDown, Live, Told
    <3>2. CASE i \notin ShutDown(Removable)
      <4>1. pc[i] = "sh_T" => cur[i].kind = "unload" /\ Running(i)
        BY DEF DropInv, Running
      <4> QED
        BY <2>1, <2>3, <2>4, <3>2, <4>1 DEF Live
    <3> QED
      BY <3>1, <3>2
  <2> QED
    BY <2>5
<1>10. ASSUME NEW i \in Idx, WorkerReceive(i) PROVE \A j \in Idx : Seen(j)
  <2>1. UNCHANGED <<slot, inflight, dropped>>
    BY <1>10 DEF WorkerReceive, api
  <2>2. ASSUME NEW j \in Idx, j # i PROVE Rests(j)
    BY <1>10, <2>1, <2>2 DEF WorkerReceive
  <2>3. Receives(i)
    BY <1>10, <2>1 DEF WorkerReceive, Receives
  <2> QED
    BY <2>1, <2>2, <2>3
<1>11. ASSUME NEW i \in Idx, WorkerFinish(i) \/ WorkerCleanup(i) PROVE \A j \in Idx : Seen(j)
  BY <1>11 DEF WorkerFinish, WorkerCleanup, pool, api, Running
<1>12. ASSUME NEW i \in Idx, WorkerReceipt(i) PROVE \A j \in Idx : Seen(j)
  BY <1>12 DEF WorkerReceipt, pool, api, Running
<1>13. ASSUME NEW i \in Idx, WorkerDone(i) PROVE \A j \in Idx : Seen(j)
  <2>1. UNCHANGED <<slot, queue, dropped>>
    BY <1>13 DEF WorkerDone, api
  <2>2. ASSUME NEW j \in Idx, j # i PROVE Rests(j)
    BY <1>13, <2>1, <2>2 DEF WorkerDone
  <2>3. Ends(i)
    BY <1>13, <2>1 DEF WorkerDone, Ends, Released
  <2> QED
    BY <2>1, <2>2, <2>3
<1>14. ASSUME TakeReceipt \/ ReceiptTimeout PROVE \A i \in Idx : Seen(i)
  BY <1>0, <1>a, <1>14 DEF TakeReceipt, ReceiptTimeout, pool, api
<1>15. ASSUME DropExecutor PROVE \A i \in Idx : Seen(i)
  BY <1>15 DEF DropExecutor, ShutDown, Live, Told
<1>16. CASE UNCHANGED vars
  BY <1>16 DEF vars
<1> QED
  BY <1>1, <1>2, <1>3, <1>4, <1>5, <1>6, <1>7, <1>8, <1>9, <1>10, <1>11, <1>12, <1>13, <1>14,
     <1>15, <1>16 DEF Next, CallerStep, UnregisterStep, WorkerStep, Stopped


\* The callers stay idle once the pool is dropped, which only DropExecutor does.
LEMMA CallersStep ==
    ASSUME PoolAssumption, IInv, DropInv, [Next]_vars
    PROVE  /\ dropped => \A c \in Callers : pc'[c] = "idle"
           /\ dropped' /\ ~dropped => DropExecutor
<1> USE DEF IInv, TypeOK, Procs
<1>0. /\ \A c \in Callers, i \in Idx : c # i
      /\ PluginThread \in Callers
  BY ProcsApart
<1>1. ASSUME NEW i \in Idx, WorkerStep(i) PROVE dropped' = dropped /\ \A c \in Callers : pc'[c] = pc[c]
  BY <1>0, <1>1 DEF WorkerStep, WorkerReceive, WorkerFinish, WorkerCleanup, WorkerReceipt, WorkerDone, api
<1>2. ASSUME NEW c \in Callers, CallerStep(c) PROVE ~dropped /\ dropped' = dropped
  <2>1. pc[c] # "idle" /\ dropped' = dropped
    BY <1>2 DEF CallerStep, RegisterLockA, RegisterLockT, RegisterChoose, RegisterSpawn,
       ExecuteLookup, ExecuteSend, api
  <2> QED
    BY <2>1 DEF DropInv
<1>3. ASSUME NEW q \in Procs, UnregisterStep(q)
      PROVE  dropped' = dropped /\ ~dropped
  <2>1. pc[q] \in {"un_A", "un_T", "sh_E", "sh_T"} /\ dropped' = dropped
    BY <1>3 DEF UnregisterStep, UnregisterLockA, UnregisterRemove, ShrinkLockE, ShrinkRemove, api
  <2>2. CASE q \in Callers
    BY <2>1, <2>2 DEF DropInv
  <2>3. CASE q \in Idx
    BY <2>1, <2>3 DEF DropInv, Running
  <2> QED
    BY <2>1, <2>2, <2>3
<1>4. ASSUME TakeReceipt \/ ReceiptTimeout PROVE ~dropped /\ dropped' = dropped
  BY <1>0, <1>4 DEF TakeReceipt, ReceiptTimeout, DropInv, api
<1>5. ASSUME NEW c \in Callers, NEW p \in Plugins, BeginLoad(c, p) PROVE ~dropped /\ dropped' = dropped
  BY <1>5 DEF BeginLoad, Begin
<1>6. ASSUME NEW p \in Plugins, BeginEvent(p) \/ BeginUnload(p) PROVE ~dropped /\ dropped' = dropped
  BY <1>6 DEF BeginEvent, BeginUnload, Begin
<1>7. ASSUME DropExecutor PROVE ~dropped
  BY <1>7 DEF DropExecutor
<1>8. CASE UNCHANGED vars
  BY <1>8 DEF vars, DropInv
<1> QED
  BY <1>1, <1>2, <1>3, <1>4, <1>5, <1>6, <1>7, <1>8 DEF Next, Stopped, DropInv

\* Positions of a channel that a message is appended to or taken from.
LEMMA Channels ==
    ASSUME NEW s \in Seq(Job)
    PROVE  /\ \A m \in Job : /\ Append(s, m) \in Seq(Job) /\ Len(Append(s, m)) = Len(s) + 1
                             /\ Append(s, m)[Len(s) + 1] = m
                             /\ \A k \in 1 .. Len(s) : Append(s, m)[k] = s[k]
           /\ s # <<>> => /\ Head(s) = s[1] /\ Tail(s) \in Seq(Job)
                          /\ Len(s) \in Nat \ {0} /\ Len(Tail(s)) = Len(s) - 1
                          /\ \A k \in 1 .. Len(s) - 1 : Tail(s)[k] = s[k + 1]
           /\ Len(s) \in Nat /\ (Len(s) = 0 => s = <<>>)
           /\ \A k \in 1 .. Len(s) : s[k] \in Job
  OBVIOUS

\* Jobs are not Shutdown.
LEMMA JobKinds ==
    /\ \A w \in Work : w \in Job /\ w # Shutdown /\ w.kind # "shutdown"
    /\ Shutdown \in Job /\ Shutdown.kind = "shutdown"
  BY DEF Work, Job, Shutdown, Kinds

\* Every step keeps DropInv.
LEMMA DropStep ==
    ASSUME PoolAssumption, IInv, DropInv, [Next]_vars
    PROVE  DropInv'
<1>1. \A i \in Idx : Seen(i) /\ queue[i] \in Seq(Job)
  BY WorkersSee DEF IInv, TypeOK
<1>2. ASSUME NEW i \in Idx, pc'[i] \in {"un_A", "un_T", "sh_E", "sh_T", "receipt", "panicked"}
      PROVE  cur'[i].kind = "unload"
  BY <1>1, <1>2 DEF Seen, Rests, Sent, Told, Receives, Ends, IsBorn, DropInv
<1>3. ASSUME dropped', NEW c \in Callers PROVE pc'[c] = "idle"
  BY <1>3, CallersStep DEF DropExecutor
<1>4. ASSUME dropped', NEW i \in Idx
      PROVE  /\ Running(i)' => cur'[i].kind # "unload"
             /\ \A k \in 1 .. Len(queue'[i]) : queue'[i][k].kind # "unload"
  <2>1. CASE dropped
    <3>1. /\ Running(i) => cur[i].kind # "unload"
          /\ \A k \in 1 .. Len(queue[i]) : queue[i][k].kind # "unload"
      BY <2>1 DEF DropInv
    <3>2. CASE Rests(i)
      BY <3>1, <3>2 DEF Rests, Running
    <3>3. CASE Receives(i)
      <4>1. Head(queue[i]).kind # "unload"
        BY <1>1, <3>1, <3>3, Channels DEF Receives
      <4>2. \A k \in 1 .. Len(Tail(queue[i])) : Tail(queue[i])[k].kind # "unload"
        BY <1>1, <3>1, <3>3, Channels DEF Receives
      <4> QED
        BY <3>3, <4>1, <4>2 DEF Receives, Running
    <3>4. CASE Ends(i)
      BY <3>1, <3>4 DEF Ends, Running
    <3>5. CASE IsBorn(i)
      BY <3>1, <3>5 DEF IsBorn, Running
    <3> QED
      BY <1>1, <2>1, <3>2, <3>3, <3>4, <3>5 DEF Seen, Sent, Told
  <2>2. CASE ~dropped
    <3>1. DropExecutor
      BY <1>4, <2>2, CallersStep
    <3>2. /\ Running(i) => cur[i].kind # "unload"
          /\ \A k \in 1 .. Len(queue[i]) : queue[i][k].kind # "unload"
          /\ queue'[i] \in {queue[i], Append(queue[i], Shutdown)}
          /\ UNCHANGED <<pc, cur>>
      BY <3>1 DEF DropExecutor
    <3>3. \A k \in 1 .. Len(Append(queue[i], Shutdown)) : Append(queue[i], Shutdown)[k].kind # "unload"
      BY <1>1, <3>2, Channels, JobKinds
    <3> QED
      BY <3>2, <3>3 DEF Running
  <2> QED
    BY <2>1, <2>2
<1> QED
  BY <1>2, <1>3, <1>4 DEF DropInv

\* What becomes of the channel of one worker.
LEMMA ChannelsStep ==
    ASSUME PoolAssumption, IInv, JInv, [Next]_vars, NEW i \in Idx
    PROVE  /\ slot'[i] = "absent" <=> pc'[i] = "unborn"
           /\ slot'[i] = "absent" => queue'[i] = <<>>
           /\ slot'[i] = "live" /\ ~dropped' => Clean(i)'
           /\ \A k \in 1 .. Len(queue'[i]) : queue'[i][k] = Shutdown => k = Len(queue'[i])
           /\ ~Receiving(i)' => queue'[i] = <<>>
           /\ inflight'[i] = (IF Clean(i)' THEN Len(queue'[i]) ELSE Len(queue'[i]) - 1)
                              + (IF Running(i)' THEN 1 ELSE 0)
<1>1. Seen(i)
  BY WorkersSee DEF JInv
<1>2. queue[i] \in Seq(Job) /\ inflight[i] \in Int
  BY DEF IInv, TypeOK
<1>3. /\ slot[i] = "absent" <=> pc[i] = "unborn"
      /\ slot[i] = "absent" => queue[i] = <<>>
      /\ slot[i] = "live" /\ ~dropped => Clean(i)
  BY DEF JInv, ChannelInv
<1>4. /\ \A k \in 1 .. Len(queue[i]) : queue[i][k] = Shutdown => k = Len(queue[i])
      /\ ~Receiving(i) => queue[i] = <<>>
  BY DEF JInv, AcceptedJobsKept
<1>5. inflight[i] = (IF Clean(i) THEN Len(queue[i]) ELSE Len(queue[i]) - 1)
                    + (IF Running(i) THEN 1 ELSE 0)
  BY DEF JInv, CountInv
<1>0. Len(queue[i]) \in Nat
  BY <1>2, Channels
<1>6. Clean(i)' <=> \A k \in 1 .. Len(queue'[i]) : queue'[i][k] # Shutdown
  BY DEF Clean
<1>7. CASE Rests(i)
  <2>1. Clean(i)' <=> Clean(i)
    BY <1>6, <1>7 DEF Rests, Clean
  <2>2. (Running(i)' <=> Running(i)) /\ (Receiving(i)' <=> Receiving(i))
    BY <1>7 DEF Rests, Running, Receiving
  <2>3. pc'[i] = "unborn" <=> pc[i] = "unborn"
    BY <1>7 DEF Rests, Running
  <2> QED
    BY <1>1, <1>3, <1>4, <1>5, <1>7, <2>1, <2>2, <2>3 DEF Rests, Seen
<1>8. CASE Sent(i)
  <2>1. Clean(i) /\ slot'[i] = "live" /\ Receiving(i)' /\ pc'[i] # "unborn"
    BY <1>3, <1>8 DEF Sent, Accepts, Receiving
  <2>2. PICK w \in Work : queue'[i] = Append(queue[i], w)
    BY <1>8 DEF Sent
  <2>3. Len(queue'[i]) = Len(queue[i]) + 1 /\ \A k \in 1 .. Len(queue'[i]) : queue'[i][k] # Shutdown
    BY <1>2, <2>1, <2>2, Channels, JobKinds DEF Clean
  <2>4. Running(i)' <=> Running(i)
    BY <1>8 DEF Sent, Running
  <2>5. Clean(i)'
    BY <1>6, <2>3
  <2>6. inflight'[i] = inflight[i] + 1
    BY <1>8 DEF Sent
  <2>7. inflight'[i] = Len(queue'[i]) + (IF Running(i)' THEN 1 ELSE 0)
    <3>1. inflight[i] = Len(queue[i]) + (IF Running(i) THEN 1 ELSE 0)
      BY <1>5, <2>1
    <3>2. Len(queue'[i]) = Len(queue[i]) + 1
      BY <2>3
    <3>3. CASE Running(i)
      <4>1. inflight[i] = Len(queue[i]) + 1
        BY <3>1, <3>3
      <4>2. inflight'[i] = Len(queue'[i]) + 1
        BY <1>0, <2>6, <3>2, <4>1
      <4> QED
        BY <2>4, <3>3, <4>2
    <3>4. CASE ~Running(i)
      <4>1. inflight[i] = Len(queue[i])
        BY <1>0, <3>1, <3>4
      <4>2. inflight'[i] = Len(queue'[i]) + 0
        BY <1>0, <2>6, <3>2, <4>1
      <4> QED
        BY <2>4, <3>4, <4>2
    <3> QED
      BY <3>3, <3>4
  <2> QED
    BY <2>1, <2>3, <2>5, <2>7
<1>9. CASE Told(i)
  <2>1. /\ Clean(i) /\ slot'[i] # "absent" /\ ~(slot'[i] = "live" /\ ~dropped')
        /\ inflight'[i] = inflight[i]
    BY <1>3, <1>9 DEF Told
  <2>2. /\ Len(queue'[i]) = Len(queue[i]) + 1 /\ queue'[i][Len(queue'[i])] = Shutdown
        /\ \A k \in 1 .. Len(queue'[i]) : queue'[i][k] = Shutdown => k = Len(queue'[i])
        /\ Len(queue'[i]) \in 1 .. Len(queue'[i])
    BY <1>2, <1>9, <2>1, Channels, JobKinds DEF Told, Clean
  <2>3. /\ Running(i)' <=> Running(i)
        /\ Receiving(i)' /\ pc'[i] # "unborn"
    BY <1>3, <1>9 DEF Told, Running, Receiving
  <2>4. ~Clean(i)'
    BY <1>6, <2>2
  <2>5. inflight'[i] = Len(queue'[i]) - 1 + (IF Running(i)' THEN 1 ELSE 0)
    <3>1. inflight[i] = Len(queue[i]) + (IF Running(i) THEN 1 ELSE 0)
      BY <1>5, <2>1
    <3>2. Len(queue'[i]) - 1 = Len(queue[i])
      BY <1>0, <2>2
    <3> QED
      BY <2>1, <2>3, <3>1, <3>2
  <2> QED
    BY <2>1, <2>2, <2>3, <2>4, <2>5
<1>10. CASE Receives(i)
  <2>1. /\ queue[i] # <<>> /\ queue'[i] = Tail(queue[i]) /\ slot'[i] = slot[i]
        /\ pc[i] = "recv" /\ pc'[i] \in {"exited", "work"}
        /\ inflight'[i] = inflight[i] /\ dropped' = dropped
    BY <1>10 DEF Receives
  <2>2. /\ Len(queue[i]) \in Nat \ {0} /\ Len(queue'[i]) = Len(queue[i]) - 1
        /\ Head(queue[i]) = queue[i][1]
        /\ \A k \in 1 .. Len(queue[i]) - 1 : queue'[i][k] = queue[i][k + 1]
        /\ queue'[i] \in Seq(Job) /\ (Len(queue'[i]) = 0 => queue'[i] = <<>>)
    <3>1. Len(queue[i]) # 0
      BY <1>2, <2>1, Channels
    <3>2. /\ Head(queue[i]) = queue[i][1] /\ queue'[i] \in Seq(Job)
          /\ Len(queue'[i]) = Len(queue[i]) - 1
          /\ \A k \in 1 .. Len(queue[i]) - 1 : queue'[i][k] = queue[i][k + 1]
      BY <1>2, <2>1, Channels
    <3>3. Len(queue'[i]) = 0 => queue'[i] = <<>>
      BY <3>2, Channels
    <3> QED
      BY <1>0, <3>1, <3>2, <3>3
  <2>3. ~Running(i) /\ slot'[i] # "absent"
    BY <1>3, <2>1 DEF Running
  <2>4. \A k \in 1 .. Len(queue'[i]) : queue'[i][k] = Shutdown => k = Len(queue'[i])
    BY <1>4, <2>2
  <2>5. Clean(i) => Clean(i)'
    BY <1>6, <2>2 DEF Clean
  <2>6. CASE Head(queue[i]) = Shutdown
    <3>1. pc'[i] = "exited"
      BY <1>10, <2>6 DEF Receives
    <3>2. Len(queue[i]) = 1 /\ ~Clean(i)
      <4>1. 1 \in 1 .. Len(queue[i]) /\ queue[i][1] = Shutdown
        BY <2>2, <2>6
      <4> QED
        BY <1>4, <4>1 DEF Clean
    <3>3. queue'[i] = <<>> /\ Len(queue'[i]) = 0
      BY <2>2, <3>2
    <3>4. Clean(i)'
      BY <1>6, <3>3
    <3>5. ~Running(i)'
      BY <3>1 DEF Running
    <3>6. inflight'[i] = 0
      BY <1>5, <2>1, <2>3, <3>2
    <3>7. slot'[i] = "absent" <=> pc'[i] = "unborn"
      BY <2>3, <3>1
    <3> QED
      BY <2>3, <2>4, <3>3, <3>4, <3>5, <3>6, <3>7
  <2>7. CASE Head(queue[i]) # Shutdown
    <3>1. pc'[i] = "work"
      BY <1>10, <2>7 DEF Receives
    <3>2. Running(i)' /\ Receiving(i)'
      BY <3>1 DEF Running, Receiving
    <3>3. Clean(i)' <=> Clean(i)
      <4>1. ASSUME ~Clean(i) PROVE ~Clean(i)'
        <5>1. PICK k \in 1 .. Len(queue[i]) : queue[i][k] = Shutdown
          BY <4>1 DEF Clean
        <5>2. k # 1
          BY <2>2, <2>7, <5>1
        <5>3. k - 1 \in 1 .. Len(queue'[i]) /\ queue'[i][k - 1] = Shutdown
          BY <2>2, <5>1, <5>2
        <5> QED
          BY <1>6, <5>3
      <4> QED
        BY <2>5, <4>1
    <3>4. inflight'[i] = (IF Clean(i)' THEN Len(queue'[i]) ELSE Len(queue'[i]) - 1) + 1
      BY <1>2, <1>5, <2>1, <2>2, <2>3, <3>3
    <3> QED
      BY <1>3, <2>1, <2>3, <2>4, <3>1, <3>2, <3>3, <3>4
  <2> QED
    BY <2>6, <2>7
<1>11. CASE Ends(i)
  <2>1. /\ queue'[i] = queue[i] /\ slot'[i] = slot[i] /\ inflight'[i] = inflight[i] - 1
        /\ pc[i] = "done" /\ pc'[i] = "recv" /\ (dropped => dropped')
    BY <1>1, <1>11 DEF Ends, Seen
  <2>2. Running(i) /\ ~Running(i)' /\ Receiving(i)'
    BY <2>1 DEF Running, Receiving
  <2>3. Clean(i)' <=> Clean(i)
    BY <1>6, <2>1 DEF Clean
  <2>4. inflight'[i] = (IF Clean(i)' THEN Len(queue'[i]) ELSE Len(queue'[i]) - 1)
    BY <1>2, <1>5, <2>1, <2>2, <2>3, Channels
  <2>5. slot'[i] # "absent"
    BY <1>3, <2>1
  <2>6. inflight'[i] = (IF Clean(i)' THEN Len(queue'[i]) ELSE Len(queue'[i]) - 1) + 0
    BY <1>2, <2>1, <2>4, Channels
  <2> QED
    BY <1>3, <1>4, <2>1, <2>2, <2>3, <2>5, <2>6
<1>12. CASE IsBorn(i)
  <2>1. /\ queue'[i] = queue[i] /\ slot'[i] = "live" /\ inflight'[i] = inflight[i]
        /\ pc[i] = "unborn" /\ pc'[i] \in {"recv", "failed"}
    BY <1>12 DEF IsBorn
  <2>2. queue[i] = <<>> /\ ~Running(i) /\ ~Running(i)'
    BY <1>3, <2>1 DEF Running
  <2>3. Clean(i)' /\ Clean(i) /\ Len(queue'[i]) = 0
    BY <1>6, <2>1, <2>2 DEF Clean
  <2>4. inflight'[i] = 0
    BY <1>5, <2>1, <2>2, <2>3
  <2> QED
    BY <2>1, <2>2, <2>3, <2>4
<1> QED
  BY <1>1, <1>7, <1>8, <1>9, <1>10, <1>11, <1>12 DEF Seen

\* Every step preserves what the jobs' invariant says.
LEMMA JobStep ==
    ASSUME PoolAssumption, IInv, JInv, [Next]_vars PROVE JInv'
<1>1. DropInv'
  BY DropStep DEF JInv
<1>2. ChannelInv'
  BY ChannelsStep DEF ChannelInv
<1>3. AcceptedJobsKept'
  BY ChannelsStep DEF AcceptedJobsKept
<1>4. CountInv'
  BY ChannelsStep DEF CountInv
<1> QED
  BY <1>1, <1>2, <1>3, <1>4 DEF JInv

\* No channel holds a job in an initial state.
LEMMA InitJobs == ASSUME PoolAssumption, Init PROVE JInv
<1>1. \A i \in Idx : queue[i] = <<>> /\ inflight[i] = 0 /\ Clean(i) /\ Len(queue[i]) = 0
  BY DEF Init, Clean
<1>2. \A i \in Idx : /\ pc[i] \in {"recv", "failed", "unborn"}
                     /\ slot[i] = "absent" <=> pc[i] = "unborn"
  BY ProcsApart DEF Init, Procs
<1>3. \A i \in Idx : ~Running(i)
  BY <1>2 DEF Running
<1> QED
  BY <1>1, <1>2, <1>3 DEF JInv, DropInv, ChannelInv, AcceptedJobsKept, CountInv, Init

\* The positions of the jobs in a channel are counted by its length, less one for
\* a Shutdown at its end.
LEMMA JobsCounted ==
    ASSUME NEW i \in Idx, queue[i] \in Seq(Job),
           \A k \in 1 .. Len(queue[i]) : queue[i][k] = Shutdown => k = Len(queue[i])
    PROVE  Cardinality({k \in 1 .. Len(queue[i]) : queue[i][k] # Shutdown})
             = IF Clean(i) THEN Len(queue[i]) ELSE Len(queue[i]) - 1
<1>1. Len(queue[i]) \in Nat
  BY Channels
<1>2. CASE Clean(i)
  <2>1. {k \in 1 .. Len(queue[i]) : queue[i][k] # Shutdown} = 1 .. Len(queue[i])
    BY <1>2 DEF Clean
  <2>2. Cardinality(1 .. Len(queue[i])) = Len(queue[i])
    BY <1>1, FS_Interval
  <2> QED
    BY <1>2, <2>1, <2>2
<1>3. CASE ~Clean(i)
  <2>1. PICK k \in 1 .. Len(queue[i]) : queue[i][k] = Shutdown
    BY <1>3 DEF Clean
  <2>2. k = Len(queue[i])
    BY <2>1
  <2>3. {n \in 1 .. Len(queue[i]) : queue[i][n] # Shutdown} = 1 .. (Len(queue[i]) - 1)
    BY <1>1, <2>1, <2>2
  <2>4. Cardinality(1 .. (Len(queue[i]) - 1)) = Len(queue[i]) - 1
    <3>1. Len(queue[i]) - 1 \in Int /\ 1 \in Int /\ Len(queue[i]) >= 1
      BY <1>1, <2>1
    <3>2. Cardinality(1 .. (Len(queue[i]) - 1))
            = IF 1 > Len(queue[i]) - 1 THEN 0 ELSE Len(queue[i]) - 1 - 1 + 1
      BY <3>1, FS_Interval
    <3> QED
      BY <1>1, <3>1, <3>2
  <2> QED
    BY <1>3, <2>3, <2>4
<1> QED
  BY <1>2, <1>3

\* The pool's invariant and the jobs' hold in every reachable state.
THEOREM JobsInvariance == Spec => [](IInv /\ JInv)
<1>1. PoolAssumption
  BY PoolAssumption
<1>2. Init => IInv /\ JInv
  BY <1>1, InitInv, InitJobs
<1>3. (IInv /\ JInv) /\ [Next]_vars => (IInv /\ JInv)'
  BY <1>1, JobStep, TypeStep, JobsStep, LockStep, SpawnStep, RegisterStep, LookupStep, MapsStep,
     LiveStep DEF IInv
<1> QED
  BY <1>2, <1>3, PTL DEF Spec

\* No accepted job is lost, for any number of threads: a Shutdown is the last message
\* of its channel, and a worker that left its loop left nothing behind.
THEOREM JobsKept == Spec => []AcceptedJobsKept
<1>1. IInv /\ JInv => AcceptedJobsKept
  BY DEF JInv
<1> QED
  BY <1>1, JobsInvariance, PTL

\* jobs_in_flight of a thread is the number of jobs in its channel and in its hands.
THEOREM BusyCounted == Spec => []BusyCountExact
<1>1. IInv /\ JInv => BusyCountExact
  BY JobsCounted DEF IInv, TypeOK, JInv, CountInv, AcceptedJobsKept, BusyCountExact
<1> QED
  BY <1>1, JobsInvariance, PTL

-----------------------------------------------------------------------------
(* The receipts of unloads.                                                *)

\* Where a load is registering its plugin.
Registering == {"reg_A", "reg_T", "reg_E", "spawn"}

\* The one load of p has begun and its registration is over, for good.
Settled(p) == p \in begun /\ \A c \in Callers : pc[c] \in Registering => cur[c].plugin # p

\* What a caller does at each place: only loads register and roll back, only the plugin
\* thread unloads, and only an unload waits.
KindInv ==
    \A c \in Callers :
        /\ pc[c] \in Registering \cup {"un_A", "un_T"} => cur[c].kind = "load"
        /\ pc[c] = "wait" => c = PluginThread /\ cur[c].kind = "unload"
        /\ pc[c] # "idle" /\ cur[c].kind = "unload" => c = PluginThread

\* A registration is the only one of its plugin, which has no thread yet.
BegunInv ==
    /\ \A c \in Callers : pc[c] \in Registering =>
        /\ cur[c].plugin \in begun /\ assignments[cur[c].plugin] = None
        /\ \A d \in Callers : pc[d] \in Registering /\ cur[d].plugin = cur[c].plugin => d = c
    /\ \A p \in Plugins : assignments[p] # None => p \in begun

\* What a caller read in the look-up is still so, or its plugin is gone; a load is rolled
\* back only when its plugin is gone or pinned to a thread that never ran.
Placed(c, p) ==
    /\ pc[c] = "ex_A" /\ cur[c].kind = "load" => Settled(p)
    /\ pc[c] = "ex_E" => Settled(p) /\ assignments[p] \in {target[c], None}
    /\ pc[c] \in {"un_A", "un_T"} =>
         Settled(p) /\ \A i \in Idx : assignments[p] = i => ~Receiving(i)

PlacedInv == \A c \in Callers, p \in Plugins :
    pc[c] # "idle" /\ cur[c].plugin = p => Placed(c, p)

PlaceInv == KindInv /\ BegunInv /\ PlacedInv

\* What a step can do to a caller: nothing,
Stays(c) == pc'[c] = pc[c] /\ cur'[c] = cur[c] /\ target'[c] = target[c]

\* it takes up the first load of a plugin,
Loads(c) ==
    /\ pc[c] = "idle" /\ pc'[c] = "reg_A"
    /\ cur'[c].kind = "load" /\ cur'[c].plugin \in Plugins \ begun /\ cur'[c].plugin \in begun'
    /\ \A d \in Callers \ {c} : Stays(d)

\* it takes up an event or an unload,
Drives(c) ==
    /\ c = PluginThread /\ pc[c] = "idle" /\ pc'[c] = "ex_A"
    /\ cur'[c].kind # "load"

\* it registers, or ends its registration,
Registers(c) ==
    /\ pc[c] \in Registering /\ pc'[c] \in Registering \cup {"ex_A"}
    /\ cur'[c] = cur[c]

\* it looks up the thread,
LooksUp(c) ==
    /\ pc[c] = "ex_A" /\ cur'[c] = cur[c]
    /\ assignments' = assignments /\ target'[c] = assignments[cur[c].plugin]
    /\ pc'[c] = IF target'[c] = None THEN Refused(c) ELSE "ex_E"

\* it sends,
Sends(c) ==
    /\ pc[c] = "ex_E" /\ cur'[c] = cur[c] /\ target'[c] = target[c]
    /\ assignments' = assignments
    /\ pc'[c] = IF Accepts(target[c]) THEN IF cur[c].kind = "unload" THEN "wait" ELSE "idle"
                                      ELSE Refused(c)

\* it rolls its registration back, or takes the receipt.
RollsBack(c) ==
    /\ cur'[c] = cur[c] /\ target'[c] = target[c]
    /\ \/ pc[c] = "un_A" /\ pc'[c] = "un_T" /\ assignments' = assignments
       \/ pc[c] \in {"un_T", "sh_E", "sh_T"} /\ pc'[c] \in {"sh_E", "sh_T", "idle"}
TakesReceipt(c) ==
    c = PluginThread /\ pc[c] = "wait" /\ pc'[c] = "idle" /\ cur'[c] = cur[c]

Moves(c) ==
    \/ Stays(c) \/ Loads(c) \/ Drives(c) \/ Registers(c) \/ LooksUp(c) \/ Sends(c)
    \/ RollsBack(c) \/ TakesReceipt(c)

\* What a step can do to the thread of a plugin: nothing, a registration gives it one,
\* or somebody unregisters it.
Gains(p) ==
    \E c \in Callers : /\ pc[c] \in Registering /\ pc'[c] = "ex_A"
                       /\ cur[c].plugin = p /\ assignments'[p] \in Idx
Loses(p) ==
    /\ assignments'[p] = None
    /\ \E q \in Procs : UnregisterRemove(q) /\ cur[q].plugin = p
Changes(p) == assignments'[p] = assignments[p] \/ Gains(p) \/ Loses(p)

CallersMove ==
    /\ \A c \in Callers : Moves(c)
    /\ \A p \in Plugins : Changes(p)
    /\ begun \subseteq begun'

\* Every step is one of these for every caller and every plugin, and begun only grows.
LEMMA CallersAct ==
    ASSUME PoolAssumption, IInv, [Next]_vars
    PROVE  CallersMove
<1> USE DEF IInv, TypeOK, Procs, CallersMove
<1>0. /\ PoolAssumption
      /\ \A c \in Callers, i \in Idx : c # i
      /\ PluginThread \in Callers
  BY ProcsApart
<1>1. ASSUME NEW c \in Callers, NEW p \in Plugins, BeginLoad(c, p) PROVE CallersMove
  <2>1. /\ UNCHANGED <<assignments, target>> /\ begun' = begun \cup {p} /\ p \notin begun
        /\ pc[c] = "idle" /\ pc' = [pc EXCEPT ![c] = "reg_A"]
        /\ cur' = [cur EXCEPT ![c] = [kind |-> "load", plugin |-> p, caller |-> c, n |-> calls[c]]]
    BY <1>1 DEF BeginLoad, Begin, maps
  <2>2. Loads(c) /\ \A d \in Callers \ {c} : Stays(d)
    BY <2>1 DEF Loads, Stays
  <2> QED
    BY <2>1, <2>2 DEF Moves, Changes
<1>2. ASSUME NEW p \in Plugins, BeginEvent(p) \/ BeginUnload(p) PROVE CallersMove
  <2>1. PICK kind \in {"event", "unload"} : Begin(PluginThread, kind, p, "ex_A") /\ begun' = begun
    BY <1>2 DEF BeginEvent, BeginUnload
  <2>2. /\ UNCHANGED <<assignments, target>>
        /\ pc[PluginThread] = "idle" /\ pc' = [pc EXCEPT ![PluginThread] = "ex_A"]
        /\ cur' = [cur EXCEPT ![PluginThread] =
                     [kind |-> kind, plugin |-> p, caller |-> PluginThread, n |-> calls[PluginThread]]]
    BY <2>1 DEF Begin, maps
  <2>3. Drives(PluginThread) /\ \A d \in Callers \ {PluginThread} : Stays(d)
    BY <1>0, <2>2 DEF Drives, Stays
  <2> QED
    BY <2>1, <2>2, <2>3 DEF Moves, Changes
<1>3. ASSUME NEW c \in Callers, RegisterLockA(c) \/ RegisterLockT(c) PROVE CallersMove
  <2>1. /\ UNCHANGED <<assignments, target, cur, begun>> /\ pc[c] \in Registering
        /\ \E at \in Registering \cup {"ex_A"} : pc' = [pc EXCEPT ![c] = at]
    BY <1>3 DEF RegisterLockA, RegisterLockT, maps, api, Registering
  <2> QED
    BY <2>1 DEF Moves, Changes, Registers, Stays
<1>4. ASSUME NEW c \in Callers, RegisterChoose(c) PROVE CallersMove
  <2>1. CASE Expand(c)
    <3>1. /\ UNCHANGED <<assignments, cur, begun>> /\ pc[c] \in Registering
          /\ target' = [target EXCEPT ![c] = nextIdx] /\ pc' = [pc EXCEPT ![c] = "spawn"]
      BY <1>4, <2>1 DEF RegisterChoose, Expand, maps, api, Registering
    <3> QED
      BY <3>1 DEF Moves, Changes, Registers, Stays, Registering
  <2>2. ASSUME NEW i \in Live, Assign(c, i), UNCHANGED <<target, nextIdx>> PROVE CallersMove
    <3>1. /\ UNCHANGED <<target, cur, begun>> /\ pc[c] \in Registering /\ i \in Idx
          /\ assignments' = [assignments EXCEPT ![cur[c].plugin] = i]
          /\ pc' = [pc EXCEPT ![c] = "ex_A"]
      BY <1>4, <2>2 DEF RegisterChoose, Assign, Live, api, Registering
    <3> QED
      BY <3>1 DEF Moves, Changes, Gains, Registers, Stays
  <2> QED
    BY <1>4, <2>1, <2>2, ReuseAssigns DEF RegisterChoose
<1>5. ASSUME NEW c \in Callers, RegisterSpawn(c) PROVE CallersMove
  <2>1. target[c] \in Idx
    BY <1>5 DEF RegisterSpawn, SpawnInv
  <2>2. /\ UNCHANGED <<target, cur, begun>> /\ pc[c] \in Registering
        /\ assignments' = [assignments EXCEPT ![cur[c].plugin] = target[c]]
        /\ \E born \in {"recv", "failed"} : pc' = [pc EXCEPT ![c] = "ex_A", ![target[c]] = born]
    BY <1>5 DEF RegisterSpawn, api, Registering
  <2>3. pc'[c] = "ex_A" /\ \A d \in Callers \ {c} : pc'[d] = pc[d]
    BY <1>0, <2>1, <2>2
  <2> QED
    BY <2>1, <2>2, <2>3 DEF Moves, Changes, Gains, Registers, Stays
<1>6. ASSUME NEW c \in Callers, ExecuteLookup(c) PROVE CallersMove
  <2>1. /\ UNCHANGED <<assignments, cur, begun>> /\ pc[c] = "ex_A"
        /\ target' = [target EXCEPT ![c] = assignments[cur[c].plugin]]
        /\ pc' = [pc EXCEPT ![c] = IF assignments[cur[c].plugin] = None THEN Refused(c) ELSE "ex_E"]
    BY <1>6 DEF ExecuteLookup, maps, api
  <2>2. LooksUp(c) /\ \A d \in Callers \ {c} : Stays(d)
    BY <2>1 DEF LooksUp, Stays
  <2> QED
    BY <2>1, <2>2 DEF Moves, Changes
<1>7. ASSUME NEW c \in Callers, ExecuteSend(c) PROVE CallersMove
  <2>1. /\ UNCHANGED <<assignments, cur, begun, target>> /\ pc[c] = "ex_E"
        /\ pc' = [pc EXCEPT ![c] = IF Accepts(target[c])
                    THEN IF cur[c].kind = "unload" THEN "wait" ELSE "idle" ELSE Refused(c)]
    BY <1>7 DEF ExecuteSend, maps, api
  <2>2. Sends(c) /\ \A d \in Callers \ {c} : Stays(d)
    BY <2>1 DEF Sends, Stays
  <2> QED
    BY <2>1, <2>2 DEF Moves, Changes
<1>8. ASSUME NEW q \in Procs, UnregisterStep(q) PROVE CallersMove
  <2>1. /\ UNCHANGED <<cur, begun, target>>
        /\ \/ /\ pc[q] = "un_A" /\ pc' = [pc EXCEPT ![q] = "un_T"] /\ assignments' = assignments
           \/ /\ pc[q] \in {"un_T", "sh_E", "sh_T"}
              /\ \E at : (q \in Callers => at \in {"sh_E", "sh_T", "idle"}) /\ pc' = [pc EXCEPT ![q] = at]
    BY <1>8 DEF UnregisterStep, UnregisterLockA, UnregisterRemove, ShrinkLockE, ShrinkRemove, maps, api
  <2>2. ASSUME NEW p \in Plugins PROVE Changes(p)
    <3>1. CASE UnregisterRemove(q)
      <4>1. assignments' = [assignments EXCEPT ![cur[q].plugin] = None]
        BY <3>1 DEF UnregisterRemove
      <4> QED
        BY <3>1, <4>1 DEF Changes, Loses
    <3>2. CASE ~UnregisterRemove(q)
      BY <1>8, <3>2 DEF UnregisterStep, UnregisterLockA, ShrinkLockE, ShrinkRemove, maps, Changes
    <3> QED
      BY <3>1, <3>2
  <2>3. ASSUME NEW c \in Callers PROVE Moves(c)
    <3>1. CASE c # q
      BY <2>1, <3>1 DEF Moves, Stays
    <3>2. CASE c = q
      BY <2>1, <3>2 DEF Moves, RollsBack
    <3> QED
      BY <3>1, <3>2
  <2> QED
    BY <2>1, <2>2, <2>3
<1>9. ASSUME NEW i \in Idx, WorkerStep(i) PROVE CallersMove
  <2>1. UNCHANGED <<assignments, begun, target>>
    BY <1>9 DEF WorkerStep, WorkerReceive, WorkerFinish, WorkerCleanup, WorkerReceipt, WorkerDone, maps, api
  <2>2. \A c \in Callers : pc'[c] = pc[c] /\ cur'[c] = cur[c]
    BY <1>0, <1>9 DEF WorkerStep, WorkerReceive, WorkerFinish, WorkerCleanup, WorkerReceipt, WorkerDone
  <2> QED
    BY <2>1, <2>2 DEF Moves, Stays, Changes
<1>10. ASSUME TakeReceipt \/ ReceiptTimeout PROVE CallersMove
  <2>1. /\ UNCHANGED <<assignments, cur, begun, target>> /\ pc[PluginThread] = "wait"
        /\ pc' = [pc EXCEPT ![PluginThread] = "idle"]
    BY <1>10 DEF TakeReceipt, ReceiptTimeout, maps, api
  <2> QED
    BY <1>0, <2>1 DEF Moves, TakesReceipt, Stays, Changes
<1>11. CASE DropExecutor \/ UNCHANGED vars
  BY <1>11 DEF DropExecutor, maps, vars, Moves, Stays, Changes
<1> QED
  BY <1>1, <1>2, <1>3, <1>4, <1>5, <1>6, <1>7, <1>8, <1>9, <1>10, <1>11
     DEF Next, CallerStep, Stopped

\* A thread that a plugin is pinned to goes on receiving until the pool is dropped, and
\* one that never ran never will.
LEMMA ReceivingStep ==
    ASSUME PoolAssumption, IInv, JInv, [Next]_vars, NEW i \in Idx, slot[i] = "live"
    PROVE  /\ Receiving(i) /\ ~dropped => Receiving(i)'
           /\ ~Receiving(i) => ~Receiving(i)'
<1>1. Seen(i) /\ queue[i] \in Seq(Job)
  BY WorkersSee DEF IInv, TypeOK, JInv
<1>2. pc[i] # "unborn" /\ (~dropped => Clean(i))
  BY DEF JInv, ChannelInv
<1>3. ASSUME ~dropped, Receives(i) PROVE Head(queue[i]) # Shutdown
  BY <1>1, <1>2, <1>3, Channels DEF Receives, Clean
<1>4. CASE Rests(i)
  BY <1>4 DEF Rests, Receiving, Running
<1>5. CASE Sent(i) \/ Told(i)
  BY <1>5 DEF Sent, Accepts, Told, Receiving
<1>6. CASE Receives(i)
  BY <1>3, <1>6 DEF Receives, Receiving
<1>7. CASE Ends(i)
  BY <1>7 DEF Ends, Receiving
<1> QED
  BY <1>1, <1>2, <1>4, <1>5, <1>6, <1>7 DEF Seen, IsBorn

\* A settled plugin stays settled, and can only lose its thread.
LEMMA SettledStays ==
    ASSUME CallersMove, NEW p \in Plugins, Settled(p)
    PROVE  /\ Settled(p)'
           /\ assignments'[p] = assignments[p] \/ Loses(p)
<1>1. ASSUME NEW c \in Callers, pc'[c] \in Registering PROVE cur'[c].plugin # p
  BY <1>1 DEF CallersMove, Moves, Stays, Loads, Drives, Registers, LooksUp, Sends, RollsBack, TakesReceipt, Refused, Registering, Settled
<1> QED
  BY <1>1 DEF Settled, CallersMove, Changes, Gains

\* A plugin whose registration ends is settled.
LEMMA RegistrationEnds ==
    ASSUME PlaceInv, CallersMove,
           NEW c \in Callers, NEW p \in Plugins, cur[c].plugin = p,
           pc[c] \in Registering, pc'[c] = "ex_A"
    PROVE  Settled(p)'
<1>1. /\ p \in begun /\ begun \subseteq begun'
      /\ \A d \in Callers : pc[d] \in Registering /\ cur[d].plugin = p => d = c
  BY DEF PlaceInv, BegunInv, CallersMove
<1>2. ASSUME NEW d \in Callers, pc'[d] \in Registering PROVE cur'[d].plugin # p
  <2>1. Moves(d) /\ d # c
    BY <1>2 DEF CallersMove, Registering
  <2> QED
    BY <1>1, <1>2, <2>1 DEF Moves, Stays, Loads, Drives, Registers, LooksUp, Sends, RollsBack, TakesReceipt, Refused, Registering
<1> QED
  BY <1>1, <1>2 DEF Settled

\* Every step leaves callers where their kind of job may be.
LEMMA KindStep ==
    ASSUME IInv, PlaceInv, CallersMove
    PROVE  KindInv'
<1>1. ASSUME NEW c \in Callers
      PROVE  /\ pc'[c] \in Registering \cup {"un_A", "un_T"} => cur'[c].kind = "load"
             /\ pc'[c] = "wait" => c = PluginThread /\ cur'[c].kind = "unload"
             /\ pc'[c] # "idle" /\ cur'[c].kind = "unload" => c = PluginThread
  <2>1. Moves(c)
    BY DEF CallersMove
  <2>2. /\ pc[c] \in Registering \cup {"un_A", "un_T"} => cur[c].kind = "load"
        /\ pc[c] = "wait" => c = PluginThread /\ cur[c].kind = "unload"
        /\ pc[c] # "idle" /\ cur[c].kind = "unload" => c = PluginThread
    BY DEF PlaceInv, KindInv
  <2> QED
    BY <2>1, <2>2 DEF Moves, Stays, Loads, Drives, Registers, LooksUp, Sends, RollsBack, TakesReceipt, Refused, Registering
<1> QED
  BY <1>1 DEF KindInv

\* Every step leaves one registration of a plugin at most, before it has a thread.
LEMMA BegunStep ==
    ASSUME PoolAssumption, IInv, PlaceInv, CallersMove
    PROVE  BegunInv'
<1>0. BegunInv /\ begun \subseteq begun' /\ \A p \in Plugins : Changes(p)
  BY DEF PlaceInv, CallersMove
<1>1. ASSUME NEW c \in Callers, pc'[c] \in Registering
      PROVE  \/ pc[c] \in Registering /\ cur'[c] = cur[c]
             \/ Loads(c)
  <2>1. Moves(c)
    BY DEF CallersMove
  <2> QED
    BY <1>1, <2>1 DEF Moves, Stays, Drives, Registers, LooksUp, Sends, RollsBack, TakesReceipt, Refused, Registering
<1>2. ASSUME NEW c \in Callers, pc[c] \in Registering, pc'[c] \in Registering
      PROVE  /\ cur[c].plugin \in begun'
             /\ assignments'[cur[c].plugin] = None
  <2>1. cur[c].plugin \in Plugins
    BY <1>2 DEF IInv, JobsInHand, Work, Registering
  <2>2. ~Gains(cur[c].plugin)
    BY <1>0, <1>2 DEF Gains, BegunInv, Registering
  <2> QED
    BY <1>0, <1>2, <2>1, <2>2 DEF BegunInv, Changes, Loses
<1>3. ASSUME NEW c \in Callers, Loads(c)
      PROVE  /\ cur'[c].plugin \in begun' /\ assignments'[cur'[c].plugin] = None
             /\ \A d \in Callers : pc[d] \in Registering => cur[d].plugin # cur'[c].plugin
  <2>1. /\ cur'[c].plugin \in Plugins \ begun /\ cur'[c].plugin \in begun'
        /\ assignments[cur'[c].plugin] = None
    BY <1>0, <1>3 DEF Loads, BegunInv
  <2>2. \A d \in Callers : pc[d] \in Registering => cur[d].plugin # cur'[c].plugin
    BY <1>0, <2>1 DEF BegunInv
  <2>3. Changes(cur'[c].plugin) /\ ~Gains(cur'[c].plugin)
    BY <1>0, <2>1, <2>2 DEF Gains
  <2> QED
    BY <2>1, <2>2, <2>3 DEF Changes, Loses
<1>4. ASSUME NEW c \in Callers, pc'[c] \in Registering
      PROVE  /\ cur'[c].plugin \in begun' /\ assignments'[cur'[c].plugin] = None
             /\ \A d \in Callers : pc'[d] \in Registering /\ cur'[d].plugin = cur'[c].plugin => d = c
  <2>1. cur'[c].plugin \in begun' /\ assignments'[cur'[c].plugin] = None
    BY <1>1, <1>2, <1>3, <1>4
  <2>2. ASSUME NEW d \in Callers, pc'[d] \in Registering, cur'[d].plugin = cur'[c].plugin, d # c
        PROVE  FALSE
    <3>1. CASE Loads(c)
      <4>1. pc[d] \in Registering /\ cur'[d] = cur[d]
        BY <2>2, <3>1 DEF Loads, Stays
      <4> QED
        BY <1>3, <2>2, <3>1, <4>1
    <3>2. CASE Loads(d)
      <4>1. pc[c] \in Registering /\ cur'[c] = cur[c]
        BY <1>4, <2>2, <3>2 DEF Loads, Stays
      <4> QED
        BY <1>3, <2>2, <3>2, <4>1
    <3>3. CASE ~Loads(c) /\ ~Loads(d)
      BY <1>0, <1>1, <1>4, <2>2, <3>3 DEF BegunInv
    <3> QED
      BY <3>1, <3>2, <3>3
  <2> QED
    BY <2>1, <2>2
<1>5. ASSUME NEW p \in Plugins, assignments'[p] # None PROVE p \in begun'
  BY <1>0, <1>5 DEF Changes, Gains, Loses, BegunInv
<1> QED
  BY <1>4, <1>5 DEF BegunInv

\* Every step keeps what callers have read about their plugins.
LEMMA PlacedStep ==
    ASSUME PoolAssumption, IInv, JInv, PlaceInv, CallersMove, [Next]_vars
    PROVE  PlacedInv'
<1> SUFFICES ASSUME NEW c \in Callers, NEW p \in Plugins, pc'[c] # "idle", cur'[c].plugin = p
             PROVE  Placed(c, p)'
  BY DEF PlacedInv
<1>0. Moves(c)
  BY DEF CallersMove
<1>a. pc[c] # "idle" /\ cur[c].plugin = p => Placed(c, p)
  BY DEF PlaceInv, PlacedInv
<1>b. ASSUME Settled(p)
      PROVE  Settled(p)' /\ (assignments'[p] = assignments[p] \/ assignments'[p] = None)
  BY <1>b, SettledStays DEF Loses
<1>c. ASSUME NEW i \in Idx, assignments[p] = i
      PROVE  slot[i] = "live" /\ (~Receiving(i) => ~Receiving(i)')
  <2>1. slot[i] = "live"
    BY <1>c, ProcsApart DEF IInv, AssignedThreadLive, Procs
  <2> QED
    BY <2>1, ReceivingStep
<1>d. None \notin Idx
  BY DEF PoolAssumption
<1>1. CASE Loads(c) \/ Drives(c)
  BY <1>1 DEF Loads, Drives, Placed
<1>2. CASE Registers(c)
  <2>1. CASE pc'[c] = "ex_A"
    BY <1>2, <2>1, RegistrationEnds DEF Registers, Placed
  <2>2. CASE pc'[c] \in Registering
    BY <2>2 DEF Placed, Registering
  <2> QED
    BY <1>2, <2>1, <2>2 DEF Registers
<1>3. CASE Stays(c) \/ RollsBack(c)
  <2>1. /\ cur'[c] = cur[c] /\ target'[c] = target[c]
        /\ pc[c] = pc'[c] \/ (pc[c] = "un_A" /\ pc'[c] = "un_T")
             \/ pc'[c] \in {"sh_E", "sh_T"}
    BY <1>3 DEF Stays, RollsBack
  <2>2. CASE pc[c] = pc'[c] \/ (pc[c] = "un_A" /\ pc'[c] = "un_T")
    <3>1. Placed(c, p)
      BY <1>a, <2>1, <2>2
    <3>2. ASSUME pc'[c] \in {"un_A", "un_T"}, NEW i \in Idx, assignments'[p] = i PROVE ~Receiving(i)'
      <4>1. Settled(p) /\ (assignments[p] = i => ~Receiving(i))
        BY <2>2, <3>1, <3>2 DEF Placed
      <4> QED
        BY <1>b, <1>c, <1>d, <3>2, <4>1
    <3>3. pc'[c] = "ex_A" /\ cur'[c].kind = "load" => Settled(p)'
      BY <1>b, <2>1, <2>2, <3>1 DEF Placed
    <3>4. pc'[c] = "ex_E" => Settled(p)' /\ assignments'[p] \in {target'[c], None}
      BY <1>b, <2>1, <2>2, <3>1 DEF Placed
    <3>5. pc'[c] \in {"un_A", "un_T"} => Settled(p)'
      BY <1>b, <2>2, <3>1 DEF Placed
    <3> QED
      BY <3>2, <3>3, <3>4, <3>5 DEF Placed
  <2>3. CASE pc'[c] \in {"sh_E", "sh_T"}
    BY <2>3 DEF Placed
  <2> QED
    BY <2>1, <2>2, <2>3
<1>4. CASE LooksUp(c)
  <2>1. /\ pc[c] = "ex_A" /\ cur'[c] = cur[c] /\ cur[c].plugin = p
        /\ assignments' = assignments /\ target'[c] = assignments[p]
        /\ pc'[c] = IF target'[c] = None THEN Refused(c) ELSE "ex_E"
    BY <1>4 DEF LooksUp
  <2>2. Settled(p)
    <3>1. CASE cur[c].kind = "load"
      BY <1>a, <2>1, <3>1 DEF Placed
    <3>2. CASE target'[c] # None
      BY <2>1, <3>2 DEF PlaceInv, BegunInv, Settled
    <3> QED
      BY <2>1, <3>1, <3>2 DEF Refused
  <2> QED
    BY <1>b, <1>d, <2>1, <2>2 DEF Refused, Placed
<1>5. CASE Sends(c)
  <2>1. /\ pc[c] = "ex_E" /\ cur'[c] = cur[c] /\ cur[c].plugin = p
        /\ assignments' = assignments
        /\ pc'[c] \in {"wait", "un_A"} /\ (pc'[c] = "un_A" => ~Accepts(target[c]))
    BY <1>5 DEF Sends, Refused
  <2>2. Settled(p) /\ assignments[p] \in {target[c], None}
    BY <1>a, <2>1 DEF Placed
  <2>3. ASSUME pc'[c] = "un_A", NEW i \in Idx, assignments'[p] = i PROVE ~Receiving(i)'
    <3>1. assignments[p] = i /\ target[c] = i
      BY <1>d, <2>1, <2>2, <2>3
    <3> QED
      BY <1>c, <2>1, <2>3, <3>1 DEF Accepts
  <2> QED
    BY <1>b, <2>1, <2>2, <2>3 DEF Placed
<1>6. CASE TakesReceipt(c)
  BY <1>6 DEF TakesReceipt
<1> QED
  BY <1>0, <1>1, <1>2, <1>3, <1>4, <1>5, <1>6 DEF Moves

-----------------------------------------------------------------------------
\* The plugin thread waits, and has no receipt.
Waits == pc[PluginThread] = "wait" /\ receipt[PluginThread] = "none"

\* The worker i has an unload in hand and has not answered it; until it unregisters the
\* plugin the plugin's thread is i.
Owes(i) == Running(i) /\ pc[i] # "done" /\ cur[i].kind = "unload"
Where(i) == IF pc[i] \in {"work", "un_A", "un_T", "panicked"} THEN i ELSE None

\* An unload that is in a channel or in a worker's hands is the one that the plugin
\* thread waits for, with the thread that the plugin is pinned to.
UnloadInv ==
    /\ \A i \in Idx : Owes(i) =>
         Waits /\ cur[i] = cur[PluginThread] /\ assignments[cur[PluginThread].plugin] = Where(i)
    /\ \A i \in Idx : \A k \in 1 .. Len(queue[i]) : queue[i][k].kind = "unload" =>
         Waits /\ queue[i][k] = cur[PluginThread] /\ assignments[cur[PluginThread].plugin] = i

\* There is one at most.
OneUnload ==
    /\ \A i, j \in Idx : Owes(i) /\ Owes(j) => i = j
    /\ \A i, j \in Idx : \A k \in 1 .. Len(queue[j]) : Owes(i) => queue[j][k].kind # "unload"
    /\ \A i \in Idx : \A k, l \in 1 .. Len(queue[i]) :
         queue[i][k].kind = "unload" /\ queue[i][l].kind = "unload" => k = l

\* What the plugin thread may believe: before it sends an unload it knows the plugin's
\* thread, or one that never ran; afterwards the receipt says what became of the plugin.
WaitInv ==
    /\ pc[PluginThread] \notin {"idle", "wait"} => receipt[PluginThread] = "none"
    /\ \A p \in Plugins, i \in Idx :
         /\ pc[PluginThread] = "ex_E" /\ cur[PluginThread].kind = "unload"
         /\ cur[PluginThread].plugin = p /\ target[PluginThread] = i
         => assignments[p] = i \/ ~Receiving(i)
    /\ \A p \in Plugins : pc[PluginThread] = "wait" /\ cur[PluginThread].plugin = p =>
         /\ Settled(p)
         /\ receipt[PluginThread] = "ok" => assignments[p] = None
         /\ receipt[PluginThread] = "err" => \E i \in Idx : assignments[p] = i /\ Receiving(i)

RInv == PlaceInv /\ UnloadInv /\ OneUnload /\ WaitInv

\* No unload is in a channel or in a worker's hands.
NoUnload ==
    /\ \A i \in Idx : ~Owes(i)
    /\ \A i \in Idx : \A k \in 1 .. Len(queue[i]) : queue[i][k].kind # "unload"

\* A step that brings no unload, moves none and unregisters none.
Quiet ==
    /\ \A i \in Idx : Owes(i)' => Owes(i) /\ cur'[i] = cur[i] /\ Where(i)' = Where(i)
    /\ \A i \in Idx : \A k \in 1 .. Len(queue'[i]) : queue'[i][k].kind = "unload" =>
         k \in 1 .. Len(queue[i]) /\ queue'[i][k] = queue[i][k]
    /\ \A i \in Idx : pc[i] = "un_T" => pc'[i] = "un_T"

\* The plugin thread goes on as it is.
Held == /\ pc'[PluginThread] = pc[PluginThread] /\ cur'[PluginThread] = cur[PluginThread]
        /\ receipt'[PluginThread] = receipt[PluginThread]

\* Without a waiting plugin thread there is no unload.
LEMMA NobodyOwes ==
    ASSUME RInv, ~Waits
    PROVE  NoUnload
  BY DEF RInv, UnloadInv, NoUnload

\* Where no unload is left, nothing is said.
LEMMA NoneIsFine ==
    ASSUME NoUnload'
    PROVE  UnloadInv' /\ OneUnload'
  BY DEF NoUnload, UnloadInv, OneUnload

\* A plugin loses a thread that receives only through the worker of its unload.
LEMMA WhoLoses ==
    ASSUME PoolAssumption, IInv, JInv, RInv, NEW p \in Plugins, NEW i \in Idx,
           assignments[p] = i, Receiving(i), Loses(p)
    PROVE  \E q \in Idx : pc[q] = "un_T" /\ pc'[q] = "sh_E" /\ Owes(q)
<1>1. PICK q \in Procs : UnregisterRemove(q) /\ cur[q].plugin = p
  BY DEF Loses
<1>2. pc[q] = "un_T" /\ pc'[q] = "sh_E"
  BY <1>1 DEF UnregisterRemove, IInv, TypeOK
<1>3. CASE q \in Callers
  BY <1>1, <1>2, <1>3 DEF RInv, PlaceInv, PlacedInv, Placed
<1>4. CASE q \in Idx
  BY <1>2, <1>4 DEF JInv, DropInv, Owes, Running
<1> QED
  BY <1>3, <1>4 DEF Procs

\* While its unload is on the way a plugin keeps its thread, or its lack of one.
LEMMA PinHeld ==
    ASSUME PoolAssumption, IInv, JInv, RInv, CallersMove, ~NoUnload,
           \A i \in Idx : pc[i] = "un_T" => pc'[i] = "un_T"
    PROVE  assignments'[cur[PluginThread].plugin] = assignments[cur[PluginThread].plugin]
<1>1. pc[PluginThread] = "wait" /\ Waits
  BY NobodyOwes DEF Waits
<1>2. PICK p \in Plugins : p = cur[PluginThread].plugin
  BY <1>1, ProcsApart DEF IInv, JobsInHand, Work
<1>3. Settled(p)
  BY <1>1, <1>2 DEF RInv, WaitInv
<1>4. assignments'[p] = assignments[p] \/ Loses(p)
  BY <1>3, SettledStays
<1>5. ASSUME NEW i \in Idx, Owes(i)
      PROVE  assignments[p] = None \/ (assignments[p] = i /\ Receiving(i))
  BY <1>2, <1>5 DEF RInv, UnloadInv, Owes, Where, Running, Receiving
<1>6. ASSUME NEW i \in Idx, NEW k \in 1 .. Len(queue[i]), queue[i][k].kind = "unload"
      PROVE  assignments[p] = i /\ Receiving(i)
  <2>1. queue[i] # <<>>
    OBVIOUS
  <2> QED
    BY <1>2, <1>6, <2>1 DEF RInv, UnloadInv, JInv, AcceptedJobsKept
<1>7. assignments[p] = None \/ \E i \in Idx : assignments[p] = i /\ Receiving(i)
  BY <1>5, <1>6 DEF NoUnload
<1>8. ASSUME Loses(p), assignments[p] # None PROVE FALSE
  BY <1>7, <1>8, WhoLoses
<1> QED
  BY <1>2, <1>4, <1>8 DEF Loses

\* A quiet step keeps the unload that is on the way.
LEMMA QuietStep ==
    ASSUME PoolAssumption, IInv, JInv, RInv, CallersMove, Quiet, NoUnload \/ Held
    PROVE  UnloadInv' /\ OneUnload'
<1>1. CASE NoUnload
  <2>1. NoUnload'
    BY <1>1 DEF NoUnload, Quiet
  <2> QED
    BY <2>1, NoneIsFine
<1>2. CASE ~NoUnload /\ Held
  <2>1. /\ assignments'[cur[PluginThread].plugin] = assignments[cur[PluginThread].plugin]
        /\ cur'[PluginThread] = cur[PluginThread] /\ (Waits => Waits')
    BY <1>2, PinHeld DEF Quiet, Held, Waits
  <2>2. ASSUME NEW i \in Idx, Owes(i)'
        PROVE  Waits' /\ cur'[i] = cur'[PluginThread]
                 /\ assignments'[cur'[PluginThread].plugin] = Where(i)'
    <3>1. Owes(i) /\ cur'[i] = cur[i] /\ Where(i)' = Where(i)
      BY <2>2 DEF Quiet
    <3>2. Waits /\ cur[i] = cur[PluginThread] /\ assignments[cur[PluginThread].plugin] = Where(i)
      BY <3>1 DEF RInv, UnloadInv
    <3> QED
      BY <2>1, <3>1, <3>2
  <2>3. ASSUME NEW i \in Idx, NEW k \in 1 .. Len(queue'[i]), queue'[i][k].kind = "unload"
        PROVE  Waits' /\ queue'[i][k] = cur'[PluginThread]
                 /\ assignments'[cur'[PluginThread].plugin] = i
    <3>1. k \in 1 .. Len(queue[i]) /\ queue'[i][k] = queue[i][k]
      BY <2>3 DEF Quiet
    <3>2. Waits /\ queue[i][k] = cur[PluginThread] /\ assignments[cur[PluginThread].plugin] = i
      BY <2>3, <3>1 DEF RInv, UnloadInv
    <3> QED
      BY <2>1, <3>1, <3>2
  <2>4. UnloadInv'
    BY <2>2, <2>3 DEF UnloadInv
  <2>5. OneUnload'
    BY DEF RInv, OneUnload, Quiet
  <2> QED
    BY <2>4, <2>5
<1> QED
  BY <1>1, <1>2

\* A step in which a caller moves and no channel or worker does is quiet.
LEMMA CallerQuiet ==
    ASSUME PoolAssumption, IInv, NEW c \in Callers, queue' = queue,
           \E at : pc' = [pc EXCEPT ![c] = at],
           cur' = cur \/ \E x : cur' = [cur EXCEPT ![c] = x]
    PROVE  Quiet
<1>1. \A i \in Idx : pc'[i] = pc[i] /\ cur'[i] = cur[i]
  BY ProcsApart DEF IInv, TypeOK, Procs
<1> QED
  BY <1>1 DEF Quiet, Owes, Running, Where

\* A message that is no unload may be appended to any channels.
LEMMA AppendQuiet ==
    ASSUME IInv, NEW S \in SUBSET Idx, NEW m \in Job, m.kind # "unload",
           queue' = [i \in Idx |-> IF i \in S THEN Append(queue[i], m) ELSE queue[i]]
    PROVE  \A i \in Idx : \A k \in 1 .. Len(queue'[i]) : queue'[i][k].kind = "unload" =>
             k \in 1 .. Len(queue[i]) /\ queue'[i][k] = queue[i][k]
<1>1. SUFFICES ASSUME NEW i \in Idx, NEW k \in 1 .. Len(queue'[i]), queue'[i][k].kind = "unload"
               PROVE  k \in 1 .. Len(queue[i]) /\ queue'[i][k] = queue[i][k]
  OBVIOUS
<1>2. queue[i] \in Seq(Job)
  BY DEF IInv, TypeOK
<1>3. CASE i \notin S
  BY <1>1, <1>3
<1>4. CASE i \in S
  <2>1. PICK s \in Seq(Job) : s = queue[i]
    BY <1>2
  <2>2. queue'[i] = Append(s, m)
    BY <1>4, <2>1
  <2>3. /\ Len(Append(s, m)) = Len(s) + 1 /\ Append(s, m)[Len(s) + 1] = m /\ Len(s) \in Nat
        /\ \A n \in 1 .. Len(s) : Append(s, m)[n] = s[n]
    BY ONLY s \in Seq(Job), m \in Job, Channels
  <2> QED
    BY <1>1, <2>1, <2>2, <2>3
<1> QED
  BY <1>3, <1>4

\* The steps of callers other than a send: quiet, and the plugin thread is as it was unless
\* it does not wait, or takes its receipt.
LEMMA CallersQuiet ==
    ASSUME PoolAssumption, IInv, JInv, RInv, ReceiptTimeouts = FALSE, [Next]_vars,
           \/ \E c \in Callers, p \in Plugins : BeginLoad(c, p)
           \/ \E p \in Plugins : BeginEvent(p) \/ BeginUnload(p)
           \/ \E c \in Callers : \/ RegisterLockA(c) \/ RegisterLockT(c) \/ RegisterChoose(c)
                                 \/ RegisterSpawn(c) \/ ExecuteLookup(c)
           \/ TakeReceipt \/ ReceiptTimeout
    PROVE  Quiet /\ (NoUnload \/ Held)
<1> USE DEF IInv, TypeOK, Procs
<1>0. /\ PoolAssumption
      /\ \A c \in Callers, i \in Idx : c # i
      /\ PluginThread \in Callers
  BY ProcsApart
<1>a. ASSUME NEW c \in Callers, \A d \in Callers \ {c} : pc'[d] = pc[d] /\ cur'[d] = cur[d] /\ receipt'[d] = receipt[d],
             c = PluginThread => ~Waits
      PROVE  NoUnload \/ Held
  <2>1. CASE c = PluginThread
    BY <1>a, <2>1, NobodyOwes
  <2>2. CASE c # PluginThread
    BY <1>0, <1>a, <2>2 DEF Held
  <2> QED
    BY <2>1, <2>2
<1>1. ASSUME NEW c \in Callers, NEW kind, NEW p \in Plugins, NEW at, Begin(c, kind, p, at)
      PROVE  Quiet /\ (NoUnload \/ Held)
  <2>1. /\ queue' = queue /\ pc[c] = "idle" /\ pc' = [pc EXCEPT ![c] = at]
        /\ \E x : cur' = [cur EXCEPT ![c] = x]
        /\ receipt' = [receipt EXCEPT ![c] = "none"]
    BY <1>1 DEF Begin, pool
  <2>2. Quiet
    BY <2>1, CallerQuiet
  <2>3. NoUnload \/ Held
    BY <1>0, <1>a, <2>1 DEF Waits
  <2> QED
    BY <2>2, <2>3
<1>2. ASSUME NEW c \in Callers, UNCHANGED <<queue, cur, receipt>>, \E at : pc' = [pc EXCEPT ![c] = at],
             pc[c] # "wait" \/ receipt[c] # "none"
      PROVE  Quiet /\ (NoUnload \/ Held)
  <2>1. Quiet
    BY <1>2, CallerQuiet
  <2>2. NoUnload \/ Held
    BY <1>0, <1>a, <1>2 DEF Waits
  <2> QED
    BY <2>1, <2>2
<1>3. ASSUME NEW c \in Callers, NEW p \in Plugins, BeginLoad(c, p) PROVE Quiet /\ (NoUnload \/ Held)
  BY <1>1, <1>3 DEF BeginLoad
<1>4. ASSUME NEW p \in Plugins, BeginEvent(p) \/ BeginUnload(p) PROVE Quiet /\ (NoUnload \/ Held)
  BY <1>0, <1>1, <1>4 DEF BeginEvent, BeginUnload
<1>5. ASSUME NEW c \in Callers, RegisterLockA(c) \/ RegisterLockT(c) \/ ExecuteLookup(c)
      PROVE  Quiet /\ (NoUnload \/ Held)
  <2>1. UNCHANGED <<queue, cur, receipt>> /\ pc[c] # "wait" /\ \E at : pc' = [pc EXCEPT ![c] = at]
    BY <1>5 DEF RegisterLockA, RegisterLockT, ExecuteLookup, pool
  <2> QED
    BY <1>2, <2>1
<1>6. ASSUME NEW c \in Callers, RegisterChoose(c) PROVE Quiet /\ (NoUnload \/ Held)
  <2>1. UNCHANGED <<queue, cur, receipt>> /\ pc[c] # "wait" /\ \E at : pc' = [pc EXCEPT ![c] = at]
    BY <1>6 DEF RegisterChoose, Expand, Reuse, Assign
  <2> QED
    BY <1>2, <2>1
<1>7. ASSUME NEW c \in Callers, RegisterSpawn(c) PROVE Quiet /\ (NoUnload \/ Held)
  <2>1. target[c] \in Idx /\ pc[target[c]] = "unborn" /\ pc[c] = "spawn"
    BY <1>7 DEF RegisterSpawn, SpawnInv
  <2>2. PICK born \in {"recv", "failed"} : pc' = [pc EXCEPT ![c] = "ex_A", ![target[c]] = born]
    BY <1>7 DEF RegisterSpawn
  <2>3. UNCHANGED <<queue, cur, receipt>>
    BY <1>7 DEF RegisterSpawn
  <2>4. \A i \in Idx : pc'[i] = IF i = target[c] THEN born ELSE pc[i]
    BY <1>0, <2>1, <2>2
  <2>5. Quiet
    BY <2>1, <2>3, <2>4 DEF Quiet, Owes, Running, Where
  <2>6. \A d \in Callers \ {c} : pc'[d] = pc[d]
    BY <1>0, <2>1, <2>2
  <2>7. NoUnload \/ Held
    BY <1>a, <2>1, <2>3, <2>6 DEF Waits
  <2> QED
    BY <2>5, <2>7
<1>8. ASSUME TakeReceipt \/ ReceiptTimeout PROVE Quiet /\ (NoUnload \/ Held)
  <2>1. /\ UNCHANGED <<queue, cur, receipt>> /\ receipt[PluginThread] # "none"
        /\ pc' = [pc EXCEPT ![PluginThread] = "idle"]
    BY <1>8 DEF TakeReceipt, ReceiptTimeout, pool
  <2> QED
    BY <1>0, <1>2, <2>1
<1> QED
  BY <1>3, <1>4, <1>5, <1>6, <1>7, <1>8

\* A send appends an unload only where none was.
LEMMA SendStep ==
    ASSUME PoolAssumption, IInv, JInv, RInv, CallersMove, NEW c \in Callers, ExecuteSend(c)
    PROVE  UnloadInv' /\ OneUnload'
<1> USE DEF IInv, TypeOK, Procs
<1>0. /\ \A d \in Callers, i \in Idx : d # i
      /\ PluginThread \in Callers
  BY ProcsApart
<1>1. /\ pc[c] = "ex_E" /\ UNCHANGED <<cur, receipt, assignments>> /\ target[c] \in Idx
      /\ cur[c] \in Work /\ cur[c] \in Job
      /\ \E at : pc' = [pc EXCEPT ![c] = at]
  BY JobKinds DEF ExecuteSend, maps, LookupInv, JobsInHand
<1>2. \A i \in Idx : pc'[i] = pc[i] /\ cur'[i] = cur[i]
  BY <1>0, <1>1
<1>3. NoUnload \/ Held
  <2>1. CASE c = PluginThread
    BY <1>1, <2>1, NobodyOwes DEF Waits
  <2>2. CASE c # PluginThread
    BY <1>0, <1>1, <2>2 DEF Held
  <2> QED
    BY <2>1, <2>2
<1>4. CASE ~Accepts(target[c])
  <2>1. queue' = queue
    BY <1>4 DEF ExecuteSend
  <2>2. Quiet
    BY <1>2, <2>1 DEF Quiet, Owes, Running, Where
  <2> QED
    BY <1>3, <2>2, QuietStep
<1>5. CASE Accepts(target[c]) /\ cur[c].kind # "unload"
  <2>1. queue' = [i \in Idx |-> IF i \in {target[c]} THEN Append(queue[i], cur[c]) ELSE queue[i]]
    BY <1>5 DEF ExecuteSend
  <2>2. \A i \in Idx : \A k \in 1 .. Len(queue'[i]) : queue'[i][k].kind = "unload" =>
             k \in 1 .. Len(queue[i]) /\ queue'[i][k] = queue[i][k]
    BY <1>1, <1>5, <2>1, AppendQuiet
  <2>3. Quiet
    BY <1>2, <2>2 DEF Quiet, Owes, Running, Where
  <2> QED
    BY <1>3, <2>3, QuietStep
<1>6. CASE Accepts(target[c]) /\ cur[c].kind = "unload"
  <2>1. c = PluginThread
    BY <1>1, <1>6 DEF RInv, PlaceInv, KindInv
  <2>2. NoUnload
    BY <1>1, <2>1, NobodyOwes DEF Waits
  <2>3. /\ pc'[c] = "wait" /\ receipt[c] = "none"
        /\ queue' = [queue EXCEPT ![target[c]] = Append(queue[target[c]], cur[c])]
    BY <1>1, <1>6, <2>1 DEF ExecuteSend, RInv, WaitInv
  <2>4. Waits'
    BY <1>1, <2>1, <2>3 DEF Waits
  <2>5. \A i \in Idx : ~Owes(i)'
    BY <1>2, <2>2 DEF NoUnload, Owes, Running
  <2>6. assignments[cur[c].plugin] = target[c]
    BY <1>1, <1>6, <2>1 DEF RInv, WaitInv, Accepts, Work
  <2>7. ASSUME NEW i \in Idx, NEW k \in 1 .. Len(queue'[i]), queue'[i][k].kind = "unload"
        PROVE  i = target[c] /\ k = Len(queue[i]) + 1 /\ queue'[i][k] = cur[c]
    <3>1. CASE i # target[c]
      BY <2>2, <2>3, <2>7, <3>1 DEF NoUnload
    <3>2. CASE i = target[c]
      <4>1. PICK s \in Seq(Job), m \in Job : s = queue[i] /\ m = cur[c]
        BY <1>1
      <4>2. queue'[i] = Append(s, m)
        BY <2>3, <3>2, <4>1
      <4>3. /\ Len(Append(s, m)) = Len(s) + 1 /\ Append(s, m)[Len(s) + 1] = m /\ Len(s) \in Nat
            /\ \A n \in 1 .. Len(s) : Append(s, m)[n] = s[n]
        BY ONLY s \in Seq(Job), m \in Job, Channels
      <4>4. \A n \in 1 .. Len(s) : s[n].kind # "unload"
        BY <2>2, <4>1 DEF NoUnload
      <4>5. k \notin 1 .. Len(s)
        BY <2>7, <3>2, <4>2, <4>3, <4>4
      <4>6. k = Len(s) + 1
        BY <3>2, <4>2, <4>3, <4>5
      <4> QED
        BY <3>2, <4>1, <4>2, <4>3, <4>6
    <3> QED
      BY <3>1, <3>2
  <2>8. UnloadInv'
    BY <1>1, <2>1, <2>4, <2>5, <2>6, <2>7 DEF UnloadInv
  <2>9. \A i \in Idx : \A k, l \in 1 .. Len(queue'[i]) :
           queue'[i][k].kind = "unload" /\ queue'[i][l].kind = "unload" => k = l
    BY <2>7
  <2>10. OneUnload'
    BY <2>5, <2>9 DEF OneUnload
  <2> QED
    BY <2>8, <2>10
<1> QED
  BY <1>4, <1>5, <1>6

\* Unregistering: a caller's takes no thread from a plugin that is being unloaded, the
\* worker's takes that of its unload.
LEMMA UnregisterKeeps ==
    ASSUME PoolAssumption, IInv, JInv, RInv, CallersMove, NEW q \in Procs, UnregisterStep(q)
    PROVE  UnloadInv' /\ OneUnload'
<1> USE DEF IInv, TypeOK, Procs
<1>0. /\ \A d \in Callers, i \in Idx : d # i
      /\ PluginThread \in Callers
  BY ProcsApart
<1>1. UNCHANGED <<cur, receipt>>
  BY DEF UnregisterStep, UnregisterLockA, UnregisterRemove, ShrinkLockE, ShrinkRemove, api
<1>2. \A i \in Idx : \A k \in 1 .. Len(queue'[i]) : queue'[i][k].kind = "unload" =>
         k \in 1 .. Len(queue[i]) /\ queue'[i][k] = queue[i][k]
  <2>1. CASE ShrinkRemove(q)
    <3>1. queue' = [i \in Idx |-> IF i \in ShutDown(Removable) THEN Append(queue[i], Shutdown) ELSE queue[i]]
      BY <2>1 DEF ShrinkRemove
    <3>2. ShutDown(Removable) \in SUBSET Idx
      BY DEF ShutDown, Removable, Live
    <3>3. Shutdown \in Job /\ Shutdown.kind # "unload"
      BY JobKinds
    <3> QED
      BY <3>1, <3>2, <3>3, AppendQuiet
  <2>2. CASE ~ShrinkRemove(q)
    BY <2>2 DEF UnregisterStep, UnregisterLockA, UnregisterRemove, ShrinkLockE, pool
  <2> QED
    BY <2>1, <2>2
<1>3. \E at : /\ pc' = [pc EXCEPT ![q] = at]
              /\ \/ pc[q] = "un_A" /\ at = "un_T"
                 \/ pc[q] = "un_T" /\ at = "sh_E" /\ UnregisterRemove(q)
                 \/ pc[q] = "sh_E" /\ at = "sh_T"
                 \/ pc[q] = "sh_T" /\ at = IF q \in Callers THEN "idle" ELSE "receipt"
  BY DEF UnregisterStep, UnregisterLockA, UnregisterRemove, ShrinkLockE, ShrinkRemove
<1>4. CASE q \in Callers
  <2>1. \A i \in Idx : pc'[i] = pc[i]
    BY <1>0, <1>3, <1>4
  <2>2. Quiet
    BY <1>1, <1>2, <2>1 DEF Quiet, Owes, Running, Where
  <2>3. NoUnload \/ Held
    <3>1. CASE q = PluginThread
      BY <1>3, <3>1, NobodyOwes DEF Waits
    <3>2. CASE q # PluginThread
      BY <1>0, <1>1, <1>3, <1>4, <3>2 DEF Held
    <3> QED
      BY <3>1, <3>2
  <2> QED
    BY <2>2, <2>3, QuietStep
<1>5. CASE q \in Idx
  <2>1. Held
    BY <1>0, <1>1, <1>3, <1>5 DEF Held
  <2>2. CASE pc[q] # "un_T"
    <3>1. ASSUME NEW i \in Idx
          PROVE  /\ Owes(i)' => Owes(i) /\ cur'[i] = cur[i] /\ Where(i)' = Where(i)
                 /\ pc[i] = "un_T" => pc'[i] = "un_T"
      BY <1>0, <1>1, <1>3, <1>5, <2>2 DEF Owes, Running, Where
    <3>2. Quiet
      BY <1>2, <3>1 DEF Quiet
    <3> QED
      BY <2>1, <3>2, QuietStep
  <2>3. CASE pc[q] = "un_T"
    <3>1. UnregisterRemove(q) /\ queue' = queue
      BY <1>3, <2>3 DEF UnregisterRemove, pool
    <3>2. Owes(q) /\ Where(q) = q
      BY <1>5, <2>3 DEF JInv, DropInv, Owes, Running, Where
    <3>3. /\ Waits /\ cur[q] = cur[PluginThread]
          /\ \A i \in Idx : Owes(i) => i = q
          /\ \A j \in Idx : \A k \in 1 .. Len(queue[j]) : queue[j][k].kind # "unload"
      BY <1>5, <3>2 DEF RInv, UnloadInv, OneUnload
    <3>4. cur[q].plugin \in Plugins
      BY <1>5, <3>2 DEF JobsInHand, Owes, Work
    <3>5. assignments'[cur'[PluginThread].plugin] = None
      BY <1>1, <3>1, <3>3, <3>4 DEF UnregisterRemove
    <3>6. Waits'
      BY <2>1, <3>3 DEF Waits, Held
    <3>7. ASSUME NEW i \in Idx, Owes(i)' PROVE i = q /\ cur'[i] = cur'[PluginThread] /\ Where(i)' = None
      <4>1. i = q
        <5>1. CASE i # q
          BY <1>1, <1>3, <3>3, <3>7, <5>1 DEF Owes, Running
        <5> QED
          BY <5>1
      <4>2. pc'[i] = "sh_E"
        BY <1>3, <1>5, <2>3, <4>1
      <4> QED
        BY <1>1, <3>3, <4>1, <4>2 DEF Where
    <3>8. UnloadInv'
      BY <3>1, <3>3, <3>5, <3>6, <3>7 DEF UnloadInv
    <3>9. OneUnload'
      BY <3>1, <3>3, <3>7 DEF OneUnload
    <3> QED
      BY <3>8, <3>9
  <2> QED
    BY <2>2, <2>3
<1> QED
  BY <1>4, <1>5

\* A worker that takes an unload from its channel has it in hand instead.
LEMMA ReceiveStep ==
    ASSUME PoolAssumption, IInv, JInv, RInv, CallersMove, NEW i \in Idx, WorkerReceive(i)
    PROVE  UnloadInv' /\ OneUnload'
<1> USE DEF IInv, TypeOK, Procs
<1>0. /\ \A c \in Callers, j \in Idx : c # j
      /\ PluginThread \in Callers
  BY ProcsApart
<1>1. PICK s \in Seq(Job) : s = queue[i]
  OBVIOUS
<1>2. /\ pc[i] = "recv" /\ s # <<>> /\ queue' = [queue EXCEPT ![i] = Tail(s)]
      /\ UNCHANGED <<receipt, assignments>>
      /\ \/ Head(s) = Shutdown /\ pc' = [pc EXCEPT ![i] = "exited"] /\ cur' = cur
         \/ Head(s) # Shutdown /\ pc' = [pc EXCEPT ![i] = "work"] /\ cur' = [cur EXCEPT ![i] = Head(s)]
  BY <1>1 DEF WorkerReceive, maps
<1>a. s # <<>>
  BY <1>2
<1>3. /\ Head(s) = s[1] /\ Len(s) \in Nat \ {0} /\ Len(Tail(s)) = Len(s) - 1
      /\ \A k \in 1 .. Len(s) - 1 : Tail(s)[k] = s[k + 1]
  BY ONLY s \in Seq(Job), <1>a, Channels
<1>4. Held
  BY <1>0, <1>2 DEF Held
<1>5. \A j \in Idx : j # i => queue'[j] = queue[j] /\ pc'[j] = pc[j] /\ cur'[j] = cur[j]
  BY <1>2
<1>6. ASSUME NEW k \in 1 .. Len(queue'[i])
      PROVE  k + 1 \in 1 .. Len(queue[i]) /\ k + 1 # 1 /\ queue'[i][k] = queue[i][k + 1]
  BY <1>1, <1>2, <1>3
<1>b. \A j \in Idx : j # i => (Owes(j)' <=> Owes(j)) /\ Where(j)' = Where(j)
  BY <1>5 DEF Owes, Running, Where
<1>7. 1 \in 1 .. Len(queue[i]) /\ Head(s) = queue[i][1]
  BY <1>1, <1>3
<1>8. CASE NoUnload
  <2>1. Head(s).kind # "unload"
    BY <1>7, <1>8 DEF NoUnload
  <2>2. ~Owes(i)'
    BY <1>2, <2>1 DEF Owes, Running
  <2>3. \A j \in Idx : ~Owes(j)'
    BY <1>b, <1>8, <2>2 DEF NoUnload
  <2>4. \A k \in 1 .. Len(queue'[i]) : queue'[i][k].kind # "unload"
    BY <1>6, <1>8 DEF NoUnload
  <2>5. \A j \in Idx : \A k \in 1 .. Len(queue'[j]) : queue'[j][k].kind # "unload"
    <3>1. SUFFICES ASSUME NEW j \in Idx
                   PROVE  \A k \in 1 .. Len(queue'[j]) : queue'[j][k].kind # "unload"
      OBVIOUS
    <3>2. CASE j = i
      BY <2>4, <3>2
    <3>3. CASE j # i
      BY <1>5, <1>8, <3>3 DEF NoUnload
    <3> QED
      BY <3>2, <3>3
  <2>6. NoUnload'
    BY <2>3, <2>5 DEF NoUnload
  <2> QED
    BY <2>6, NoneIsFine
<1>9. CASE ~NoUnload
  <2>1. /\ Waits' /\ cur'[PluginThread] = cur[PluginThread]
        /\ assignments'[cur[PluginThread].plugin] = assignments[cur[PluginThread].plugin]
    BY <1>2, <1>4, <1>9, NobodyOwes DEF Waits, Held
  <2>2. Owes(i)' => /\ cur'[i] = queue[i][1] /\ queue[i][1].kind = "unload" /\ Where(i)' = i
    BY <1>2, <1>7 DEF Owes, Running, Where
  <2>3. \A j \in Idx : j # i => (Owes(j)' <=> Owes(j)) /\ Where(j)' = Where(j)
    BY <1>b
  <2>4. ASSUME NEW j \in Idx, Owes(j)'
        PROVE  Waits' /\ cur'[j] = cur'[PluginThread]
                 /\ assignments'[cur'[PluginThread].plugin] = Where(j)'
    <3>1. CASE j = i
      BY <1>7, <2>1, <2>2, <2>4, <3>1 DEF RInv, UnloadInv
    <3>2. CASE j # i
      BY <1>5, <2>1, <2>3, <2>4, <3>2 DEF RInv, UnloadInv
    <3> QED
      BY <3>1, <3>2
  <2>5. ASSUME NEW j \in Idx, NEW k \in 1 .. Len(queue'[j]), queue'[j][k].kind = "unload"
        PROVE  Waits' /\ queue'[j][k] = cur'[PluginThread]
                 /\ assignments'[cur'[PluginThread].plugin] = j
    <3>1. CASE j = i
      <4>1. k + 1 \in 1 .. Len(queue[i]) /\ queue'[i][k] = queue[i][k + 1]
        BY <1>3, <1>6, <2>5, <3>1
      <4> QED
        BY <2>1, <2>5, <3>1, <4>1 DEF RInv, UnloadInv
    <3>2. CASE j # i
      BY <1>5, <2>1, <2>5, <3>2 DEF RInv, UnloadInv
    <3> QED
      BY <3>1, <3>2
  <2>6. UnloadInv'
    BY <2>4, <2>5 DEF UnloadInv
  \* two jobs in the hands of workers, or in hand and in a channel, or in one channel
  <2>7. ASSUME NEW j \in Idx, NEW l \in Idx, Owes(j)', Owes(l)' PROVE j = l
    <3>1. CASE j # i /\ l # i
      BY <2>3, <2>7, <3>1 DEF RInv, OneUnload
    <3>2. CASE (j = i /\ l # i) \/ (l = i /\ j # i)
      BY <1>7, <2>2, <2>3, <2>7, <3>2 DEF RInv, OneUnload
    <3> QED
      BY <3>1, <3>2
  <2>8. ASSUME NEW j \in Idx, NEW l \in Idx, NEW k \in 1 .. Len(queue'[l]), Owes(j)', queue'[l][k].kind = "unload"
        PROVE  FALSE
    <3>1. assignments'[cur'[PluginThread].plugin] = l
      BY <2>5, <2>8
    <3>2. PICK m \in 1 .. Len(queue[l]) : queue[l][m].kind = "unload" /\ (l = i => m # 1)
      <4>1. CASE l = i
        BY <1>6, <2>8, <4>1
      <4>2. CASE l # i
        BY <1>5, <2>8, <4>2
      <4> QED
        BY <4>1, <4>2
    <3>3. CASE j # i
      BY <2>3, <2>8, <3>2, <3>3 DEF RInv, OneUnload
    <3>4. CASE j = i
      <4>1. l = i
        BY <2>2, <2>4, <2>8, <3>1, <3>4
      <4> QED
        BY <1>7, <2>2, <2>8, <3>2, <3>4, <4>1 DEF RInv, OneUnload
    <3> QED
      BY <3>3, <3>4
  <2>9. ASSUME NEW j \in Idx, NEW k \in 1 .. Len(queue'[j]), NEW l \in 1 .. Len(queue'[j]),
               queue'[j][k].kind = "unload", queue'[j][l].kind = "unload"
        PROVE  k = l
    <3>1. CASE j = i
      <4>1. /\ k + 1 \in 1 .. Len(queue[i]) /\ queue'[i][k] = queue[i][k + 1]
            /\ l + 1 \in 1 .. Len(queue[i]) /\ queue'[i][l] = queue[i][l + 1]
        BY <1>3, <1>6, <2>9, <3>1
      <4>2. k + 1 = l + 1
        BY <2>9, <3>1, <4>1 DEF RInv, OneUnload
      <4>3. k \in Int /\ l \in Int
        BY <2>9
      <4> QED
        BY <4>2, <4>3
    <3>2. CASE j # i
      BY <1>5, <2>9, <3>2 DEF RInv, OneUnload
    <3> QED
      BY <3>1, <3>2
  <2>10. OneUnload'
    BY <2>7, <2>8, <2>9 DEF OneUnload
  <2> QED
    BY <2>6, <2>10
<1> QED
  BY <1>8, <1>9

\* The steps of a worker with a job in hand: with its answer the unload is over.
LEMMA WorkersKeep ==
    ASSUME PoolAssumption, IInv, JInv, RInv, CallersMove, NEW i \in Idx,
           WorkerFinish(i) \/ WorkerCleanup(i) \/ WorkerReceipt(i) \/ WorkerDone(i)
    PROVE  UnloadInv' /\ OneUnload'
<1> USE DEF IInv, TypeOK, Procs
<1>0. /\ \A c \in Callers, j \in Idx : c # j
      /\ PluginThread \in Callers
  BY ProcsApart
<1>1. queue' = queue /\ \A j \in Idx : j # i => pc'[j] = pc[j] /\ cur'[j] = cur[j]
  BY DEF WorkerFinish, WorkerCleanup, WorkerReceipt, WorkerDone, pool
<1>2. CASE WorkerReceipt(i)
  <2>1. pc'[i] = "done" /\ Owes(i)
    BY <1>2 DEF WorkerReceipt, JInv, DropInv, Owes, Running
  <2>2. \A j \in Idx : Owes(j) => j = i
    BY <2>1 DEF RInv, OneUnload
  <2>3. \A j \in Idx : ~Owes(j)'
    BY <1>1, <2>1, <2>2 DEF Owes, Running
  <2>4. \A j \in Idx : \A k \in 1 .. Len(queue[j]) : queue[j][k].kind # "unload"
    BY <2>1 DEF RInv, OneUnload
  <2>5. NoUnload'
    BY <1>1, <2>3, <2>4 DEF NoUnload
  <2> QED
    BY <2>5, NoneIsFine
<1>3. CASE WorkerFinish(i) \/ WorkerCleanup(i) \/ WorkerDone(i)
  <2>1. Held
    BY <1>0, <1>3 DEF WorkerFinish, WorkerCleanup, WorkerDone, Held
  <2>2. ASSUME NEW j \in Idx
        PROVE  /\ Owes(j)' => Owes(j) /\ cur'[j] = cur[j] /\ Where(j)' = Where(j)
               /\ pc[j] = "un_T" => pc'[j] = "un_T"
    <3>1. CASE j # i
      BY <1>1, <3>1 DEF Owes, Running, Where
    <3>2. CASE j = i
      BY <1>3, <3>2 DEF WorkerFinish, WorkerCleanup, WorkerDone, Owes, Running, Where
    <3> QED
      BY <3>1, <3>2
  <2>3. Quiet
    BY <1>1, <2>2 DEF Quiet
  <2> QED
    BY <2>1, <2>3, QuietStep
<1> QED
  BY <1>2, <1>3

\* Every step keeps the unload on its way, and leaves one at most.
LEMMA UnloadStep ==
    ASSUME PoolAssumption, ReceiptTimeouts = FALSE, IInv, JInv, RInv, CallersMove, [Next]_vars
    PROVE  UnloadInv' /\ OneUnload'
<1>1. CASE \/ \E c \in Callers, p \in Plugins : BeginLoad(c, p)
           \/ \E p \in Plugins : BeginEvent(p) \/ BeginUnload(p)
           \/ \E c \in Callers : \/ RegisterLockA(c) \/ RegisterLockT(c) \/ RegisterChoose(c)
                                 \/ RegisterSpawn(c) \/ ExecuteLookup(c)
           \/ TakeReceipt \/ ReceiptTimeout
  BY <1>1, CallersQuiet, QuietStep
<1>2. CASE DropExecutor
  <2>1. /\ UNCHANGED <<pc, cur, receipt>>
        /\ queue' = [i \in Idx |-> IF i \in ShutDown(Live) THEN Append(queue[i], Shutdown) ELSE queue[i]]
    BY <1>2 DEF DropExecutor
  <2>2. ShutDown(Live) \in SUBSET Idx /\ Shutdown \in Job /\ Shutdown.kind # "unload"
    BY JobKinds DEF ShutDown, Live
  <2>3. \A i \in Idx : \A k \in 1 .. Len(queue'[i]) : queue'[i][k].kind = "unload" =>
             k \in 1 .. Len(queue[i]) /\ queue'[i][k] = queue[i][k]
    BY <2>1, <2>2, AppendQuiet
  <2>4. Quiet /\ Held
    BY <2>1, <2>3 DEF Quiet, Held, Owes, Running, Where
  <2> QED
    BY <2>4, QuietStep
<1>3. CASE UNCHANGED vars
  <2>1. Quiet /\ Held
    BY <1>3 DEF vars, Quiet, Held, Owes, Running, Where
  <2> QED
    BY <2>1, QuietStep
<1> QED
  BY <1>1, <1>2, <1>3, SendStep, UnregisterKeeps, ReceiveStep, WorkersKeep
     DEF Next, CallerStep, WorkerStep, Stopped

\* What a step can do to the receipt of the plugin thread: nothing, a new call empties it,
\* or the worker of the awaited unload fills it.
ReceiptMoves ==
    \/ receipt'[PluginThread] = receipt[PluginThread] /\ (pc[PluginThread] = "idle" => pc'[PluginThread] = "idle")
    \/ pc[PluginThread] = "idle" /\ receipt'[PluginThread] = "none"
    \/ /\ Stays(PluginThread) /\ pc[PluginThread] = "wait"
       /\ assignments' = assignments /\ UNCHANGED begun
       /\ \E i \in Idx : /\ Owes(i) /\ pc[i] \in {"receipt", "panicked"}
                         /\ receipt'[PluginThread] = Outcome(pc[i])

\* Every step is one of these for the receipt.
LEMMA ReceiptsMove ==
    ASSUME PoolAssumption, IInv, JInv, RInv, [Next]_vars
    PROVE  ReceiptMoves
<1> USE DEF IInv, TypeOK, Procs
<1>0. /\ \A c \in Callers, i \in Idx : c # i
      /\ PluginThread \in Callers
  BY ProcsApart
<1>a. ASSUME receipt' = receipt, pc[PluginThread] = "idle" => pc'[PluginThread] = "idle"
      PROVE  ReceiptMoves
  BY <1>a DEF ReceiptMoves
<1>1. ASSUME NEW c \in Callers, NEW p \in Plugins, BeginLoad(c, p) PROVE ReceiptMoves
  BY <1>0, <1>1 DEF BeginLoad, Begin, ReceiptMoves
<1>2. ASSUME NEW p \in Plugins, BeginEvent(p) \/ BeginUnload(p) PROVE ReceiptMoves
  BY <1>0, <1>2 DEF BeginEvent, BeginUnload, Begin, ReceiptMoves
<1>3. ASSUME NEW c \in Callers, CallerStep(c) PROVE ReceiptMoves
  <2>1. receipt' = receipt /\ pc[c] # "idle"
    BY <1>3 DEF CallerStep, RegisterLockA, RegisterLockT, RegisterChoose, RegisterSpawn,
         ExecuteLookup, ExecuteSend
  <2>2. CASE RegisterSpawn(c)
    <3>1. target[c] \in Idx
      BY <2>2 DEF RegisterSpawn, SpawnInv
    <3>2. \A d \in Callers \ {c} : pc'[d] = pc[d]
      BY <1>0, <2>2, <3>1 DEF RegisterSpawn
    <3> QED
      BY <1>0, <1>a, <2>1, <3>2
  <2>3. CASE ~RegisterSpawn(c)
    <3>1. \E at : pc' = [pc EXCEPT ![c] = at]
      BY <1>3, <2>3 DEF CallerStep, RegisterLockA, RegisterLockT, RegisterChoose, Expand, Reuse, Assign,
           ExecuteLookup, ExecuteSend
    <3> QED
      BY <1>0, <1>a, <2>1, <3>1
  <2> QED
    BY <2>2, <2>3
<1>4. ASSUME NEW q \in Procs, UnregisterStep(q) PROVE ReceiptMoves
  <2>1. receipt' = receipt /\ pc[q] # "idle" /\ \E at : pc' = [pc EXCEPT ![q] = at]
    BY <1>4 DEF UnregisterStep, UnregisterLockA, UnregisterRemove, ShrinkLockE, ShrinkRemove
  <2> QED
    BY <1>0, <1>a, <2>1
<1>5. ASSUME NEW i \in Idx, WorkerReceipt(i) PROVE ReceiptMoves
  <2>1. Owes(i) /\ pc[i] \in {"receipt", "panicked"}
    BY <1>5 DEF WorkerReceipt, JInv, DropInv, Owes, Running
  <2>2. Stays(PluginThread) /\ assignments' = assignments /\ UNCHANGED begun
    BY <1>0, <1>5 DEF WorkerReceipt, maps, api, Stays
  <2>3. pc[PluginThread] = "wait"
    BY <2>1 DEF RInv, UnloadInv, Waits
  <2>4. receipt'[PluginThread] \in {receipt[PluginThread], Outcome(pc[i])}
    BY <1>0, <1>5 DEF WorkerReceipt
  <2> QED
    BY <2>1, <2>2, <2>3, <2>4 DEF ReceiptMoves, Stays
<1>6. ASSUME NEW i \in Idx, WorkerReceive(i) \/ WorkerFinish(i) \/ WorkerCleanup(i) \/ WorkerDone(i) PROVE ReceiptMoves
  <2>1. receipt' = receipt /\ pc'[PluginThread] = pc[PluginThread]
    BY <1>0, <1>6 DEF WorkerReceive, WorkerFinish, WorkerCleanup, WorkerDone
  <2> QED
    BY <1>a, <2>1
<1>7. ASSUME TakeReceipt \/ ReceiptTimeout PROVE ReceiptMoves
  BY <1>a, <1>7 DEF TakeReceipt, ReceiptTimeout
<1>8. CASE DropExecutor \/ UNCHANGED vars
  BY <1>a, <1>8 DEF DropExecutor, vars
<1> QED
  BY <1>1, <1>2, <1>3, <1>4, <1>5, <1>6, <1>7, <1>8 DEF Next, WorkerStep, Stopped

\* Every step keeps what the plugin thread may believe.
LEMMA WaitStep ==
    ASSUME PoolAssumption, IInv, JInv, RInv, CallersMove, [Next]_vars
    PROVE  WaitInv'
<1>0. PluginThread \in Callers
  BY ProcsApart
<1>1. ReceiptMoves /\ Moves(PluginThread)
  BY <1>0, ReceiptsMove DEF CallersMove
<1>2. ASSUME pc'[PluginThread] \notin {"idle", "wait"} PROVE receipt'[PluginThread] = "none"
  <2>1. pc[PluginThread] # "wait"
    BY <1>1, <1>2 DEF Moves, Stays, Loads, Drives, Registers, LooksUp, Sends, RollsBack, TakesReceipt, Registering
  <2> QED
    BY <1>1, <1>2, <2>1 DEF ReceiptMoves, RInv, WaitInv
<1>a. ASSUME NEW p \in Plugins, NEW i \in Idx, assignments[p] = i, Receiving(i), Settled(p),
             pc[PluginThread] # "idle", ~Waits
      PROVE  assignments'[p] = i /\ Receiving(i)'
  <2>1. assignments'[p] = i
    <3>1. ASSUME Loses(p) PROVE FALSE
      <4>1. PICK q \in Idx : Owes(q)
        BY <1>a, <3>1, WhoLoses
      <4> QED
        BY <1>a, <4>1, NobodyOwes DEF NoUnload
    <3> QED
      BY <1>a, <3>1, SettledStays
  <2>2. slot[i] = "live" /\ ~dropped
    BY <1>0, <1>a DEF IInv, AssignedThreadLive, JInv, DropInv, PoolAssumption
  <2> QED
    BY <1>a, <2>1, <2>2, ReceivingStep
<1>3. ASSUME NEW p \in Plugins, NEW i \in Idx,
             pc'[PluginThread] = "ex_E", cur'[PluginThread].kind = "unload",
             cur'[PluginThread].plugin = p, target'[PluginThread] = i
      PROVE  assignments'[p] = i \/ ~Receiving(i)'
  <2>1. CASE Stays(PluginThread)
    <3>1. /\ pc[PluginThread] = "ex_E" /\ cur[PluginThread].kind = "unload"
          /\ cur[PluginThread].plugin = p /\ target[PluginThread] = i
      BY <1>3, <2>1 DEF Stays
    <3>2. assignments[p] = i \/ ~Receiving(i)
      BY <3>1 DEF RInv, WaitInv
    <3>3. Settled(p) /\ ~Waits
      BY <1>0, <3>1 DEF RInv, PlaceInv, PlacedInv, Placed, Waits
    <3>4. CASE Receiving(i)
      BY <1>a, <3>1, <3>2, <3>3, <3>4
    <3>5. CASE ~Receiving(i)
      BY <3>5, WorkersSee DEF JInv, Seen, Rests, Sent, Told, Receives, Ends, IsBorn, Receiving, Running, Accepts
    <3> QED
      BY <3>4, <3>5
  <2>2. CASE LooksUp(PluginThread)
    BY <1>3, <2>2 DEF LooksUp
  <2> QED
    BY <1>1, <1>3, <2>1, <2>2 DEF Moves, Loads, Drives, Registers, Sends, RollsBack, TakesReceipt, Refused, Registering
<1>4. ASSUME NEW p \in Plugins, pc'[PluginThread] = "wait", cur'[PluginThread].plugin = p
      PROVE  /\ Settled(p)'
             /\ receipt'[PluginThread] = "ok" => assignments'[p] = None
             /\ receipt'[PluginThread] = "err" => \E i \in Idx : assignments'[p] = i /\ Receiving(i)'
  <2>1. CASE Sends(PluginThread)
    <3>1. pc[PluginThread] = "ex_E" /\ cur[PluginThread].plugin = p /\ receipt[PluginThread] = "none"
      BY <1>4, <2>1 DEF Sends, RInv, WaitInv
    <3>2. Settled(p)
      BY <1>0, <3>1 DEF RInv, PlaceInv, PlacedInv, Placed
    <3>3. receipt'[PluginThread] = "none"
      BY <1>1, <3>1 DEF ReceiptMoves
    <3> QED
      BY <3>2, <3>3, SettledStays
  <2>2. CASE Stays(PluginThread)
    <3>1. pc[PluginThread] = "wait" /\ cur[PluginThread].plugin = p
      BY <1>4, <2>2 DEF Stays
    <3>2. Settled(p) /\ Settled(p)'
      BY <3>1, SettledStays DEF RInv, WaitInv
    <3>3. CASE receipt'[PluginThread] = receipt[PluginThread]
      <4>1. ASSUME receipt[PluginThread] = "ok" PROVE assignments'[p] = None
        BY <3>1, <3>2, <4>1, SettledStays DEF RInv, WaitInv, Loses
      <4>2. ASSUME receipt[PluginThread] = "err" PROVE \E i \in Idx : assignments'[p] = i /\ Receiving(i)'
        <5>1. PICK i \in Idx : assignments[p] = i /\ Receiving(i)
          BY <3>1, <4>2 DEF RInv, WaitInv
        <5>2. ~Waits
          BY <4>2 DEF Waits
        <5> QED
          BY <1>a, <3>1, <3>2, <5>1, <5>2
      <4> QED
        BY <3>2, <3>3, <4>1, <4>2
    <3>4. ASSUME NEW i \in Idx, Owes(i), pc[i] \in {"receipt", "panicked"}, assignments' = assignments,
                 receipt'[PluginThread] = Outcome(pc[i])
          PROVE  /\ receipt'[PluginThread] = "ok" => assignments'[p] = None
                 /\ receipt'[PluginThread] = "err" => \E j \in Idx : assignments'[p] = j /\ Receiving(j)'
      <4>1. assignments[p] = Where(i)
        BY <3>1, <3>4 DEF RInv, UnloadInv
      <4>2. CASE pc[i] = "receipt"
        BY <3>4, <4>1, <4>2 DEF Outcome, Where
      <4>3. CASE pc[i] = "panicked"
        <5>1. assignments[p] = i /\ Receiving(i)
          BY <4>1, <4>3 DEF Where, Receiving
        <5>2. slot[i] = "live" /\ ~dropped
          BY <1>0, <3>1, <5>1 DEF IInv, AssignedThreadLive, JInv, DropInv, PoolAssumption
        <5>3. Receiving(i)'
          BY <5>1, <5>2, ReceivingStep
        <5>4. receipt'[PluginThread] = "err"
          BY <3>4, <4>3 DEF Outcome
        <5> QED
          BY <3>4, <5>1, <5>3, <5>4
      <4> QED
        BY <3>4, <4>2, <4>3
    <3> QED
      BY <1>1, <3>1, <3>2, <3>3, <3>4 DEF ReceiptMoves
  <2> QED
    BY <1>1, <1>4, <2>1, <2>2 DEF Moves, Loads, Drives, Registers, LooksUp, RollsBack, TakesReceipt, Refused, Registering
<1> QED
  BY <1>2, <1>3, <1>4 DEF WaitInv

\* Before any call there is nothing to wait for.
LEMMA InitReceipts == ASSUME PoolAssumption, Init PROVE RInv
<1>1. PICK first \in {"recv", "failed"} :
        pc = [q \in Procs |-> CASE q \in Callers -> "idle"
                                 [] q = 0 -> first
                                 [] OTHER -> "unborn"]
  BY DEF Init
<1>2. /\ \A c \in Callers : pc[c] = "idle"
      /\ \A i \in Idx : pc[i] \in {"recv", "failed", "unborn"}
      /\ PluginThread \in Callers
  <2>1. PluginThread \in Callers /\ 0 \in Idx /\ \A c \in Callers, i \in Idx : c # i
    BY ProcsApart DEF PoolAssumption, Idx
  <2>2. /\ \A c \in Callers : pc[c] = "idle"
        /\ \A i \in Idx : pc[i] = IF i = 0 THEN first ELSE "unborn"
    BY <1>1, <2>1 DEF Procs
  <2> QED
    BY <2>1, <2>2
<1>3. /\ \A i \in Idx : ~Owes(i) /\ queue[i] = <<>>
      /\ \A p \in Plugins : assignments[p] = None
  BY <1>2 DEF Init, Owes, Running
<1>4. PlaceInv
  BY <1>2, <1>3 DEF PlaceInv, KindInv, BegunInv, PlacedInv, Registering
<1>5. UnloadInv /\ OneUnload
  BY <1>3 DEF UnloadInv, OneUnload
<1>6. WaitInv
  BY <1>2 DEF WaitInv
<1> QED
  BY <1>4, <1>5, <1>6 DEF RInv

\* The receipts of unloads are true, for any number of plugins, threads and download tasks,
\* as long as the plugin thread waits for each: Ok says that the plugin has no thread any
\* more, Err that it is still pinned to one in the pool, where the cleanup can be retried.
THEOREM ReceiptsTold ==
    ASSUME ReceiptTimeouts = FALSE
    PROVE  Spec => []ReceiptsTrue
<1>1. PoolAssumption
  BY PoolAssumption
<1>2. Init => IInv /\ JInv /\ RInv
  BY <1>1, InitInv, InitJobs, InitReceipts
<1>3. ASSUME IInv, JInv, RInv, [Next]_vars PROVE (IInv /\ JInv /\ RInv)'
  <2>1. IInv'
    BY <1>1, <1>3, TypeStep, JobsStep, LockStep, SpawnStep, RegisterStep, LookupStep, MapsStep,
       LiveStep DEF IInv
  <2>2. JInv'
    BY <1>1, <1>3, JobStep
  <2>3. CallersMove /\ PlaceInv
    BY <1>1, <1>3, CallersAct DEF RInv
  <2>4. PlaceInv'
    BY <1>1, <1>3, <2>3, KindStep, BegunStep, PlacedStep DEF PlaceInv
  <2>5. UnloadInv' /\ OneUnload'
    BY <1>1, <1>3, <2>3, UnloadStep
  <2>6. WaitInv'
    BY <1>1, <1>3, <2>3, WaitStep
  <2> QED
    BY <2>1, <2>2, <2>4, <2>5, <2>6 DEF RInv
<1>4. IInv /\ RInv => ReceiptsTrue
  <2>1. SUFFICES ASSUME IInv, RInv, NEW c \in Callers, pc[c] = "wait"
                 PROVE  LET p == cur[c].plugin
                        IN  /\ receipt[c] = "ok" => /\ assignments[p] = None
                                                    /\ \A i \in Idx : p \notin threadPlugins[i]
                            /\ receipt[c] = "err" => /\ assignments[p] # None
                                                     /\ slot[assignments[p]] = "live"
    BY DEF ReceiptsTrue
  <2>2. c = PluginThread
    BY <2>1 DEF RInv, PlaceInv, KindInv
  <2>3. PICK p \in Plugins : p = cur[c].plugin
    BY <2>1 DEF IInv, JobsInHand, Work
  <2>4. /\ receipt[c] = "ok" => assignments[p] = None
        /\ receipt[c] = "err" => assignments[p] \in Idx
    BY <2>1, <2>2, <2>3 DEF RInv, WaitInv
  <2> QED
    BY <1>1, <2>1, <2>3, <2>4 DEF IInv, MapsAgree, AssignedThreadLive, PoolAssumption
<1>5. (IInv /\ JInv /\ RInv) /\ [Next]_vars => (IInv /\ JInv /\ RInv)'
  BY <1>3
<1> QED
  BY <1>2, <1>4, <1>5, PTL DEF Spec

-----------------------------------------------------------------------------
(* Receipts that come too late.                                            *)

\* The half of ReceiptsTrue that timeouts leave true: a caller that holds the receipt Ok
\* of an unload finds the plugin assigned nowhere.
OkReceiptsTrue ==
    \A c \in Callers : pc[c] = "wait" /\ receipt[c] = "ok" =>
        /\ assignments[cur[c].plugin] = None
        /\ \A i \in Idx : cur[c].plugin \notin threadPlugins[i]

\* The job w is in the channel of i or in its hands.
Has(i, w) ==
    \/ Running(i) /\ cur[i] = w
    \/ \E k \in 1 .. Len(queue[i]) : queue[i][k] = w

\* The call that w belongs to was made, is over or is w, and its plugin is settled.
Sealed(w) ==
    /\ w.n < calls[w.caller] /\ Settled(w.plugin)
    /\ cur[w.caller].n = w.n => cur[w.caller] = w

\* Every unload on its way is sealed,
MailInv == \A i \in Idx, w \in Work : Has(i, w) /\ w.kind = "unload" => Sealed(w)

\* a worker that has unregistered a plugin finds it so,
GoneInv ==
    \A i \in Idx, p \in Plugins :
        pc[i] \in {"sh_E", "sh_T", "receipt"} /\ cur[i].plugin = p => assignments[p] = None

\* a caller's job carries its name and a number that was used, and a receipt comes to
\* nobody who does not wait,
OwnInv ==
    \A c \in Callers :
        /\ pc[c] # "idle" => cur[c].caller = c /\ cur[c].n < calls[c]
        /\ pc[c] \notin {"idle", "wait"} => receipt[c] = "none"

\* and Ok is true.
OkInv ==
    \A c \in Callers, p \in Plugins : pc[c] = "wait" /\ cur[c].plugin = p =>
        Settled(p) /\ (receipt[c] = "ok" => assignments[p] = None)

OInv == PlaceInv /\ MailInv /\ GoneInv /\ OwnInv /\ OkInv

\* What a step can do to a caller's number and receipt: nothing, a call takes the next
\* number, or a worker answers the call that the caller waits for.
Begins(c) ==
    /\ pc[c] = "idle" /\ pc'[c] \in {"reg_A", "ex_A"} /\ calls'[c] = calls[c] + 1
    /\ cur'[c].caller = c /\ cur'[c].n = calls[c] /\ receipt'[c] = "none"
Answered(c) ==
    /\ pc[c] = "wait" /\ pc'[c] = "wait" /\ cur'[c] = cur[c] /\ calls'[c] = calls[c]
    /\ assignments' = assignments
    /\ \E i \in Idx : /\ pc[i] \in {"receipt", "panicked"}
                      /\ cur[i].caller = c /\ cur[i].n = cur[c].n
                      /\ receipt'[c] = Outcome(pc[i])
Counts(c) ==
    \/ /\ cur'[c] = cur[c] /\ calls'[c] = calls[c] /\ receipt'[c] = receipt[c]
       /\ pc[c] = "idle" => pc'[c] = "idle"
    \/ Begins(c) \/ Answered(c)

\* Every step is one of these for every caller, only a send brings a job, and a worker is
\* done with unregistering by the step that unregisters.
Accounted ==
    /\ \A c \in Callers : Counts(c)
    /\ \A i \in Idx, w \in Work : Has(i, w)' =>
         Has(i, w) \/ \E c \in Callers : cur[c] = w /\ pc[c] = "ex_E" /\ UNCHANGED <<cur, calls>>
    /\ \A i \in Idx : pc'[i] \in {"sh_E", "sh_T", "receipt"} =>
         /\ cur'[i] = cur[i] /\ Running(i)
         /\ pc[i] \in {"sh_E", "sh_T", "receipt"} \/ UnregisterRemove(i)

\* Callers count their calls.
LEMMA CallsCounted ==
    ASSUME PoolAssumption, IInv, [Next]_vars, NEW c \in Callers
    PROVE  Counts(c)
<1> USE DEF IInv, TypeOK, Procs
<1>0. /\ \A d \in Callers, i \in Idx : d # i
      /\ PluginThread \in Callers
  BY ProcsApart
<1>a. ASSUME UNCHANGED <<cur[c], calls[c], receipt[c]>>, pc[c] = "idle" => pc'[c] = "idle" PROVE Counts(c)
  BY <1>a DEF Counts
<1>b. ASSUME NEW d \in Callers, NEW kind, NEW p \in Plugins, NEW at \in {"reg_A", "ex_A"}, Begin(d, kind, p, at)
      PROVE  Counts(c)
  <2>1. /\ pc[d] = "idle" /\ pc' = [pc EXCEPT ![d] = at] /\ calls' = [calls EXCEPT ![d] = calls[d] + 1]
        /\ cur' = [cur EXCEPT ![d] = [kind |-> kind, plugin |-> p, caller |-> d, n |-> calls[d]]]
        /\ receipt' = [receipt EXCEPT ![d] = "none"]
    BY <1>b DEF Begin
  <2>2. CASE c = d
    <3>1. cur'[c].caller = c /\ cur'[c].n = calls[c]
      BY <2>1, <2>2
    <3>2. pc'[c] \in {"reg_A", "ex_A"} /\ calls'[c] = calls[c] + 1 /\ receipt'[c] = "none"
      BY <2>1, <2>2
    <3> QED
      BY <2>1, <2>2, <3>1, <3>2 DEF Counts, Begins
  <2>3. CASE c # d
    BY <1>a, <2>1, <2>3
  <2> QED
    BY <2>2, <2>3
<1>1. ASSUME NEW d \in Callers, NEW p \in Plugins, BeginLoad(d, p) PROVE Counts(c)
  BY <1>b, <1>1 DEF BeginLoad
<1>2. ASSUME NEW p \in Plugins, BeginEvent(p) \/ BeginUnload(p) PROVE Counts(c)
  BY <1>0, <1>b, <1>2 DEF BeginEvent, BeginUnload
<1>3. ASSUME NEW d \in Callers, CallerStep(d) PROVE Counts(c)
  <2>1. UNCHANGED <<cur, calls, receipt>> /\ pc[d] # "idle"
    BY <1>3 DEF CallerStep, RegisterLockA, RegisterLockT, RegisterChoose, RegisterSpawn,
         ExecuteLookup, ExecuteSend, api
  <2>2. pc[c] = "idle" => pc'[c] = "idle"
    <3>1. CASE RegisterSpawn(d)
      <4>1. target[d] \in Idx
        BY <3>1 DEF RegisterSpawn, SpawnInv
      <4> QED
        BY <1>0, <2>1, <3>1, <4>1 DEF RegisterSpawn
    <3>2. CASE ~RegisterSpawn(d)
      <4>1. \E at : pc' = [pc EXCEPT ![d] = at]
        BY <1>3, <3>2 DEF CallerStep, RegisterLockA, RegisterLockT, RegisterChoose, Expand, Reuse, Assign,
           ExecuteLookup, ExecuteSend
      <4> QED
        BY <2>1, <4>1
    <3> QED
      BY <3>1, <3>2
  <2> QED
    BY <1>a, <2>1, <2>2
<1>4. ASSUME NEW q \in Procs, UnregisterStep(q) PROVE Counts(c)
  <2>1. /\ UNCHANGED <<cur, calls, receipt>> /\ pc[q] # "idle" /\ \E at : pc' = [pc EXCEPT ![q] = at]
    BY <1>4 DEF UnregisterStep, UnregisterLockA, UnregisterRemove, ShrinkLockE, ShrinkRemove, api
  <2> QED
    BY <1>a, <2>1
<1>5. ASSUME NEW i \in Idx, WorkerReceipt(i) PROVE Counts(c)
  <2>1. /\ UNCHANGED <<cur, calls, assignments>> /\ pc' = [pc EXCEPT ![i] = "done"]
        /\ pc[i] \in {"receipt", "panicked"} /\ cur[i].caller \in Callers
        /\ receipt' = IF pc[cur[i].caller] = "wait" /\ cur[cur[i].caller].n = cur[i].n
                      THEN [receipt EXCEPT ![cur[i].caller] = Outcome(pc[i])] ELSE receipt
    BY <1>5 DEF WorkerReceipt, maps, api, JobsInHand, Running, Work
  <2>2. pc'[c] = pc[c]
    BY <1>0, <2>1
  <2>3. \/ receipt'[c] = receipt[c]
        \/ pc[c] = "wait" /\ cur[i].caller = c /\ cur[i].n = cur[c].n /\ receipt'[c] = Outcome(pc[i])
    BY <2>1
  <2> QED
    BY <1>a, <2>1, <2>2, <2>3 DEF Counts, Answered
<1>6. ASSUME NEW i \in Idx, WorkerReceive(i) \/ WorkerFinish(i) \/ WorkerCleanup(i) \/ WorkerDone(i) PROVE Counts(c)
  <2>1. UNCHANGED <<calls, receipt>> /\ cur'[c] = cur[c] /\ pc'[c] = pc[c]
    BY <1>0, <1>6 DEF WorkerReceive, WorkerFinish, WorkerCleanup, WorkerDone, api
  <2> QED
    BY <1>a, <2>1
<1>7. ASSUME TakeReceipt \/ ReceiptTimeout PROVE Counts(c)
  <2>1. UNCHANGED <<cur, calls, receipt>> /\ pc' = [pc EXCEPT ![PluginThread] = "idle"]
    BY <1>7 DEF TakeReceipt, ReceiptTimeout, api
  <2> QED
    BY <1>0, <1>a, <2>1
<1>8. CASE DropExecutor \/ UNCHANGED vars
  BY <1>a, <1>8 DEF DropExecutor, vars
<1> QED
  BY <1>1, <1>2, <1>3, <1>4, <1>5, <1>6, <1>7, <1>8 DEF Next, WorkerStep, Stopped

\* jobs_in_flight goes up in a send only.
LEMMA OnlySends ==
    ASSUME IInv, [Next]_vars, NEW i \in Idx, inflight'[i] = inflight[i] + 1
    PROVE  \E c \in Callers : ExecuteSend(c)
<1>1. inflight[i] \in Int /\ inflight' # inflight
  BY DEF IInv, TypeOK
<1>2. ASSUME NEW j \in Idx, WorkerDone(j) PROVE FALSE
  <2>1. inflight' = [inflight EXCEPT ![j] = inflight[j] - 1]
    BY <1>2 DEF WorkerDone, Released
  <2> QED
    BY <1>1, <2>1 DEF IInv, TypeOK
<1>3. ASSUME NEW q \in Procs, UnregisterStep(q) PROVE FALSE
  BY <1>1, <1>3 DEF UnregisterStep, UnregisterLockA, UnregisterRemove, ShrinkLockE, ShrinkRemove, pool
<1>4. ASSUME NEW j \in Idx, WorkerReceive(j) \/ WorkerFinish(j) \/ WorkerCleanup(j) \/ WorkerReceipt(j) PROVE FALSE
  BY <1>1, <1>4 DEF WorkerReceive, WorkerFinish, WorkerCleanup, WorkerReceipt, pool
<1>5. ASSUME NEW c \in Callers, RegisterLockA(c) \/ RegisterLockT(c) \/ RegisterChoose(c) \/ RegisterSpawn(c) \/ ExecuteLookup(c)
      PROVE  FALSE
  <2>1. CASE RegisterLockA(c) \/ RegisterLockT(c) \/ ExecuteLookup(c)
    BY <1>1, <2>1 DEF RegisterLockA, RegisterLockT, ExecuteLookup, pool
  <2>2. CASE RegisterChoose(c)
    BY <1>1, <2>2 DEF RegisterChoose
  <2>3. CASE RegisterSpawn(c)
    BY <1>1, <2>3 DEF RegisterSpawn
  <2> QED
    BY <1>5, <2>1, <2>2, <2>3
<1>6. ASSUME TakeReceipt \/ ReceiptTimeout \/ DropExecutor \/ UNCHANGED vars PROVE FALSE
  BY <1>1, <1>6 DEF TakeReceipt, ReceiptTimeout, DropExecutor, vars, pool
<1>7. ASSUME NEW c, NEW kind, NEW p, NEW at, Begin(c, kind, p, at) PROVE FALSE
  BY <1>1, <1>7 DEF Begin, pool
<1> QED
  BY <1>2, <1>3, <1>4, <1>5, <1>6, <1>7
     DEF Next, CallerStep, WorkerStep, BeginLoad, BeginEvent, BeginUnload, Stopped

\* A job that a worker has was sent to it before, or is sent by this step.
LEMMA JobsSent ==
    ASSUME PoolAssumption, IInv, JInv, [Next]_vars, NEW i \in Idx, NEW w \in Work, Has(i, w)'
    PROVE  Has(i, w) \/ \E c \in Callers : cur[c] = w /\ pc[c] = "ex_E" /\ UNCHANGED <<cur, calls>>
<1>1. Seen(i)
  BY WorkersSee DEF JInv
<1>2. PICK s \in Seq(Job) : s = queue[i]
  BY DEF IInv, TypeOK
<1>3. (Running(i)' /\ cur'[i] = w) \/ \E k \in 1 .. Len(queue'[i]) : queue'[i][k] = w
  BY DEF Has
<1>4. CASE Rests(i) \/ Ends(i) \/ IsBorn(i)
  BY <1>3, <1>4 DEF Rests, Ends, IsBorn, Has, Running
<1>5. ASSUME NEW m \in Job, queue'[i] = Append(queue[i], m),
             (Running(i)' => Running(i)) /\ cur'[i] = cur[i], m # w
      PROVE  Has(i, w)
  <2>1. CASE Running(i)' /\ cur'[i] = w
    BY <1>5, <2>1 DEF Has
  <2>2. ASSUME NEW k \in 1 .. Len(queue'[i]), queue'[i][k] = w PROVE Has(i, w)
    <3>1. /\ Len(Append(s, m)) = Len(s) + 1 /\ Append(s, m)[Len(s) + 1] = m /\ Len(s) \in Nat
          /\ \A n \in 1 .. Len(s) : Append(s, m)[n] = s[n]
      BY ONLY s \in Seq(Job), m \in Job, Channels
    <3>2. k \in 1 .. Len(s) + 1 /\ k # Len(s) + 1
      BY <1>2, <1>5, <2>2, <3>1
    <3>3. k \in 1 .. Len(s) /\ s[k] = w
      BY <1>2, <1>5, <2>2, <3>1, <3>2
    <3> QED
      BY <1>2, <3>3 DEF Has
  <2> QED
    BY <1>3, <2>1, <2>2
<1>6. CASE Sent(i)
  <2>1. PICK c \in Callers : ExecuteSend(c)
    BY <1>6, OnlySends DEF Sent
  <2>2. pc[c] = "ex_E" /\ UNCHANGED <<cur, calls>> /\ target[c] \in Idx /\ cur[c] \in Work /\ cur[c] \in Job
    BY <2>1, JobKinds DEF ExecuteSend, api, IInv, LookupInv, JobsInHand
  <2>3. inflight[i] \in Int /\ queue \in [Idx -> Seq(Job)] /\ inflight \in [Idx -> Int]
    BY DEF IInv, TypeOK
  <2>4. queue'[i] = Append(queue[i], cur[c])
    <3>1. inflight' # inflight
      BY <1>6, <2>3 DEF Sent
    <3>2. /\ inflight' = [inflight EXCEPT ![target[c]] = inflight[target[c]] + 1]
          /\ queue' = [queue EXCEPT ![target[c]] = Append(queue[target[c]], cur[c])]
      BY <2>1, <3>1 DEF ExecuteSend
    <3>3. target[c] = i
      BY <1>6, <2>3, <3>2 DEF Sent
    <3> QED
      BY <2>3, <3>2, <3>3
  <2>5. (Running(i)' => Running(i)) /\ cur'[i] = cur[i]
    BY <1>6 DEF Sent, Running
  <2>6. CASE cur[c] = w
    BY <2>2, <2>6
  <2>7. CASE cur[c] # w
    BY <1>5, <2>2, <2>4, <2>5, <2>7
  <2> QED
    BY <2>6, <2>7
<1>7. CASE Told(i)
  <2>1. Shutdown \in Job /\ Shutdown # w
    BY JobKinds
  <2> QED
    BY <1>5, <1>7, <2>1 DEF Told, Running
<1>8. CASE Receives(i)
  <2>1. s # <<>> /\ queue'[i] = Tail(s)
    BY <1>2, <1>8 DEF Receives
  <2>2. /\ Head(s) = s[1] /\ Len(s) \in Nat \ {0} /\ Len(Tail(s)) = Len(s) - 1
        /\ \A k \in 1 .. Len(s) - 1 : Tail(s)[k] = s[k + 1]
    BY ONLY s \in Seq(Job), <2>1, Channels
  <2>3. CASE Running(i)' /\ cur'[i] = w
    <3>1. w = s[1] /\ 1 \in 1 .. Len(s)
      BY <1>2, <1>8, <2>2, <2>3 DEF Receives, Running
    <3> QED
      BY <1>2, <3>1 DEF Has
  <2>4. ASSUME NEW k \in 1 .. Len(queue'[i]), queue'[i][k] = w PROVE Has(i, w)
    <3>1. k + 1 \in 1 .. Len(s) /\ s[k + 1] = w
      BY <2>1, <2>2, <2>4
    <3> QED
      BY <1>2, <3>1 DEF Has
  <2> QED
    BY <1>3, <2>3, <2>4
<1> QED
  BY <1>1, <1>4, <1>6, <1>7, <1>8 DEF Seen

\* A worker unregisters, and then shrinks the pool and answers.
LEMMA WorkersUnregister ==
    ASSUME PoolAssumption, IInv, [Next]_vars, NEW i \in Idx, pc'[i] \in {"sh_E", "sh_T", "receipt"}
    PROVE  /\ cur'[i] = cur[i] /\ Running(i)
           /\ pc[i] \in {"sh_E", "sh_T", "receipt"} \/ UnregisterRemove(i)
<1> USE DEF IInv, TypeOK, Procs
<1>0. /\ \A d \in Callers, j \in Idx : d # j
      /\ PluginThread \in Callers
  BY ProcsApart
<1>a. ASSUME pc'[i] = pc[i], cur'[i] = cur[i]
      PROVE  /\ cur'[i] = cur[i] /\ Running(i)
             /\ pc[i] \in {"sh_E", "sh_T", "receipt"} \/ UnregisterRemove(i)
  BY <1>a DEF Running
<1>b. ASSUME NEW c \in Callers, \E at : pc' = [pc EXCEPT ![c] = at],
             cur' = cur \/ \E x : cur' = [cur EXCEPT ![c] = x]
      PROVE  pc'[i] = pc[i] /\ cur'[i] = cur[i]
  BY <1>0, <1>b
<1>1. ASSUME NEW c \in Callers, NEW kind, NEW p, NEW at, Begin(c, kind, p, at) PROVE pc'[i] = pc[i] /\ cur'[i] = cur[i]
  BY <1>b, <1>1 DEF Begin
<1>2. ASSUME NEW c \in Callers, CallerStep(c) PROVE pc'[i] = pc[i] /\ cur'[i] = cur[i]
  <2>1. CASE RegisterSpawn(c)
    <3>1. target[c] \in Idx
      BY <2>1 DEF RegisterSpawn, SpawnInv
    <3> QED
      BY <1>0, <2>1, <3>1 DEF RegisterSpawn
  <2>2. CASE ~RegisterSpawn(c)
    <3>1. cur' = cur /\ \E at : pc' = [pc EXCEPT ![c] = at]
      BY <1>2, <2>2 DEF CallerStep, RegisterLockA, RegisterLockT, RegisterChoose, Expand, Reuse, Assign,
         ExecuteLookup, ExecuteSend
    <3> QED
      BY <1>b, <3>1
  <2> QED
    BY <2>1, <2>2
<1>3. ASSUME NEW q \in Procs, UnregisterStep(q)
      PROVE  /\ cur'[i] = cur[i] /\ Running(i)
             /\ pc[i] \in {"sh_E", "sh_T", "receipt"} \/ UnregisterRemove(i)
  <2>1. cur' = cur /\ \E at : pc' = [pc EXCEPT ![q] = at]
    BY <1>3 DEF UnregisterStep, UnregisterLockA, UnregisterRemove, ShrinkLockE, ShrinkRemove
  <2>2. CASE q # i
    BY <1>a, <2>1, <2>2
  <2>3. CASE q = i
    BY <1>3, <2>1, <2>3 DEF UnregisterStep, UnregisterLockA, UnregisterRemove, ShrinkLockE, ShrinkRemove, Running
  <2> QED
    BY <2>2, <2>3
<1>4. ASSUME NEW j \in Idx, WorkerStep(j)
      PROVE  pc'[i] = pc[i] /\ cur'[i] = cur[i]
  BY <1>4 DEF WorkerStep, WorkerReceive, WorkerFinish, WorkerCleanup, WorkerReceipt, WorkerDone
<1>5. ASSUME TakeReceipt \/ ReceiptTimeout PROVE pc'[i] = pc[i] /\ cur'[i] = cur[i]
  BY <1>0, <1>b, <1>5 DEF TakeReceipt, ReceiptTimeout
<1>6. CASE DropExecutor \/ UNCHANGED vars
  BY <1>a, <1>6 DEF DropExecutor, vars
<1> QED
  BY <1>0, <1>a, <1>1, <1>2, <1>3, <1>4, <1>5, <1>6 DEF Next, BeginLoad, BeginEvent, BeginUnload, Stopped

\* Every step is accounted for.
LEMMA StepsAccounted ==
    ASSUME PoolAssumption, IInv, JInv, [Next]_vars
    PROVE  Accounted
  BY CallsCounted, JobsSent, WorkersUnregister DEF Accounted

\* A sealed job stays so.
LEMMA SealedStays ==
    ASSUME IInv, CallersMove, Accounted, NEW w \in Work, Sealed(w)
    PROVE  Sealed(w)'
<1>1. PICK c \in Callers, p \in Plugins : c = w.caller /\ p = w.plugin
  BY DEF Work
<1>2. Settled(p)'
  BY <1>1, SettledStays DEF Sealed
<1>3. w.n \in Int /\ calls[c] \in Int /\ w.n < calls[c] /\ (cur[c].n = w.n => cur[c] = w)
  BY <1>1 DEF Sealed, Work, IInv, TypeOK
<1>4. Counts(c)
  BY DEF Accounted
<1>5. w.n < calls'[c] /\ (cur'[c].n = w.n => cur'[c] = w)
  BY <1>3, <1>4 DEF Counts, Begins, Answered
<1> QED
  BY <1>1, <1>2, <1>5 DEF Sealed

\* Every step leaves the unloads on their way sealed.
LEMMA MailStep ==
    ASSUME PoolAssumption, IInv, OInv, CallersMove, Accounted
    PROVE  MailInv'
<1>1. SUFFICES ASSUME NEW i \in Idx, NEW w \in Work, Has(i, w)', w.kind = "unload"
               PROVE  Sealed(w)'
  BY DEF MailInv
<1>2. CASE Has(i, w)
  BY <1>1, <1>2, SealedStays DEF OInv, MailInv
<1>3. ASSUME NEW c \in Callers, cur[c] = w, pc[c] = "ex_E" PROVE Sealed(w)'
  <2>1. w.caller = c /\ w.n < calls[c]
    BY <1>3 DEF OInv, OwnInv
  <2>2. Settled(w.plugin)
    BY <1>3 DEF OInv, PlaceInv, PlacedInv, Placed, Work
  <2> QED
    BY <1>3, <2>1, <2>2, SealedStays DEF Sealed
<1> QED
  BY <1>1, <1>2, <1>3 DEF Accounted

\* Every step leaves an unregistered plugin unregistered.
LEMMA GoneStep ==
    ASSUME PoolAssumption, IInv, JInv, OInv, CallersMove, Accounted
    PROVE  GoneInv'
<1>1. SUFFICES ASSUME NEW i \in Idx, NEW p \in Plugins,
                      pc'[i] \in {"sh_E", "sh_T", "receipt"}, cur'[i].plugin = p
               PROVE  assignments'[p] = None
  BY DEF GoneInv
<1>2. cur[i].plugin = p /\ Running(i)
  BY <1>1 DEF Accounted
<1>3. CASE UnregisterRemove(i)
  BY <1>2, <1>3 DEF UnregisterRemove, IInv, TypeOK
<1>4. CASE pc[i] \in {"sh_E", "sh_T", "receipt"}
  <2>1. assignments[p] = None
    BY <1>2, <1>4 DEF OInv, GoneInv
  <2>2. PICK w \in Work : w = cur[i]
    BY <1>2 DEF IInv, JobsInHand
  <2>3. Has(i, w) /\ w.kind = "unload" /\ w.plugin = p
    BY <1>2, <1>4, <2>2 DEF Has, JInv, DropInv
  <2>4. Settled(p)
    BY <2>3 DEF OInv, MailInv, Sealed
  <2> QED
    BY <2>1, <2>4, SettledStays DEF Loses
<1> QED
  BY <1>1, <1>3, <1>4 DEF Accounted

\* Every step leaves callers their names and numbers.
LEMMA OwnStep ==
    ASSUME PoolAssumption, IInv, OInv, CallersMove, Accounted
    PROVE  OwnInv'
<1>1. SUFFICES ASSUME NEW c \in Callers
               PROVE  /\ pc'[c] # "idle" => cur'[c].caller = c /\ cur'[c].n < calls'[c]
                      /\ pc'[c] \notin {"idle", "wait"} => receipt'[c] = "none"
  BY DEF OwnInv
<1>2. /\ Moves(c) /\ Counts(c) /\ calls[c] \in Int
      /\ pc[c] # "idle" => cur[c].caller = c /\ cur[c].n < calls[c]
      /\ pc[c] \notin {"idle", "wait"} => receipt[c] = "none"
  BY DEF CallersMove, Accounted, OInv, OwnInv, IInv, TypeOK
<1>3. CASE Begins(c)
  BY <1>2, <1>3 DEF Begins
<1>4. CASE Answered(c)
  BY <1>2, <1>4 DEF Answered
<1>5. CASE /\ cur'[c] = cur[c] /\ calls'[c] = calls[c] /\ receipt'[c] = receipt[c]
           /\ pc[c] = "idle" => pc'[c] = "idle"
  <2>1. pc[c] = "wait" => pc'[c] \in {"idle", "wait"}
    BY <1>2 DEF Moves, Stays, Loads, Drives, Registers, LooksUp, Sends, RollsBack, TakesReceipt, Registering
  <2> QED
    BY <1>2, <1>5, <2>1
<1> QED
  BY <1>2, <1>3, <1>4, <1>5 DEF Counts

\* Every step leaves Ok true.
LEMMA OkStep ==
    ASSUME PoolAssumption, IInv, JInv, OInv, CallersMove, Accounted
    PROVE  OkInv'
<1>1. SUFFICES ASSUME NEW c \in Callers, NEW p \in Plugins, pc'[c] = "wait", cur'[c].plugin = p
               PROVE  Settled(p)' /\ (receipt'[c] = "ok" => assignments'[p] = None)
  BY DEF OkInv
<1>2. Moves(c) /\ Counts(c)
  BY DEF CallersMove, Accounted
<1>3. CASE pc[c] = "ex_E"
  <2>1. receipt[c] = "none"
    BY <1>3 DEF OInv, OwnInv
  <2>2. cur'[c] = cur[c] /\ receipt'[c] = receipt[c]
    BY <1>2, <1>3 DEF Counts, Begins, Answered
  <2>3. Settled(p)
    BY <1>1, <1>3, <2>2 DEF OInv, PlaceInv, PlacedInv, Placed
  <2> QED
    BY <2>1, <2>2, <2>3, SettledStays
<1>4. CASE pc[c] = "wait"
  <2>1. cur'[c] = cur[c]
    BY <1>2, <1>4 DEF Counts, Begins, Answered
  <2>2. /\ Settled(p) /\ Settled(p)' /\ (assignments[p] = None => assignments'[p] = None)
        /\ receipt[c] = "ok" => assignments[p] = None
    BY <1>1, <1>4, <2>1, SettledStays DEF OInv, OkInv, Loses
  <2>3. CASE receipt'[c] = receipt[c]
    BY <2>2, <2>3
  <2>4. CASE Answered(c)
    <3>1. PICK i \in Idx : /\ pc[i] \in {"receipt", "panicked"}
                           /\ cur[i].caller = c /\ cur[i].n = cur[c].n
                           /\ receipt'[c] = Outcome(pc[i])
      BY <2>4 DEF Answered
    <3>2. PICK w \in Work : w = cur[i] /\ Running(i)
      BY <3>1 DEF IInv, JobsInHand, Running
    <3>3. Has(i, w) /\ w.kind = "unload"
      BY <3>1, <3>2 DEF Has, JInv, DropInv
    <3>4. cur[c] = w
      BY <3>1, <3>2, <3>3 DEF OInv, MailInv, Sealed
    <3>5. pc[i] = "receipt" => assignments[p] = None
      BY <1>1, <2>1, <3>2, <3>4 DEF OInv, GoneInv
    <3>6. pc[i] = "panicked" => receipt'[c] # "ok"
      BY <3>1 DEF Outcome
    <3> QED
      BY <2>2, <3>1, <3>5, <3>6
  <2> QED
    BY <1>2, <1>4, <2>3, <2>4 DEF Counts, Begins
<1> QED
  BY <1>1, <1>2, <1>3, <1>4
     DEF Moves, Stays, Loads, Drives, Registers, LooksUp, Sends, RollsBack, TakesReceipt, Refused, Registering

\* Before any call there is nothing to be sealed.
LEMMA InitMail == ASSUME PoolAssumption, Init PROVE OInv
<1>1. RInv
  BY InitReceipts
<1>2. /\ \A c \in Callers : pc[c] = "idle"
      /\ \A i \in Idx : pc[i] \in {"recv", "failed", "unborn"} /\ queue[i] = <<>>
  <2>1. 0 \in Idx /\ \A c \in Callers, i \in Idx : c # i
    BY ProcsApart DEF PoolAssumption, Idx
  <2>2. PICK first \in {"recv", "failed"} :
          pc = [q \in Procs |-> CASE q \in Callers -> "idle"
                                   [] q = 0 -> first
                                   [] OTHER -> "unborn"]
    BY DEF Init
  <2>3. \A i \in Idx : pc[i] = IF i = 0 THEN first ELSE "unborn"
    BY <2>1, <2>2 DEF Procs
  <2>4. \A c \in Callers : pc[c] = "idle"
    BY <2>1, <2>2 DEF Procs
  <2>5. \A i \in Idx : queue[i] = <<>>
    BY DEF Init
  <2> QED
    BY <2>3, <2>4, <2>5
<1>3. MailInv
  BY <1>2 DEF MailInv, Has, Running
<1>4. GoneInv /\ OwnInv /\ OkInv
  BY <1>2 DEF GoneInv, OwnInv, OkInv
<1> QED
  BY <1>1, <1>3, <1>4 DEF OInv, RInv

\* A receipt Ok is true even when receipts may time out, calls are made again and a late
\* answer finds its caller waiting for another unload: the plugin has no thread any more.
THEOREM OkReceiptsTold == Spec => []OkReceiptsTrue
<1>1. PoolAssumption
  BY PoolAssumption
<1>2. Init => IInv /\ JInv /\ OInv
  BY <1>1, InitInv, InitJobs, InitMail
<1>3. ASSUME IInv, JInv, OInv, [Next]_vars PROVE (IInv /\ JInv /\ OInv)'
  <2>1. IInv'
    BY <1>1, <1>3, TypeStep, JobsStep, LockStep, SpawnStep, RegisterStep, LookupStep, MapsStep,
       LiveStep DEF IInv
  <2>2. JInv'
    BY <1>1, <1>3, JobStep
  <2>3. CallersMove /\ PlaceInv /\ Accounted
    BY <1>1, <1>3, CallersAct, StepsAccounted DEF OInv
  <2>4. PlaceInv'
    BY <1>1, <1>3, <2>3, KindStep, BegunStep, PlacedStep DEF PlaceInv
  <2>5. MailInv' /\ GoneInv' /\ OwnInv' /\ OkInv'
    BY <1>1, <1>3, <2>3, MailStep, GoneStep, OwnStep, OkStep
  <2> QED
    BY <2>1, <2>2, <2>4, <2>5 DEF OInv
<1>4. IInv /\ OInv => OkReceiptsTrue
  <2>1. SUFFICES ASSUME IInv, OInv, NEW c \in Callers, pc[c] = "wait", receipt[c] = "ok"
                 PROVE  /\ assignments[cur[c].plugin] = None
                        /\ \A i \in Idx : cur[c].plugin \notin threadPlugins[i]
    BY DEF OkReceiptsTrue
  <2>2. PICK p \in Plugins : p = cur[c].plugin
    BY <2>1 DEF IInv, JobsInHand, Work
  <2>3. assignments[p] = None
    BY <2>1, <2>2 DEF OInv, OkInv
  <2>4. \A i \in Idx : p \notin threadPlugins[i]
    BY <1>1, <2>1, <2>3 DEF IInv, MapsAgree, PoolAssumption
  <2> QED
    BY <2>2, <2>3, <2>4
<1>5. (IInv /\ JInv /\ OInv) /\ [Next]_vars => (IInv /\ JInv /\ OInv)'
  BY <1>3
<1> QED
  BY <1>2, <1>4, <1>5, PTL DEF Spec

=============================================================================
