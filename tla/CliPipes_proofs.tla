---------------------------- MODULE CliPipes_proofs ----------------------------
(***************************************************************************)
(* Proofs about CliPipes, for any number of plugins, clients, lines and    *)
(* events, any cap and any faults: type correctness, with the cap of each  *)
(* cache, and that unloading a plugin frees the pipes that wait for it;    *)
(* that no instance is forgotten while nothing goes wrong; and that the    *)
(* CLI client reads line by line while nothing is loaded or unloaded.      *)
(***************************************************************************)
EXTENDS CliPipes, FiniteSetTheorems, SequenceTheorems, TLAPS

-----------------------------------------------------------------------------
(* The operators the model is built from. *)

\* Reading a queue round and round, n items for each of m clients.
LEMMA RoundBounds ==
  ASSUME NEW n \in Nat, NEW m \in Nat, NEW k \in 1 .. n * m
  PROVE  /\ ((k - 1) \div n) + 1 \in 1 .. m
         /\ ((k - 1) % n) + 1 \in 1 .. n
<1>1. n > 0
  BY SMT
<1> DEFINE q == (k - 1) \div n
           r == (k - 1) % n
<1>2. r \in 0 .. n - 1
  BY <1>1, SMT
<1>3. q \in Int
  BY <1>1, SMT
<1>4. k - 1 = n * q + r
  BY <1>1, SMT
<1> HIDE DEF q, r
<1>5. q >= 0
  BY <1>1, <1>2, <1>3, <1>4, SMT
<1>6. q < m
  BY <1>1, <1>2, <1>3, <1>4, SMT
<1>7. QED
  BY <1>2, <1>3, <1>5, <1>6 DEF q, r

\* SetToSeq lists the elements of a finite set, and nothing for the empty one.
LEMMA SetToSeqType ==
  ASSUME NEW S, IsFiniteSet(S)
  PROVE  SetToSeq(S) \in Seq(S)
<1>1. Cardinality(S) \in Nat /\ ExistsBijection(1 .. Cardinality(S), S)
  BY FS_CardinalityType
<1>2. \E f \in [1 .. Cardinality(S) -> S] : IsInjective(f)
  BY <1>1 DEF ExistsBijection, Bijection, Injection, IsInjective
<1>3. SetToSeq(S) \in [1 .. Cardinality(S) -> S]
  BY <1>2 DEF SetToSeq
<1>4. QED
  BY <1>1, <1>3

\* Keep keeps items of a queue, and never more than the cap.
LEMMA KeepType ==
  ASSUME PipeAssumption, NEW S, NEW queue \in Seq(S), NEW items \in Seq(S)
  PROVE  Keep(queue, items) \in Seq(S) /\ Len(Keep(queue, items)) <= CacheCap
<1> DEFINE all == queue \o items
           excess == IF Len(all) > CacheCap THEN Len(all) - CacheCap ELSE 0
<1>1. all \in Seq(S) /\ Len(all) \in Nat /\ CacheCap \in Nat
  BY DEF PipeAssumption
<1>2. excess \in Nat /\ excess <= Len(all) /\ Len(all) - excess <= CacheCap
  BY <1>1
<1>3. Keep(queue, items) = SubSeq(all, excess + 1, Len(all))
  BY DEF Keep
<1> HIDE DEF all, excess
<1>4. QED
  BY <1>1, <1>2, <1>3

\* Sets of instances are finite.
LEMMA InstancesFinite ==
  ASSUME PipeAssumption
  PROVE  \A S \in SUBSET Instances : IsFiniteSet(S)
<1>1. IsFiniteSet(Ids) /\ IsFiniteSet(Clients)
  BY FS_Interval DEF PipeAssumption, Ids
<1>2. IsFiniteSet(Instances)
  BY <1>1, FS_Product DEF Instances
<1>3. QED
  BY <1>2, FS_Subset

\* One job for each of some clients.
LEMMA JobsForType ==
  ASSUME PipeAssumption, NEW S \in SUBSET Clients,
         NEW is \in {"pipe", "event"}, NEW line \in 0 .. MaxLines
  PROVE  SetToSeq({Job(is, c, line) : c \in S}) \in Seq(Jobs)
<1> DEFINE T == {Job(is, c, line) : c \in S}
           f == [c \in S |-> Job(is, c, line)]
<1>1. IsFiniteSet(S)
  BY FS_Subset DEF PipeAssumption
<1>2. f \in Surjection(S, T)
  BY DEF Surjection
<1>3. T \subseteq Jobs
  BY DEF Job, Jobs
<1> HIDE DEF f, T
<1>4. IsFiniteSet(T)
  BY <1>1, <1>2, FS_Surjection
<1>5. SetToSeq(T) \in Seq(T)
  BY <1>4, SetToSeqType
<1>6. SetToSeq(T) \in Seq(Jobs)
  BY <1>3, <1>5
<1>7. QED
  BY <1>6 DEF T

\* Every message is one.
LEMMA MessageTypes ==
  ASSUME PipeAssumption
  PROVE  /\ \A line \in Lines : CliPipe(line) \in Messages
         /\ \A i \in Instances, change \in Changes : Answer(i, change) \in Messages
         /\ \A p \in Ids : ApplyCached(p) \in Messages /\ Update(p) \in Messages
         /\ \A c \in Attaches : AddClient(c) \in Messages
         /\ \A p \in Unloads : Unload(p) \in Messages
  BY DEF Messages

\* What the Plugin thread finds in the next message.
LEMMA MessageParts ==
  ASSUME PipeAssumption, NEW m \in Messages
  PROVE  /\ m.is = "CliPipe" => m.line \in Lines
         /\ m.is = "Answer" => <<m.plugin, m.client>> \in Instances /\ m.change \in Changes
         /\ m.is \in {"ApplyCached", "Update", "Unload"} => m.plugin \in Ids
         /\ m.is = "AddClient" => m.client \in Clients
         /\ m.is = "Unload" => m = Unload(m.plugin)
  BY DEF Messages, CliPipe, Answer, ApplyCached, Update, AddClient, Unload, Message,
         PipeAssumption, Instances, Ids

-----------------------------------------------------------------------------
(* Type correctness. *)

\* The targets of a message, wherever it comes from.
Targets == {T \in SUBSET (Ids \X (Clients \cup {Nobody})) : IsFiniteSet(T)}

\* Deliver appends jobs to queues and items to caches.
LEMMA DeliverType ==
  ASSUME PipeAssumption, TypeOK,
         NEW is \in {"pipe", "event"}, NEW line \in 0 .. MaxLines,
         NEW targets \in Targets, NEW queues \in [Ids -> Seq(Jobs)], NEW ready \in SUBSET Ids,
         Deliver(is, line, targets, queues, ready)
  PROVE  /\ jobs' \in [Ids -> Seq(Jobs)]
         /\ cache' \in [Ids -> Seq(CachedItems)]
         /\ \A p \in Ids : Len(cache'[p]) <= CacheCap
<1> DEFINE clientsOf(p) == {c \in Clients : <<p, c>> \in instances
                                             /\ \E t \in targets : Directed(t, <<p, c>>)}
           newJobs(p) == SetToSeq({Job(is, c, line) : c \in clientsOf(p)})
           copies(p) == Cardinality({t \in targets : t[1] = p})
<1>1. ASSUME NEW p \in Ids PROVE newJobs(p) \in Seq(Jobs)
  <2>1. clientsOf(p) \in SUBSET Clients
    OBVIOUS
  <2> HIDE DEF clientsOf
  <2>2. QED
    BY <2>1, JobsForType
<1>2. ASSUME NEW p \in Ids PROVE Repeat(Cached(is, line), copies(p)) \in Seq(CachedItems)
  <2>1. copies(p) \in Nat
    BY FS_Subset, FS_CardinalityType DEF Targets
  <2>2. Cached(is, line) \in CachedItems
    BY DEF Cached, Job, CachedItems
  <2> HIDE DEF copies
  <2>3. QED
    BY <2>1, <2>2 DEF Repeat
<1>3. jobs' \in [Ids -> Seq(Jobs)]
  <2>1. jobs' = [p \in Ids |-> IF p \in ready THEN queues[p] ELSE queues[p] \o newJobs(p)]
    BY DEF Deliver
  <2> HIDE DEF newJobs
  <2>2. QED
    BY <1>1, <2>1
<1>4. ASSUME NEW p \in Ids
      PROVE  /\ Keep(cache[p], Repeat(Cached(is, line), copies(p))) \in Seq(CachedItems)
             /\ Len(Keep(cache[p], Repeat(Cached(is, line), copies(p)))) <= CacheCap
  BY <1>2, KeepType DEF TypeOK
<1>5. cache' = [p \in Ids |-> IF p \in ready
                                 THEN Keep(cache[p], Repeat(Cached(is, line), copies(p)))
                                 ELSE cache[p]]
  BY DEF Deliver
<1> HIDE DEF copies
<1>6. QED
  BY <1>3, <1>4, <1>5 DEF TypeOK

\* Flushed makes jobs of what is cached.
LEMMA FlushedType ==
  ASSUME PipeAssumption, TypeOK, NEW p \in Ids
  PROVE  Flushed(p) \in Seq(Jobs)
<1> DEFINE S == {c \in connected : <<p, c>> \in instances}
           clients == SetToSeq(S)
           n == Len(cache[p])
<1>1. clients \in Seq(Clients)
  <2>1. S \subseteq Clients /\ IsFiniteSet(S)
    BY FS_Subset DEF PipeAssumption, TypeOK
  <2>2. clients \in Seq(S)
    BY <2>1, SetToSeqType
  <2>3. S \subseteq Clients
    BY <2>1
  <2> HIDE DEF S, clients
  <2>4. QED
    BY <2>2, <2>3, SeqMonotonic
<1>2. cache[p] \in Seq(CachedItems) /\ n \in Nat
  BY DEF TypeOK
<1>3. Flushed(p) = [k \in 1 .. n * Len(clients) |->
                      [cache[p][((k - 1) % n) + 1] EXCEPT !.client =
                         clients[((k - 1) \div n) + 1]]]
  BY DEF Flushed
<1> HIDE DEF S, clients, n
<1>4. Len(clients) \in Nat
  BY <1>1
<1>5. ASSUME NEW k \in 1 .. n * Len(clients)
      PROVE  [cache[p][((k - 1) % n) + 1] EXCEPT !.client = clients[((k - 1) \div n) + 1]]
               \in Jobs
  <2>1. ((k - 1) \div n) + 1 \in 1 .. Len(clients) /\ ((k - 1) % n) + 1 \in 1 .. n
    BY <1>2, <1>4, RoundBounds
  <2>2. clients[((k - 1) \div n) + 1] \in Clients
    BY <1>1, <2>1
  <2>3. cache[p][((k - 1) % n) + 1] \in CachedItems
    BY <1>2, <2>1 DEF n
  <2>4. QED
    BY <2>2, <2>3 DEF CachedItems, Jobs
<1>6. n * Len(clients) \in Nat
  BY <1>2, <1>4
<1> DEFINE item(k) == [cache[p][((k - 1) % n) + 1] EXCEPT !.client = clients[((k - 1) \div n) + 1]]
<1>7. Flushed(p) = [k \in 1 .. n * Len(clients) |-> item(k)]
  BY <1>3
<1>8. \A k \in 1 .. n * Len(clients) : item(k) \in Jobs
  BY <1>5
<1> HIDE DEF item
<1>9. [k \in 1 .. n * Len(clients) |-> item(k)] \in [1 .. n * Len(clients) -> Jobs]
  BY <1>8
<1>10. QED
  BY <1>6, <1>7, <1>9

\* An entry keeps its type whatever is marked, answered or unloaded.
LEMMA SettleType ==
  ASSUME PipeAssumption, TypeOK,
         NEW info \in [known : BOOLEAN, blocked : BOOLEAN, by : SUBSET Instances],
         Settle(info)
  PROVE  /\ pending' \in [known : BOOLEAN, blocked : BOOLEAN, by : SUBSET Instances]
         /\ unblocks' \in Nat
  BY DEF Settle, Remaining, Unknown, TypeOK

\* Handing over a line keeps the types of what it changes.
LEMMA PipeToType ==
  ASSUME PipeAssumption, TypeOK, NEW line \in Lines,
         NEW targets \in Targets, NEW queues \in [Ids -> Seq(Jobs)], NEW ready \in SUBSET Ids,
         PipeTo(line, targets, queues, ready)
  PROVE  /\ jobs' \in [Ids -> Seq(Jobs)]
         /\ cache' \in [Ids -> Seq(CachedItems)]
         /\ \A p \in Ids : Len(cache'[p]) <= CacheCap
         /\ loading' \in SUBSET Ids
         /\ pending' \in [known : BOOLEAN, blocked : BOOLEAN, by : SUBSET Instances]
<1>1. line \in 0 .. MaxLines
  BY DEF Lines
<1>2. Deliver("pipe", line, targets, queues, ready)
  BY DEF PipeTo
<1>3. MarkedFor(targets, ready) \subseteq Instances
  BY DEF MarkedFor, TypeOK, Instances
<1>4. pending' \in [known : BOOLEAN, blocked : BOOLEAN, by : SUBSET Instances]
  BY <1>3 DEF PipeTo, Mark, TypeOK
<1>5. loading' \in SUBSET Ids
  BY DEF PipeTo
<1>6. QED
  BY <1>1, <1>2, <1>4, <1>5, DeliverType

\* What instances make targets, and what one plugin makes.
LEMMA TargetTypes ==
  ASSUME PipeAssumption
  PROVE  /\ SUBSET Instances \subseteq Targets
         /\ \A p \in Ids, c \in Clients \cup {Nobody} : {<<p, c>>} \in Targets
<1>1. SUBSET Instances \subseteq Targets
  BY InstancesFinite DEF Targets, Instances
<1>2. \A p \in Ids, c \in Clients \cup {Nobody} : {<<p, c>>} \in Targets
  <2>1. TAKE p \in Ids, c \in Clients \cup {Nobody}
  <2>2. <<p, c>> \in Ids \X (Clients \cup {Nobody})
    OBVIOUS
  <2>3. {<<p, c>>} \subseteq Ids \X (Clients \cup {Nobody})
    BY <2>2
  <2>4. IsFiniteSet({<<p, c>>})
    BY FS_Singleton
  <2>5. QED
    BY <2>3, <2>4 DEF Targets
<1>3. QED
  BY <1>1, <1>2

\* Taking the next message leaves a channel of messages.
LEMMA ReceiveType ==
  ASSUME PipeAssumption, TypeOK, NEW kind, ReceiveNext(kind)
  PROVE  Head(inbox) \in Messages /\ Head(inbox).is = kind /\ inbox' \in Seq(Messages)
  BY DEF ReceiveNext, TypeOK

\* The empty sequence is a cache within its cap.
LEMMA EmptyType ==
  ASSUME PipeAssumption
  PROVE  <<>> \in Seq(CachedItems) /\ Len(<<>>) = 0 /\ Len(<<>>) <= CacheCap
<1>1. <<>> \in Seq(CachedItems) /\ Len(<<>>) = 0
  OBVIOUS
<1>2. CacheCap \in Nat
  BY DEF PipeAssumption
<1>3. QED
  BY <1>1, <1>2

\* Emptying one plugin's cache leaves the caches typed and capped.
LEMMA ClearType ==
  ASSUME PipeAssumption, TypeOK, NEW p, cache' = [cache EXCEPT ![p] = <<>>]
  PROVE  cache' \in [Ids -> Seq(CachedItems)] /\ \A q \in Ids : Len(cache'[q]) <= CacheCap
<1>1. \A q \in Ids : cache'[q] = IF q = p THEN <<>> ELSE cache[q]
  BY DEF TypeOK
<1>2. cache' = [q \in Ids |-> cache'[q]]
  BY DEF TypeOK
<1>3. \A q \in Ids : cache'[q] \in Seq(CachedItems) /\ Len(cache'[q]) <= CacheCap
  BY <1>1, EmptyType DEF TypeOK
<1>4. QED
  BY <1>2, <1>3

\* Every step keeps the types.
LEMMA TypeStep ==
  ASSUME PipeAssumption, TypeOK, [Next]_vars
  PROVE  TypeOK'
<1> USE DEF threadVars
<1>1. CASE SendLine
  <2>1. cli.line + 1 \in Lines
    BY <1>1 DEF SendLine, TypeOK, Lines, PipeAssumption
  <2>2. inbox' \in Seq(Messages)
    BY <1>1, <2>1, MessageTypes DEF SendLine, TypeOK
  <2>3. cli' \in [line : 0 .. MaxLines, waiting : BOOLEAN]
    BY <1>1, <2>1 DEF SendLine, TypeOK, Lines
  <2>4. QED
    BY <1>1, <2>2, <2>3 DEF SendLine, TypeOK
<1>2. CASE TakeUnblock
  <2>1. unblocks \in Nat /\ unblocks > 0 /\ unblocks' = unblocks - 1
    BY <1>2 DEF TakeUnblock, TypeOK
  <2>2. unblocks' \in Nat
    BY <2>1
  <2>3. cli' \in [line : 0 .. MaxLines, waiting : BOOLEAN]
    BY <1>2 DEF TakeUnblock, TypeOK
  <2>4. QED
    BY <1>2, <2>2, <2>3 DEF TakeUnblock, TypeOK
<1>3. CASE AskAttach
  <2>1. inbox' \in Seq(Messages)
    BY <1>3, MessageTypes DEF AskAttach, Ask, TypeOK
  <2>2. QED
    BY <1>3, <2>1 DEF AskAttach, Ask, TypeOK
<1>4. CASE AskUnload
  <2>1. inbox' \in Seq(Messages)
    BY <1>4, MessageTypes DEF AskUnload, Ask, TypeOK
  <2>2. QED
    BY <1>4, <2>1 DEF AskUnload, Ask, TypeOK
<1>5. CASE SendEvent
  <2>1. 1 .. nextId - 1 \subseteq Ids
    BY DEF TypeOK, Ids, PipeAssumption
  <2>2. inbox' \in Seq(Messages)
    BY <1>5, <2>1, MessageTypes DEF SendEvent, TypeOK
  <2>3. QED
    BY <1>5, <2>2 DEF SendEvent, TypeOK, PipeAssumption
<1>6. CASE HandleCliPipe
  <2>1. Head(inbox) \in Messages /\ Head(inbox).is = "CliPipe" /\ inbox' \in Seq(Messages)
    BY <1>6, ReceiveType DEF HandleCliPipe
  <2>2. Head(inbox).line \in Lines
    BY <2>1, MessageParts
  <2>3. ASSUME PipeTo(Head(inbox).line, instances, jobs, loading),
               UNCHANGED <<known, nextId>>
        PROVE  TypeOK'
    <3>1. instances \in Targets
      BY TargetTypes DEF TypeOK
    <3>2. QED
      BY <1>6, <2>1, <2>2, <2>3, <3>1, PipeToType DEF HandleCliPipe, TypeOK
  <2>4. ASSUME PipeToPlugin(Head(inbox).line)
        PROVE  TypeOK'
    <3>1. known' \in SUBSET Instances /\ FreshMap \in Targets
      BY <2>4, TargetTypes DEF PipeToPlugin, FreshMap, TypeOK
    <3>2. CASE PipeTo(Head(inbox).line, FreshMap, jobs, loading) /\ UNCHANGED nextId
      BY <1>6, <2>1, <2>2, <3>1, <3>2, PipeToType DEF HandleCliPipe, TypeOK
    <3>3. CASE /\ \E p \in loading : PipeTo(Head(inbox).line, {<<p, Nobody>>}, jobs, loading)
               /\ UNCHANGED nextId
      <4>1. PICK p \in loading : PipeTo(Head(inbox).line, {<<p, Nobody>>}, jobs, loading)
        BY <3>3
      <4>2. {<<p, Nobody>>} \in Targets
        BY TargetTypes DEF TypeOK
      <4>3. QED
        BY <1>6, <2>1, <2>2, <3>1, <3>3, <4>1, <4>2, PipeToType DEF HandleCliPipe, TypeOK
    <3>4. CASE /\ nextId <= LastId
               /\ \E c \in connected :
                    PipeTo(Head(inbox).line, {<<nextId, c>>},
                           [jobs EXCEPT ![nextId] = Append(@, Job("load", c, 0))], {nextId})
               /\ nextId' = nextId + 1
      <4>1. PICK c \in connected :
                 PipeTo(Head(inbox).line, {<<nextId, c>>},
                        [jobs EXCEPT ![nextId] = Append(@, Job("load", c, 0))], {nextId})
        BY <3>4
      <4>2. nextId \in Ids /\ nextId' \in 1 .. LastId + 1
        BY <3>4 DEF TypeOK, Ids, PipeAssumption
      <4>3. {<<nextId, c>>} \in Targets
        BY <4>2, TargetTypes DEF TypeOK
      <4>4. Job("load", c, 0) \in Jobs
        BY DEF Job, Jobs, TypeOK, PipeAssumption
      <4>5. [jobs EXCEPT ![nextId] = Append(@, Job("load", c, 0))] \in [Ids -> Seq(Jobs)]
        BY <4>2, <4>4 DEF TypeOK
      <4> DEFINE queues == [jobs EXCEPT ![nextId] = Append(@, Job("load", c, 0))]
      <4>6. {nextId} \in SUBSET Ids
        BY <4>2
      <4>7. PipeTo(Head(inbox).line, {<<nextId, c>>}, queues, {nextId})
        BY <4>1
      <4>8. queues \in [Ids -> Seq(Jobs)]
        BY <4>5
      <4> HIDE DEF queues
      <4>9. /\ jobs' \in [Ids -> Seq(Jobs)]
            /\ cache' \in [Ids -> Seq(CachedItems)]
            /\ \A p \in Ids : Len(cache'[p]) <= CacheCap
            /\ loading' \in SUBSET Ids
            /\ pending' \in [known : BOOLEAN, blocked : BOOLEAN, by : SUBSET Instances]
        BY <2>2, <4>3, <4>6, <4>7, <4>8, PipeToType
      <4>10. QED
        BY <1>6, <2>1, <3>1, <4>2, <4>9 DEF HandleCliPipe, TypeOK
    <3>5. QED
      BY <2>4, <3>2, <3>3, <3>4 DEF PipeToPlugin
  <2>5. QED
    BY <1>6, <2>3, <2>4 DEF HandleCliPipe
<1>7. CASE HandleUpdate
  <2>1. Head(inbox) \in Messages /\ Head(inbox).is = "Update" /\ inbox' \in Seq(Messages)
    BY <1>7, ReceiveType DEF HandleUpdate
  <2>2. {<<Head(inbox).plugin, Nobody>>} \in Targets
    BY <2>1, MessageParts, TargetTypes
  <2>3. 0 \in 0 .. MaxLines /\ jobs \in [Ids -> Seq(Jobs)] /\ loading \in SUBSET Ids
    BY DEF TypeOK, PipeAssumption
  <2>4. Deliver("event", 0, {<<Head(inbox).plugin, Nobody>>}, jobs, loading)
    BY <1>7 DEF HandleUpdate
  <2>5. QED
    BY <1>7, <2>1, <2>2, <2>3, <2>4, DeliverType DEF HandleUpdate, TypeOK
<1>8. CASE HandleAnswer
  <2>1. Head(inbox) \in Messages /\ Head(inbox).is = "Answer" /\ inbox' \in Seq(Messages)
    BY <1>8, ReceiveType DEF HandleAnswer
  <2> DEFINE info == IF pending.known
                       THEN UpdateInfo(pending, Head(inbox).change,
                                       <<Head(inbox).plugin, Head(inbox).client>>)
                       ELSE Unknown
  <2>2. info \in [known : BOOLEAN, blocked : BOOLEAN, by : SUBSET Instances]
    BY DEF UpdateInfo, Unknown, TypeOK
  <2>3. Settle(info)
    BY <1>8 DEF HandleAnswer
  <2> HIDE DEF info
  <2>4. QED
    BY <1>8, <2>1, <2>2, <2>3, SettleType DEF HandleAnswer, TypeOK
<1>9. CASE HandleApplyCached
  <2>1. Head(inbox) \in Messages /\ Head(inbox).is = "ApplyCached" /\ inbox' \in Seq(Messages)
    BY <1>9, ReceiveType DEF HandleApplyCached
  <2>2. Head(inbox).plugin \in Ids
    BY <2>1, MessageParts
  <2>3. Flushed(Head(inbox).plugin) \in Seq(Jobs)
    BY <2>2, FlushedType
  <2>4. jobs' \in [Ids -> Seq(Jobs)]
    BY <1>9, <2>2, <2>3 DEF HandleApplyCached, TypeOK
  <2>5. cache' \in [Ids -> Seq(CachedItems)] /\ \A p \in Ids : Len(cache'[p]) <= CacheCap
    BY <1>9, ClearType DEF HandleApplyCached
  <2>6. QED
    BY <1>9, <2>1, <2>4, <2>5 DEF HandleApplyCached, TypeOK
<1>10. CASE HandleAddClient
  <2>1. Head(inbox) \in Messages /\ Head(inbox).is = "AddClient" /\ inbox' \in Seq(Messages)
    BY <1>10, ReceiveType DEF HandleAddClient
  <2>2. Head(inbox).client \in Clients
    BY <2>1, MessageParts
  <2>3. Job("attach", Head(inbox).client, 0) \in Jobs
    BY <2>2 DEF Job, Jobs, PipeAssumption
  <2> DEFINE c == Head(inbox).client
             plugins == {i[1] : i \in instances}
             newJobs == [p \in Ids |-> IF p \in plugins THEN Append(jobs[p], Job("attach", c, 0))
                                                        ELSE jobs[p]]
             emptied == [p \in Ids |-> IF p \in plugins THEN <<>> ELSE cache[p]]
  <2>4. newJobs \in [Ids -> Seq(Jobs)]
    <3>1. \A p \in Ids : Append(jobs[p], Job("attach", c, 0)) \in Seq(Jobs)
      BY <2>3 DEF TypeOK
    <3>2. QED
      BY <3>1 DEF TypeOK
  <2>5. emptied \in [Ids -> Seq(CachedItems)] /\ \A p \in Ids : Len(emptied[p]) <= CacheCap
    BY EmptyType DEF TypeOK
  <2>6. plugins \subseteq Ids
    BY SMTT(30) DEF TypeOK, Instances
  <2>7. CASE c \in connected
    <3>1. UNCHANGED <<jobs, cache, loading, connected>>
      BY <1>10, <2>7 DEF HandleAddClient
    <3>2. QED
      BY <1>10, <2>1, <3>1 DEF HandleAddClient, TypeOK
  <2>8. CASE c \notin connected
    <3>1. /\ jobs' = newJobs /\ cache' = emptied
          /\ loading' = loading \cup plugins /\ connected' = connected \cup {c}
      BY <1>10, <2>8 DEF HandleAddClient
    <3> HIDE DEF newJobs, emptied, plugins
    <3>2. loading' \subseteq Ids /\ connected' \subseteq Clients
      BY <2>2, <2>6, <3>1 DEF TypeOK
    <3>3. QED
      BY <1>10, <2>1, <2>4, <2>5, <3>1, <3>2 DEF HandleAddClient, TypeOK
  <2>9. QED
    BY <2>7, <2>8
<1>11. CASE HandleUnload
  <2>1. Head(inbox) \in Messages /\ Head(inbox).is = "Unload" /\ inbox' \in Seq(Messages)
    BY <1>11, ReceiveType DEF HandleUnload
  <2>2. cache' \in [Ids -> Seq(CachedItems)] /\ \A p \in Ids : Len(cache'[p]) <= CacheCap
    BY <1>11, ClearType DEF HandleUnload
  <2>3. UnloadInfo(pending, Head(inbox).plugin)
          \in [known : BOOLEAN, blocked : BOOLEAN, by : SUBSET Instances]
    BY DEF UnloadInfo, TypeOK
  <2>4. /\ pending' \in [known : BOOLEAN, blocked : BOOLEAN, by : SUBSET Instances]
        /\ unblocks' \in Nat
    BY <1>11, <2>3, SettleType DEF HandleUnload, TypeOK
  <2>5. QED
    BY <1>11, <2>1, <2>2, <2>4 DEF HandleUnload, TypeOK
<1>12. ASSUME NEW p \in Ids, RunLoad(p) PROVE TypeOK'
  <2>1. NextJob(p) \in Jobs /\ jobs' \in [Ids -> Seq(Jobs)]
    BY <1>12 DEF RunLoad, NextJob, TypeOK
  <2>2. inbox' \in Seq(Messages)
    <3>1. inbox' \in {inbox, Append(inbox, ApplyCached(p))}
      BY <1>12 DEF RunLoad
    <3>2. ApplyCached(p) \in Messages
      BY MessageTypes
    <3>3. inbox \in Seq(Messages)
      BY DEF TypeOK
    <3>4. Append(inbox, ApplyCached(p)) \in Seq(Messages)
      BY <3>2, <3>3
    <3>5. QED
      BY <3>1, <3>3, <3>4
  <2>3. instances' \subseteq Instances
    <3>1. NextJob(p).client \in Clients /\ connected \subseteq Clients
      BY <2>1 DEF Jobs, TypeOK
    <3>2. {p} \X (Clients \cup {NextJob(p).client}) \subseteq Instances
      BY <3>1 DEF Instances
    <3>3. \A others \in SUBSET Clients :
             instances \cup ({p} \X ({NextJob(p).client} \cup others)) \subseteq Instances
      BY <3>2 DEF TypeOK
    <3>4. \/ instances' = instances
          \/ \E others \in SUBSET Clients :
               instances' = instances \cup ({p} \X ({NextJob(p).client} \cup others))
      <4> DEFINE others == IF NextJob(p).is = "load" THEN connected ELSE {}
      <4>1. \/ instances' = instances
            \/ instances' = instances \cup ({p} \X ({NextJob(p).client} \cup others))
        BY <1>12 DEF RunLoad
      <4>2. others \in SUBSET Clients
        BY <3>1
      <4> HIDE DEF others
      <4>3. QED
        BY <4>1, <4>2
    <3>5. QED
      BY <3>3, <3>4 DEF TypeOK
  <2>4. QED
    BY <1>12, <2>1, <2>2, <2>3 DEF RunLoad, TypeOK
<1>13. ASSUME NEW p \in Ids, RunPlugin(p) PROVE TypeOK'
  <2>1. NextJob(p) \in Jobs /\ jobs' \in [Ids -> Seq(Jobs)]
    BY <1>13 DEF RunPlugin, NextJob, TypeOK
  <2>2. inbox' \in Seq(Messages) /\ screen' \in Seq(Messages)
    <3>1. PICK change \in Answers(p, NextJob(p)) :
            IF change = "none" THEN UNCHANGED <<inbox, screen>>
            ELSE \/ /\ screen' = Append(screen, Answer(<<p, NextJob(p).client>>, change))
                    /\ UNCHANGED inbox
                 \/ /\ inbox' = Append(inbox, Answer(<<p, NextJob(p).client>>, change))
                    /\ UNCHANGED screen
      BY <1>13 DEF RunPlugin
    <3>2. change # "none" => change \in Changes
      BY DEF Answers, Changes, PipeAssumption
    <3>3. <<p, NextJob(p).client>> \in Instances
      BY <2>1 DEF Jobs, Instances
    <3>4. change # "none" => Answer(<<p, NextJob(p).client>>, change) \in Messages
      BY <3>2, <3>3, MessageTypes
    <3>5. inbox \in Seq(Messages) /\ screen \in Seq(Messages)
      BY DEF TypeOK
    <3> DEFINE answer == Answer(<<p, NextJob(p).client>>, change)
    <3>6. CASE change = "none"
      BY <3>1, <3>5, <3>6
    <3>7. CASE change # "none"
      <4>1. answer \in Messages
        BY <3>4, <3>7
      <4>2. \/ screen' = Append(screen, answer) /\ inbox' = inbox
            \/ inbox' = Append(inbox, answer) /\ screen' = screen
        BY <3>1, <3>7
      <4> HIDE DEF answer
      <4>3. Append(screen, answer) \in Seq(Messages) /\ Append(inbox, answer) \in Seq(Messages)
        BY <3>5, <4>1
      <4>4. QED
        BY <3>5, <4>2, <4>3
    <3>8. QED
      BY <3>6, <3>7
  <2>3. QED
    BY <1>13, <2>1, <2>2 DEF RunPlugin, TypeOK
<1>14. ASSUME NEW p \in Ids, PluginCrashes(p) PROVE TypeOK'
  BY <1>14 DEF PluginCrashes, TypeOK
<1>15. CASE ScreenForwards
  BY <1>15 DEF ScreenForwards, TypeOK
<1>16. CASE UNCHANGED vars
  BY <1>16 DEF vars, TypeOK
<1>17. QED
  BY <1>1, <1>2, <1>3, <1>4, <1>5, <1>6, <1>7, <1>8, <1>9, <1>10, <1>11, <1>12, <1>13, <1>14,
     <1>15, <1>16
  DEF Next, PluginThread

\* The initial state has its types.
LEMMA InitType ==
  ASSUME PipeAssumption, Init
  PROVE  TypeOK
<1>1. jobs \in [Ids -> Seq(Jobs)]
  BY DEF Init
<1>2. cache \in [Ids -> Seq(CachedItems)] /\ \A p \in Ids : Len(cache[p]) <= CacheCap
  BY EmptyType DEF Init
<1>3. (1 .. Running) \X Connected \subseteq Instances
  <2>1. LastId \in Nat /\ Running \in 0 .. LastId /\ Connected \subseteq Clients
    BY DEF PipeAssumption
  <2>2. 1 .. Running \subseteq 1 .. LastId
    BY <2>1
  <2>3. QED
    BY <2>1, <2>2 DEF Instances, Ids
<1>6. nextId \in 1 .. LastId + 1
  <2>1. LastId \in Nat /\ Running \in 0 .. LastId /\ nextId = Running + 1
    BY DEF Init, PipeAssumption
  <2>2. QED
    BY <2>1
<1>4. inbox \in Seq(Messages) /\ screen \in Seq(Messages)
  BY DEF Init
<1>5. /\ cli \in [line : 0 .. MaxLines, waiting : BOOLEAN]
      /\ unblocks \in Nat /\ events \in 0 .. MaxEvents
  BY DEF Init, PipeAssumption
<1>7. QED
  BY <1>1, <1>2, <1>3, <1>4, <1>5, <1>6 DEF Init, TypeOK, Unknown, PipeAssumption

\* Every variable keeps its type.  In particular cache_plugin_message never lets
\* a plugin's cached_events_for_pending_plugins outgrow its cap, whatever is
\* piped or sent to the plugin while it loads.
THEOREM TypeCorrect == Spec => []TypeOK
<1>1. Init => TypeOK
  BY PipeAssumption, InitType
<1>2. TypeOK /\ [Next]_vars => TypeOK'
  BY PipeAssumption, TypeStep
<1>3. QED
  BY <1>1, <1>2, PTL DEF Spec

-----------------------------------------------------------------------------
(* Unloading frees the pipes.  A plugin whose unload was handled is gone:   *)
(* it has no jobs, nothing counts it as running or loading, and so no line  *)
(* can be marked as being processed by it any more.                         *)

EntryMeant ==
  /\ pending.known => ~Released(pending)
  /\ ~pending.known => pending.by = {}

Gone(p) ==
  /\ p < nextId /\ p \notin loading /\ jobs[p] = <<>>
  /\ \A i \in instances : i[1] # p
  /\ \A i \in known : i[1] # p
  /\ \A i \in pending.by : i[1] # p

IInv ==
  /\ TypeOK
  /\ EntryMeant
  /\ \A p \in Ids : <<"unload", p>> \in asked => p < nextId
  /\ \A p \in Ids : Unloaded(p) => Gone(p)

\* A queue that grows or loses its head still holds its other messages.
LEMMA HoldsStays ==
  ASSUME NEW S, NEW queue \in Seq(S), NEW item, Holds(queue, item)
  PROVE  /\ \A x \in S : Holds(Append(queue, x), item)
         /\ queue # <<>> /\ Head(queue) # item => Holds(Tail(queue), item)
<1>1. PICK k \in 1 .. Len(queue) : queue[k] = item
  BY DEF Holds
<1>2. \A x \in S : Holds(Append(queue, x), item)
  <2>1. TAKE x \in S
  <2>2. k \in DOMAIN Append(queue, x) /\ Append(queue, x)[k] = item
    BY <1>1
  <2>3. QED
    BY <2>2 DEF Holds
<1>3. ASSUME queue # <<>>, Head(queue) # item PROVE Holds(Tail(queue), item)
  <2>1. k # 1
    BY <1>1, <1>3
  <2>2. k - 1 \in 1 .. Len(queue) - 1 /\ (k - 1) + 1 = k
    BY <1>1, <2>1
  <2>3. k - 1 \in DOMAIN Tail(queue) /\ Tail(queue)[k - 1] = item
    BY <1>1, <1>3, <2>2
  <2>4. QED
    BY <2>3 DEF Holds
<1>4. QED
  BY <1>2, <1>3

\* The item that was appended is there.
LEMMA HoldsLast ==
  ASSUME NEW S, NEW queue \in Seq(S), NEW item
  PROVE  Holds(Append(queue, item), item)
<1>1. Len(queue) + 1 \in DOMAIN Append(queue, item)
  OBVIOUS
<1>2. Append(queue, item)[Len(queue) + 1] = item
  OBVIOUS
<1>3. QED
  BY <1>1, <1>2 DEF Holds

\* An unload leaves the channel only by being handled.
LEMMA UnloadWaits ==
  ASSUME PipeAssumption, TypeOK, TypeOK', [Next]_vars, NEW p \in Ids,
         Holds(inbox, Unload(p)), ~Holds(inbox', Unload(p))
  PROVE  HandleUnload /\ Head(inbox).plugin = p
<1>1. inbox \in Seq(Messages) /\ screen \in Seq(Messages)
  BY DEF TypeOK
<1>2. ASSUME NEW x \in Messages, inbox' = Append(inbox, x) PROVE FALSE
  BY <1>1, <1>2, HoldsStays
<1>3. ASSUME inbox' = inbox PROVE FALSE
  BY <1>3
<1>4. ASSUME NEW kind, ReceiveNext(kind) PROVE kind = "Unload" /\ Head(inbox).plugin = p
  <2>1. Head(inbox) = Unload(p)
    BY <1>1, <1>4, HoldsStays DEF ReceiveNext
  <2>2. QED
    BY <1>4, <2>1 DEF ReceiveNext, Unload, Message
<1>5. CASE SendLine
  <2>1. cli.line + 1 \in Lines
    BY <1>5 DEF SendLine, TypeOK, Lines, PipeAssumption
  <2>2. QED
    BY <1>2, <1>5, <2>1, MessageTypes DEF SendLine
<1>6. CASE AskAttach
  BY <1>2, <1>6, MessageTypes DEF AskAttach, Ask
<1>7. CASE AskUnload
  BY <1>2, <1>7, MessageTypes DEF AskUnload, Ask
<1>8. CASE SendEvent
  <2>1. 1 .. nextId - 1 \subseteq Ids
    BY DEF TypeOK, Ids, PipeAssumption
  <2>2. QED
    BY <1>2, <1>8, <2>1, MessageTypes DEF SendEvent
<1>9. CASE PluginThread
  BY <1>4, <1>9 DEF PluginThread, HandleCliPipe, HandleUpdate, HandleAnswer, HandleApplyCached,
                    HandleAddClient, HandleUnload
<1>10. ASSUME NEW q \in Ids, RunLoad(q) PROVE FALSE
  <2>1. inbox' \in {inbox, Append(inbox, ApplyCached(q))}
    BY <1>10 DEF RunLoad
  <2>2. ApplyCached(q) \in Messages
    BY MessageTypes
  <2>3. QED
    BY <1>2, <1>3, <2>1, <2>2
<1>11. ASSUME NEW q \in Ids, RunPlugin(q) PROVE FALSE
  <2>1. inbox' = inbox \/ \E x : inbox' = Append(inbox, x)
    BY <1>11 DEF RunPlugin
  <2>2. \A x : inbox' = Append(inbox, x) => x \in Messages
    <3>1. TAKE x
    <3>2. HAVE inbox' = Append(inbox, x)
    <3>3. inbox' \in Seq(Messages)
      BY DEF TypeOK
    <3>4. Len(inbox) + 1 \in 1 .. Len(inbox') /\ inbox'[Len(inbox) + 1] = x
      BY <1>1, <3>2
    <3>5. QED
      BY <3>3, <3>4
  <2>3. QED
    BY <1>2, <1>3, <2>1, <2>2
<1>12. CASE ScreenForwards
  <2>1. Head(screen) \in Messages
    BY <1>1, <1>12 DEF ScreenForwards
  <2>2. QED
    BY <1>2, <1>12, <2>1 DEF ScreenForwards
<1>13. CASE TakeUnblock \/ (\E q \in Ids : PluginCrashes(q)) \/ UNCHANGED vars
  BY <1>3, <1>13 DEF TakeUnblock, PluginCrashes, vars
<1>14. QED
  BY <1>5, <1>6, <1>7, <1>8, <1>9, <1>10, <1>11, <1>12, <1>13 DEF Next

\* Only handling an unload makes a plugin count as unloaded.
LEMMA UnloadedBefore ==
  ASSUME PipeAssumption, TypeOK, TypeOK', [Next]_vars, NEW p \in Ids, Unloaded(p)'
  PROVE  Unloaded(p) \/ (HandleUnload /\ Head(inbox).plugin = p)
<1>1. <<"unload", p>> \in asked' /\ ~Holds(inbox', Unload(p))
  BY DEF Unloaded
<1>2. ASSUME Holds(inbox, Unload(p)) PROVE HandleUnload /\ Head(inbox).plugin = p
  BY <1>1, <1>2, UnloadWaits
<1>3. <<"unload", p>> \in asked
  <2>1. CASE AskUnload
    <3>1. PICK q \in Unloads : Ask(Unload(q), <<"unload", q>>)
      BY <2>1 DEF AskUnload
    <3>2. Holds(inbox', Unload(q))
      BY <3>1, HoldsLast DEF Ask, TypeOK
    <3>3. q # p
      BY <1>1, <3>2
    <3>4. QED
      BY <1>1, <3>1, <3>3 DEF Ask
  <2>2. CASE AskAttach
    BY <1>1, <2>2 DEF AskAttach, Ask
  <2>3. CASE ~AskUnload /\ ~AskAttach
    <3>1. asked' = asked
      BY <2>3 DEF Next, SendLine, TakeUnblock, SendEvent, PluginThread, HandleCliPipe, HandleUpdate,
                  HandleAnswer, HandleApplyCached, HandleAddClient, HandleUnload, RunLoad, RunPlugin,
                  PluginCrashes, ScreenForwards, vars
    <3>2. QED
      BY <1>1, <3>1
  <2>4. QED
    BY <2>1, <2>2, <2>3
<1>4. QED
  BY <1>2, <1>3 DEF Unloaded

\* The entry stays meant: it is removed as soon as nothing holds the pipe.
LEMMA EntryStep ==
  ASSUME TypeOK, EntryMeant, [Next]_vars
  PROVE  EntryMeant'
<1>1. ASSUME NEW info, Settle(info), ~info.known => info = Unknown PROVE EntryMeant'
  BY <1>1 DEF Settle, Remaining, Released, Unknown, EntryMeant
<1>2. ASSUME NEW line, NEW targets, NEW queues, NEW ready, PipeTo(line, targets, queues, ready)
      PROVE  EntryMeant'
  BY <1>2 DEF PipeTo, Mark, EntryMeant, Released, TypeOK
<1>3. ASSUME UNCHANGED pending PROVE EntryMeant'
  BY <1>3 DEF EntryMeant, Released
<1>4. CASE HandleCliPipe
  BY <1>2, <1>4 DEF HandleCliPipe, PipeToPlugin
<1>5. CASE HandleAnswer
  <2>1. PICK info : /\ Settle(info)
                    /\ info = IF pending.known
                                THEN UpdateInfo(pending, Head(inbox).change,
                                                <<Head(inbox).plugin, Head(inbox).client>>)
                                ELSE Unknown
    BY <1>5 DEF HandleAnswer
  <2>2. ~info.known => info = Unknown
    BY <2>1 DEF UpdateInfo, TypeOK
  <2>3. QED
    BY <1>1, <2>1, <2>2
<1>6. CASE HandleUnload
  <2>1. CASE pending.known
    <3>1. Settle(UnloadInfo(pending, Head(inbox).plugin))
      BY <1>6, <2>1 DEF HandleUnload
    <3>2. UnloadInfo(pending, Head(inbox).plugin).known
      BY <2>1 DEF UnloadInfo, TypeOK
    <3>3. QED
      BY <1>1, <3>1, <3>2
  <2>2. QED
    BY <1>3, <1>6, <2>1 DEF HandleUnload
<1>7. CASE ~HandleCliPipe /\ ~HandleAnswer /\ ~HandleUnload
  <2>1. UNCHANGED pending
    BY <1>7 DEF Next, SendLine, TakeUnblock, AskAttach, AskUnload, Ask, SendEvent, PluginThread,
                HandleUpdate, HandleApplyCached, HandleAddClient, RunLoad, RunPlugin, PluginCrashes,
                ScreenForwards, vars, threadVars
  <2>2. QED
    BY <1>3, <2>1
<1>8. QED
  BY <1>4, <1>5, <1>6, <1>7

\* Nothing is listed for no instance.
LEMMA SetToSeqEmpty == SetToSeq({}) = <<>>
<1>1. SetToSeq({}) \in Seq({})
  BY FS_EmptySet, SetToSeqType
<1>2. QED
  BY <1>1

\* A message gives no job to a plugin that has no instance.
LEMMA DeliverSkips ==
  ASSUME NEW is, NEW line, NEW targets, NEW queues, NEW ready, NEW p \in Ids,
         Deliver(is, line, targets, queues, ready), queues[p] = <<>>,
         \A i \in instances : i[1] # p
  PROVE  jobs'[p] = <<>>
<1> DEFINE clientsOf == {c \in Clients : <<p, c>> \in instances
                                          /\ \E t \in targets : Directed(t, <<p, c>>)}
           newJobs == SetToSeq({Job(is, c, line) : c \in clientsOf})
<1>1. jobs'[p] = IF p \in ready THEN queues[p] ELSE queues[p] \o newJobs
  BY DEF Deliver
<1>2. clientsOf = {}
  OBVIOUS
<1>3. {Job(is, c, line) : c \in clientsOf} = {}
  BY <1>2
<1>4. newJobs = <<>>
  BY <1>3, SetToSeqEmpty
<1> HIDE DEF newJobs, clientsOf
<1>5. QED
  BY <1>1, <1>4

\* A line is handed to no plugin that is gone, and marks no instance of it.
LEMMA PipeSkips ==
  ASSUME TypeOK, NEW line, NEW targets, NEW queues, NEW ready, NEW p \in Ids,
         PipeTo(line, targets, queues, ready), queues[p] = <<>>, p \notin ready, Gone(p)
  PROVE  jobs'[p] = <<>> /\ p \notin loading' /\ \A i \in pending'.by : i[1] # p
<1>1. jobs'[p] = <<>>
  BY DeliverSkips DEF PipeTo, Gone
<1>2. \A i \in MarkedFor(targets, ready) : i[1] # p
  BY DEF MarkedFor, Gone
<1>3. pending'.by \subseteq pending.by \cup MarkedFor(targets, ready)
  BY DEF PipeTo, Mark, TypeOK
<1>4. QED
  BY <1>1, <1>2, <1>3 DEF PipeTo, Gone

\* A plugin without instances gets nothing from its cache.
LEMMA FlushedEmpty ==
  ASSUME PipeAssumption, TypeOK, NEW p \in Ids, \A i \in instances : i[1] # p
  PROVE  Flushed(p) = <<>>
<1> DEFINE clients == SetToSeq({c \in connected : <<p, c>> \in instances})
           item(k) == [cache[p][((k - 1) % Len(cache[p])) + 1]
                         EXCEPT !.client = clients[((k - 1) \div Len(cache[p])) + 1]]
<1>1. {c \in connected : <<p, c>> \in instances} = {}
  OBVIOUS
<1>2. Len(clients) = 0
  <2>1. clients = SetToSeq({})
    BY <1>1
  <2> HIDE DEF clients
  <2>2. clients = <<>>
    BY <2>1, SetToSeqEmpty
  <2>3. QED
    BY <2>2
<1>3. Flushed(p) = [k \in 1 .. Len(cache[p]) * Len(clients) |-> item(k)]
  BY DEF Flushed
<1>4. Len(cache[p]) \in Nat
  BY DEF TypeOK
<1>5. 1 .. Len(cache[p]) * Len(clients) = {}
  <2> HIDE DEF clients
  <2>1. Len(cache[p]) * Len(clients) = 0
    BY <1>2, <1>4
  <2>2. QED
    BY <2>1
<1>6. Flushed(p) \in Seq(Jobs) /\ DOMAIN Flushed(p) = {}
  BY <1>3, <1>5, FlushedType
<1>7. QED
  BY <1>6

\* A plugin that is gone stays gone.
LEMMA GoneStays ==
  ASSUME PipeAssumption, TypeOK, [Next]_vars, NEW p \in Ids, Gone(p)
  PROVE  Gone(p)'
<1> USE DEF threadVars
<1>1. /\ p < nextId /\ p \notin loading /\ jobs[p] = <<>>
      /\ \A i \in instances : i[1] # p
      /\ \A i \in known : i[1] # p
      /\ \A i \in pending.by : i[1] # p
  BY DEF Gone
<1>2. CASE HandleCliPipe
  <2> DEFINE line == Head(inbox).line
  <2>1. ASSUME PipeTo(line, instances, jobs, loading), UNCHANGED <<known, nextId>>
        PROVE  Gone(p)'
    BY <1>1, <1>2, <2>1, PipeSkips DEF HandleCliPipe, Gone
  <2>2. ASSUME PipeToPlugin(line)
        PROVE  Gone(p)'
    <3>1. \A i \in known' : i[1] # p
      BY <1>1, <2>2 DEF PipeToPlugin, FreshMap
    <3>2. ASSUME NEW targets, PipeTo(line, targets, jobs, loading), UNCHANGED nextId
          PROVE  Gone(p)'
      BY <1>1, <1>2, <3>1, <3>2, PipeSkips DEF HandleCliPipe, Gone
    <3>3. ASSUME NEW c \in connected,
                 PipeTo(line, {<<nextId, c>>},
                        [jobs EXCEPT ![nextId] = Append(@, Job("load", c, 0))], {nextId}),
                 nextId' = nextId + 1
          PROVE  Gone(p)'
      <4> DEFINE queues == [jobs EXCEPT ![nextId] = Append(@, Job("load", c, 0))]
      <4>1. p # nextId /\ nextId \in Nat /\ p \in Nat
        BY <1>1 DEF TypeOK, Ids
      <4>2. p < nextId'
        BY <1>1, <3>3, <4>1
      <4>3. queues[p] = <<>> /\ p \notin {nextId}
        BY <1>1, <4>1 DEF TypeOK
      <4>4. PipeTo(line, {<<nextId, c>>}, queues, {nextId})
        BY <3>3
      <4> HIDE DEF queues
      <4>5. jobs'[p] = <<>> /\ p \notin loading' /\ \A i \in pending'.by : i[1] # p
        <5> DEFINE targets == {<<nextId, c>>}
                   ready == {nextId}
        <5>1. PipeTo(line, targets, queues, ready) /\ queues[p] = <<>> /\ p \notin ready
          BY <4>3, <4>4
        <5> HIDE DEF targets, ready, line
        <5>2. QED
          BY <5>1, PipeSkips
      <4>6. QED
        BY <1>1, <1>2, <3>1, <4>2, <4>5 DEF HandleCliPipe, Gone
    <3>4. QED
      BY <2>2, <3>2, <3>3 DEF PipeToPlugin
  <2>3. QED
    BY <1>2, <2>1, <2>2 DEF HandleCliPipe
<1>3. CASE HandleUpdate
  <2>1. jobs'[p] = <<>>
    BY <1>1, <1>3, DeliverSkips DEF HandleUpdate
  <2>2. QED
    BY <1>1, <1>3, <2>1 DEF HandleUpdate, Gone
<1>4. CASE HandleAnswer
  <2>1. pending'.by \subseteq pending.by
    BY <1>4 DEF HandleAnswer, Settle, Remaining, UpdateInfo, Unknown, TypeOK
  <2>2. QED
    BY <1>1, <1>4, <2>1 DEF HandleAnswer, Gone
<1>5. CASE HandleApplyCached
  <2>1. jobs'[p] = <<>>
    <3>1. jobs' = [jobs EXCEPT ![Head(inbox).plugin] = @ \o Flushed(Head(inbox).plugin)]
      BY <1>5 DEF HandleApplyCached
    <3>2. Flushed(p) = <<>>
      BY <1>1, FlushedEmpty
    <3>3. QED
      BY <1>1, <3>1, <3>2 DEF TypeOK
  <2>2. QED
    BY <1>1, <1>5, <2>1 DEF HandleApplyCached, Gone
<1>6. CASE HandleAddClient
  <2>1. p \notin {i[1] : i \in instances}
    BY <1>1
  <2>2. jobs'[p] = <<>> /\ p \notin loading'
    BY <1>1, <1>6, <2>1 DEF HandleAddClient
  <2>3. QED
    BY <1>1, <1>6, <2>2 DEF HandleAddClient, Gone
<1>7. CASE HandleUnload
  <2>1. pending'.by \subseteq pending.by
    BY <1>7, SMTT(30) DEF HandleUnload, Settle, Remaining, UnloadInfo, Unknown, TypeOK
  <2>2. QED
    BY <1>1, <1>7, <2>1 DEF HandleUnload, Gone
<1>8. ASSUME NEW q \in Ids, RunLoad(q) PROVE Gone(p)'
  <2>1. q # p
    BY <1>1, <1>8 DEF RunLoad
  <2>2. jobs'[p] = <<>>
    BY <1>1, <1>8, <2>1 DEF RunLoad, TypeOK
  <2>3. \A i \in instances' : i[1] # p
    BY <1>1, <1>8, <2>1 DEF RunLoad
  <2>4. QED
    BY <1>1, <1>8, <2>2, <2>3 DEF RunLoad, Gone
<1>9. ASSUME NEW q \in Ids, RunPlugin(q) \/ PluginCrashes(q) PROVE Gone(p)'
  <2>1. q # p
    BY <1>1, <1>9 DEF RunPlugin, PluginCrashes
  <2>2. jobs'[p] = <<>>
    BY <1>1, <1>9, <2>1 DEF RunPlugin, PluginCrashes, TypeOK
  <2>3. QED
    BY <1>1, <1>9, <2>2 DEF RunPlugin, PluginCrashes, Gone
<1>10. CASE \/ SendLine \/ TakeUnblock \/ AskAttach \/ AskUnload \/ SendEvent
            \/ ScreenForwards \/ UNCHANGED vars
  BY <1>1, <1>10 DEF SendLine, TakeUnblock, AskAttach, AskUnload, Ask, SendEvent, ScreenForwards,
                     vars, Gone
<1>11. QED
  BY <1>2, <1>3, <1>4, <1>5, <1>6, <1>7, <1>8, <1>9, <1>10 DEF Next, PluginThread

\* Handling its unload makes a plugin gone: its thread had run all of its jobs.
LEMMA UnloadMakesGone ==
  ASSUME TypeOK, EntryMeant, NEW p \in Ids, p < nextId, HandleUnload, Head(inbox).plugin = p
  PROVE  Gone(p)'
<1>1. /\ jobs[p] = <<>> /\ jobs' = jobs /\ known' = {} /\ loading' = loading \ {p}
      /\ instances' = {i \in instances : i[1] # p} /\ nextId' = nextId
  BY DEF HandleUnload
<1>2. \A i \in pending'.by : i[1] # p
  <2>1. CASE pending.known
    BY <2>1 DEF HandleUnload, Settle, Remaining, UnloadInfo, Unknown, TypeOK
  <2>2. CASE ~pending.known
    BY <2>2 DEF HandleUnload, EntryMeant
  <2>3. QED
    BY <2>1, <2>2
<1>3. QED
  BY <1>1, <1>2 DEF Gone

\* Plugin ids are handed out in order, and only their plugins can be unloaded.
LEMMA AskedExist ==
  ASSUME PipeAssumption, TypeOK, TypeOK', [Next]_vars, NEW p \in Ids,
         <<"unload", p>> \in asked => p < nextId,
         <<"unload", p>> \in asked'
  PROVE  p < nextId'
<1>1. nextId \in Nat /\ p \in Nat
  BY DEF TypeOK, Ids
<1>2. CASE AskUnload
  BY <1>1, <1>2 DEF AskUnload, Ask, threadVars
<1>3. CASE AskAttach
  BY <1>1, <1>3 DEF AskAttach, Ask, threadVars
<1>4. CASE HandleCliPipe
  <2>1. nextId' \in {nextId, nextId + 1} /\ asked' = asked
    BY <1>4 DEF HandleCliPipe, PipeToPlugin
  <2>2. QED
    BY <1>1, <2>1
<1>5. CASE ~AskUnload /\ ~AskAttach /\ ~HandleCliPipe
  <2>1. asked' = asked /\ nextId' = nextId
    BY <1>5 DEF Next, SendLine, TakeUnblock, SendEvent, PluginThread, HandleUpdate,
                HandleAnswer, HandleApplyCached, HandleAddClient, HandleUnload, RunLoad, RunPlugin,
                PluginCrashes, ScreenForwards, vars, threadVars
  <2>2. QED
    BY <2>1
<1>6. QED
  BY <1>2, <1>3, <1>4, <1>5

\* Every step keeps the invariant.
LEMMA InvariantStep ==
  ASSUME PipeAssumption, IInv, [Next]_vars
  PROVE  IInv'
<1>1. TypeOK /\ EntryMeant /\ TypeOK'
  BY TypeStep DEF IInv
<1>2. EntryMeant'
  BY <1>1, EntryStep
<1>3. ASSUME NEW p \in Ids PROVE (<<"unload", p>> \in asked => p < nextId)'
  BY <1>1, <1>3, AskedExist DEF IInv
<1>4. ASSUME NEW p \in Ids, Unloaded(p)' PROVE Gone(p)'
  <2>1. CASE Unloaded(p)
    BY <1>1, <1>4, <2>1, GoneStays DEF IInv
  <2>2. CASE HandleUnload /\ Head(inbox).plugin = p
    <3>1. <<"unload", p>> \in asked
      BY <1>4, <2>2 DEF HandleUnload, Unloaded
    <3>2. p < nextId
      BY <3>1 DEF IInv
    <3>3. QED
      BY <1>1, <2>2, <3>2, UnloadMakesGone
  <2>3. QED
    BY <1>1, <1>4, <2>1, <2>2, UnloadedBefore
<1>5. QED
  BY <1>1, <1>2, <1>3, <1>4 DEF IInv

\* The invariant holds at first: nothing was asked yet and there is no entry.
LEMMA InitInvariant ==
  ASSUME PipeAssumption, Init
  PROVE  IInv
<1>1. EntryMeant
  BY DEF Init, EntryMeant, Unknown
<1>2. asked = {}
  BY DEF Init
<1>3. QED
  BY <1>1, <1>2, InitType DEF IInv, Unloaded

\* An entry of pending_pipes never outlives its reasons: once cleanup_layout_plugin
\* has unloaded a plugin no entry waits for it, whatever was cached for it, asked
\* of it or on its way when the unload was handled, and an entry that nothing
\* holds any more is removed with its CLI client unblocked.
THEOREM UnloadingFrees == Spec => []UnloadFrees
<1>1. Init => IInv
  BY PipeAssumption, InitInvariant
<1>2. IInv /\ [Next]_vars => IInv'
  BY PipeAssumption, InvariantStep
<1>3. IInv => UnloadFrees
  <2>1. SUFFICES ASSUME IInv PROVE UnloadFrees
    OBVIOUS
  <2>2. \A i \in pending.by : i[1] \in Ids
    <3>1. pending.by \subseteq Ids \X Clients
      BY <2>1 DEF IInv, TypeOK, Instances
    <3>2. QED
      BY <3>1
  <2>3. QED
    BY <2>1, <2>2 DEF IInv, EntryMeant, Gone, UnloadFrees
<1>4. QED
  BY <1>1, <1>2, <1>3, PTL DEF Spec
-----------------------------------------------------------------------------
(* Nobody is forgotten: what an instance still has to do stays in a queue.  *)

\* SetToSeq lists every element, and each once.
LEMMA SetToSeqLists ==
  ASSUME NEW S, IsFiniteSet(S)
  PROVE  /\ \A x \in S : Holds(SetToSeq(S), x)
         /\ \A j, k \in DOMAIN SetToSeq(S) : SetToSeq(S)[j] = SetToSeq(S)[k] => j = k
<1> DEFINE n == Cardinality(S)
           f == SetToSeq(S)
<1>1. n \in Nat /\ ExistsBijection(1 .. n, S)
  BY FS_CardinalityType
<1>2. \E g \in [1 .. n -> S] : IsInjective(g)
  BY <1>1 DEF ExistsBijection, Bijection, Injection, IsInjective
<1>3. f \in [1 .. n -> S] /\ IsInjective(f)
  BY <1>2 DEF SetToSeq
<1> HIDE DEF f
<1>4. f \in Injection(1 .. n, S)
  BY <1>3 DEF Injection, IsInjective
<1>5. Cardinality(1 .. n) = n
  BY <1>1, FS_Interval
<1> HIDE DEF n
<1>6. f \in Surjection(1 .. n, S)
  BY <1>4, <1>5, FS_Injection DEF n
<1>7. DOMAIN f = 1 .. n
  BY <1>3
<1>8. \A x \in S : \E k \in DOMAIN f : f[k] = x
  BY <1>6, <1>7 DEF Surjection
<1>9. \A j, k \in DOMAIN f : f[j] = f[k] => j = k
  BY <1>3 DEF IsInjective
<1>10. QED
  BY <1>8, <1>9 DEF f, Holds

\* What either of two queues holds, both of them one after the other hold.
LEMMA HoldsJoined ==
  ASSUME NEW S, NEW s \in Seq(S), NEW t \in Seq(S), NEW u, u = s \o t, NEW x
  PROVE  Holds(u, x) <=> Holds(s, x) \/ Holds(t, x)
<1>1. /\ Len(u) = Len(s) + Len(t) /\ Len(s) \in Nat /\ Len(t) \in Nat
      /\ DOMAIN u = 1 .. Len(u) /\ DOMAIN s = 1 .. Len(s) /\ DOMAIN t = 1 .. Len(t)
      /\ \A k \in 1 .. Len(s) : u[k] = s[k]
      /\ \A k \in 1 .. Len(t) : u[Len(s) + k] = t[k]
  OBVIOUS
<1> DEFINE n == Len(s)
           m == Len(t)
<1> HIDE DEF n, m
<1>2. /\ \A k \in 1 .. n : k \in 1 .. n + m
      /\ \A k \in 1 .. m : n + k \in 1 .. n + m
      /\ \A k \in 1 .. n + m : k \in 1 .. n \/ (k - n \in 1 .. m /\ n + (k - n) = k)
  BY <1>1 DEF n, m
<1>3. ASSUME Holds(s, x) PROVE Holds(u, x)
  BY <1>1, <1>2, <1>3 DEF Holds, n, m
<1>4. ASSUME Holds(t, x) PROVE Holds(u, x)
  <2>1. PICK k \in 1 .. m : t[k] = x
    BY <1>1, <1>4 DEF Holds, m
  <2>2. n + k \in DOMAIN u /\ u[n + k] = x
    BY <1>1, <1>2, <2>1 DEF n, m
  <2>3. QED
    BY <2>2 DEF Holds
<1>5. ASSUME Holds(u, x) PROVE Holds(s, x) \/ Holds(t, x)
  <2>1. PICK k \in 1 .. n + m : u[k] = x
    BY <1>1, <1>5 DEF Holds, n, m
  <2>2. CASE k \in 1 .. n
    BY <1>1, <2>1, <2>2 DEF Holds, n
  <2>3. CASE k - n \in 1 .. m /\ n + (k - n) = k
    BY <1>1, <2>1, <2>3 DEF Holds, n, m
  <2>4. QED
    BY <1>2, <2>2, <2>3
<1>6. QED
  BY <1>3, <1>4, <1>5

\* A queue that grows still holds what it held.
LEMMA HoldsMore ==
  ASSUME NEW S, NEW s \in Seq(S), NEW t \in Seq(S), NEW u, u = s \/ u = s \o t
  PROVE  \A x : Holds(s, x) => Holds(u, x)
  BY HoldsJoined

\* The next item of a queue is in it, and so is what is left without it.
LEMMA HoldsTail ==
  ASSUME NEW S, NEW s \in Seq(S), s # <<>>, NEW x
  PROVE  /\ Holds(s, Head(s))
         /\ Holds(s, x) <=> x = Head(s) \/ Holds(Tail(s), x)
<1>1. /\ 1 \in DOMAIN s /\ s[1] = Head(s) /\ Tail(s) \in Seq(S)
      /\ <<Head(s)>> \in Seq(S) /\ s = <<Head(s)>> \o Tail(s)
  OBVIOUS
<1>2. Holds(s, x) <=> Holds(<<Head(s)>>, x) \/ Holds(Tail(s), x)
  BY <1>1, HoldsJoined
<1>3. Holds(<<Head(s)>>, x) <=> x = Head(s)
  BY DEF Holds
<1>4. QED
  BY <1>1, <1>2, <1>3 DEF Holds

\* A queue with one more item holds that one and what it held.
LEMMA HoldsAdded ==
  ASSUME NEW S, NEW s \in Seq(S), NEW y \in S, NEW u, u = Append(s, y), NEW x
  PROVE  Holds(u, x) <=> x = y \/ Holds(s, x)
<1>1. <<y>> \in Seq(S) /\ u = s \o <<y>>
  OBVIOUS
<1>2. Holds(u, x) <=> Holds(s, x) \/ Holds(<<y>>, x)
  BY <1>1, HoldsJoined
<1>3. Holds(<<y>>, x) <=> x = y
  BY DEF Holds
<1>4. QED
  BY <1>2, <1>3

\* The same, as two facts.
LEMMA GrowsBy ==
  ASSUME NEW S, NEW s \in Seq(S), NEW y \in S, NEW u, u = Append(s, y)
  PROVE  Holds(u, y) /\ \A x : Holds(s, x) => Holds(u, x)
  BY HoldsAdded

\* A queue holds a kind when it holds an item of it.
LEMMA KindHeld == \A s, is : HoldsKind(s, is) <=> \E x : Holds(s, x) /\ x.is = is
  BY DEF HoldsKind, Holds

\* What a queue holds is of its type.
LEMMA HeldIn ==
  ASSUME NEW S, NEW s \in Seq(S), NEW x, Holds(s, x)
  PROVE  x \in S /\ s # <<>>
  BY DEF Holds

\* A cache that is not full after items were added has them all.
LEMMA KeepAll ==
  ASSUME PipeAssumption, NEW S, NEW queue \in Seq(S), NEW items \in Seq(S),
         Len(Keep(queue, items)) < CacheCap
  PROVE  Keep(queue, items) = queue \o items
<1> DEFINE all == queue \o items
           excess == IF Len(all) > CacheCap THEN Len(all) - CacheCap ELSE 0
<1>1. all \in Seq(S) /\ Len(all) \in Nat /\ CacheCap \in Nat
  BY DEF PipeAssumption
<1>2. excess \in Nat /\ excess <= Len(all)
  BY <1>1
<1>3. Keep(queue, items) = SubSeq(all, excess + 1, Len(all))
  BY DEF Keep
<1>4. Len(all) > CacheCap => excess = Len(all) - CacheCap /\ Len(all) - excess = CacheCap
  BY <1>1
<1>5. Len(all) <= CacheCap => excess = 0
  BY <1>1
<1> HIDE DEF all, excess
<1>6. Keep(queue, items) = SubSeq(all, 1, Len(all))
  <2>1. Len(SubSeq(all, excess + 1, Len(all))) = Len(all) - excess
    BY <1>1, <1>2
  <2>2. ~(Len(all) > CacheCap)
    BY <1>1, <1>3, <1>4, <2>1
  <2>3. excess = 0
    BY <1>1, <1>5, <2>2
  <2>4. excess + 1 = 1
    BY <2>3
  <2>5. QED
    BY <1>3, <2>4
<1>7. SubSeq(all, 1, Len(all)) = all
  BY <1>1
<1>8. QED
  BY <1>6, <1>7 DEF all

\* Cached lines are lines of the CLI client.
Lined == {x \in CachedItems : x.is = "pipe" => x.line \in Lines}

\* Whom a message is for.
For(targets, i) == \E t \in targets : Directed(t, i)

\* S are the clients whose instance of p it is for, and new their jobs.
Given(is, line, targets, p, S, new) ==
  /\ S = {c \in Clients : <<p, c>> \in instances /\ For(targets, <<p, c>>)}
  /\ \A x : Holds(new, x) <=> \E c \in S : x = Job(is, c, line)
  /\ \A j, k \in DOMAIN new : new[j] = new[k] => j = k

\* A message becomes a job of every running instance it is for, once, and an item
\* in the cache of a loading plugin; what was there stays there.
LEMMA DeliverJobs ==
  ASSUME PipeAssumption, TypeOK,
         NEW is \in {"pipe", "event"}, NEW line \in 0 .. MaxLines,
         NEW targets \in Targets, NEW queues \in [Ids -> Seq(Jobs)], NEW ready \in SUBSET Ids,
         Deliver(is, line, targets, queues, ready), NEW p \in Ids
  PROVE  \E S \in SUBSET Clients, new \in Seq(Jobs) :
           /\ Given(is, line, targets, p, S, new)
           /\ jobs'[p] = IF p \in ready THEN queues[p] ELSE queues[p] \o new
<1> DEFINE S == {c \in Clients : <<p, c>> \in instances
                                  /\ \E t \in targets : Directed(t, <<p, c>>)}
           T == {Job(is, c, line) : c \in S}
           new == SetToSeq(T)
<1>1. S \in SUBSET Clients
  OBVIOUS
<1>2. jobs'[p] = IF p \in ready THEN queues[p] ELSE queues[p] \o new
  BY DEF Deliver
<1>3. S = {c \in Clients : <<p, c>> \in instances /\ For(targets, <<p, c>>)}
  BY DEF For
<1> HIDE DEF S
<1>4. new \in Seq(Jobs)
  BY <1>1, JobsForType
<1>5. IsFiniteSet(S)
  BY <1>1, FS_Subset DEF PipeAssumption
<1>6. IsFiniteSet(T)
  <2> DEFINE f == [c \in S |-> Job(is, c, line)]
  <2>1. f \in Surjection(S, T)
    BY DEF Surjection
  <2> HIDE DEF f, T
  <2>2. QED
    BY <1>5, <2>1, FS_Surjection
<1> HIDE DEF new, T
<1>7. /\ \A x \in T : Holds(new, x)
      /\ \A j, k \in DOMAIN new : new[j] = new[k] => j = k
  BY <1>6, SetToSeqLists DEF new
<1>8. new \in Seq(T)
  BY <1>6, SetToSeqType DEF new
<1>9. \A x : Holds(new, x) <=> x \in T
  BY <1>7, <1>8, HeldIn
<1>10. \A x : x \in T <=> \E c \in S : x = Job(is, c, line)
  BY DEF T
<1>11. \A x : Holds(new, x) <=> \E c \in S : x = Job(is, c, line)
  BY <1>9, <1>10
<1>12. Given(is, line, targets, p, S, new)
  BY <1>3, <1>7, <1>11 DEF Given
<1>13. QED
  BY <1>1, <1>2, <1>4, <1>12

\* A message is handed over, to plugin p among others; what p gets of it.
Delivers(is, line, targets, queues, ready, p) ==
  /\ is \in {"pipe", "event"} /\ line \in 0 .. MaxLines /\ targets \in Targets
  /\ queues \in [Ids -> Seq(Jobs)] /\ ready \in SUBSET Ids /\ p \in Ids
  /\ Deliver(is, line, targets, queues, ready)

Hands(is, line, targets, queues, ready, p) ==
  \E S \in SUBSET Clients, new \in Seq(Jobs) :
    /\ Given(is, line, targets, p, S, new)
    /\ jobs'[p] = IF p \in ready THEN queues[p] ELSE queues[p] \o new

\* DeliverJobs, with its hypotheses and its conclusion named.
LEMMA DeliverHands ==
  ASSUME PipeAssumption, TypeOK, NEW is, NEW line, NEW targets, NEW queues, NEW ready, NEW p,
         Delivers(is, line, targets, queues, ready, p)
  PROVE  Hands(is, line, targets, queues, ready, p)
  BY DeliverJobs DEF Delivers, Hands

\* A message becomes an item in the cache of a loading plugin it is for.
LEMMA DeliverCaches ==
  ASSUME PipeAssumption, TypeOK,
         NEW is \in {"pipe", "event"}, NEW line \in 0 .. MaxLines,
         NEW targets \in Targets, NEW queues, NEW ready \in SUBSET Ids,
         Deliver(is, line, targets, queues, ready), NEW p \in Ids
  PROVE  /\ p \notin ready => cache'[p] = cache[p]
         /\ Len(cache'[p]) < CacheCap => \A x : Holds(cache[p], x) => Holds(cache'[p], x)
         /\ Len(cache'[p]) < CacheCap /\ p \in ready /\ (\E t \in targets : t[1] = p)
              => Holds(cache'[p], Cached(is, line))
         /\ cache[p] \in Seq(Lined) /\ Cached(is, line) \in Lined => cache'[p] \in Seq(Lined)
<1> DEFINE item == Cached(is, line)
           U == {t \in targets : t[1] = p}
           n == Cardinality(U)
           items == Repeat(item, n)
<1>1. cache'[p] = IF p \in ready THEN Keep(cache[p], items) ELSE cache[p]
  BY DEF Deliver
<1>2. IsFiniteSet(U) /\ n \in Nat /\ (U # {} => n # 0)
  BY FS_Subset, FS_CardinalityType, FS_EmptySet DEF Targets
<1>3. item \in CachedItems
  BY DEF Cached, Job, CachedItems
<1>4. cache[p] \in Seq(CachedItems)
  BY DEF TypeOK
<1>5. (\E t \in targets : t[1] = p) => n # 0
  <2>1. (\E t \in targets : t[1] = p) => U # {}
    OBVIOUS
  <2>2. QED
    BY <1>2, <2>1
<1> HIDE DEF n, item
<1>6. /\ DOMAIN items = 1 .. n /\ \A k \in 1 .. n : items[k] = item
      /\ items \in Seq(CachedItems)
      /\ item \in Lined => items \in Seq(Lined)
  BY <1>2, <1>3 DEF Repeat
<1> HIDE DEF items
<1>7. ASSUME cache[p] \in Seq(Lined), item \in Lined PROVE cache'[p] \in Seq(Lined)
  BY <1>1, <1>6, <1>7, KeepType
<1>8. ASSUME p \in ready, Len(cache'[p]) < CacheCap PROVE cache'[p] = cache[p] \o items
  BY <1>1, <1>4, <1>6, <1>8, KeepAll
<1>9. ASSUME p \in ready, Len(cache'[p]) < CacheCap, NEW x
      PROVE  Holds(cache'[p], x) <=> Holds(cache[p], x) \/ Holds(items, x)
  BY <1>4, <1>6, <1>8, <1>9, HoldsJoined
<1>10. n # 0 => Holds(items, item)
  <2>1. n # 0 => 1 \in 1 .. n
    BY <1>2
  <2>2. QED
    BY <1>6, <2>1 DEF Holds
<1>11. QED
  BY <1>1, <1>5, <1>7, <1>9, <1>10 DEF item

\* The place of one item for one client in the round.
LEMMA RoundPlace ==
  ASSUME NEW n \in Nat, NEW m \in Nat, NEW h \in 1 .. m, NEW g \in 1 .. n, NEW k,
         k = (h - 1) * n + g
  PROVE  /\ k \in 1 .. n * m
         /\ ((k - 1) % n) + 1 = g
         /\ ((k - 1) \div n) + 1 = h
<1> DEFINE q == h - 1
           r == g - 1
           a == k - 1
           d == a \div n
           s == a % n
<1>1. n > 0 /\ q \in Nat /\ q <= m - 1 /\ r \in Nat /\ r < n /\ k = q * n + g
  BY SMT
<1>2. q * n \in Nat /\ q * n <= (m - 1) * n /\ (m - 1) * n = n * m - n
  BY <1>1, SMT
<1>3. a \in Nat /\ k = a + 1 /\ a = q * n + r /\ k \in 1 .. n * m
  <2>1. n * m \in Nat
    BY SMT
  <2> DEFINE z == q * n
  <2>2. z \in Nat /\ z <= n * m - n /\ k = z + g
    BY <1>1, <1>2
  <2> HIDE DEF z, q
  <2>3. k \in 1 .. n * m /\ k - 1 \in Nat /\ k - 1 = z + (g - 1)
    BY <1>1, <2>1, <2>2, SMT
  <2>4. QED
    BY <1>1, <2>3, SMT DEF z
<1> HIDE DEF a
<1>4. d \in Int /\ s \in 0 .. n - 1 /\ a = n * d + s
  BY <1>1, <1>3, SMT
<1> HIDE DEF d, s, q, r
<1>5. n * (d - q) = r - s
  BY <1>1, <1>3, <1>4, SMT
<1>6. d - q < 1
  BY <1>1, <1>4, <1>5, SMT
<1>7. d - q > -1
  BY <1>1, <1>4, <1>5, SMT
<1>8. d = q
  BY <1>1, <1>4, <1>6, <1>7, SMT
<1>9. s = r
  BY <1>1, <1>4, <1>5, <1>8, SMT
<1>10. QED
  BY <1>3, <1>8, <1>9, SMT DEF a, d, s, q, r

\* Flushing a cache makes jobs of its items for every instance of a connected client.
LEMMA FlushedHolds ==
  ASSUME PipeAssumption, TypeOK, NEW p \in Ids, NEW c \in connected, <<p, c>> \in instances,
         NEW x \in CachedItems, Holds(cache[p], x)
  PROVE  Holds(Flushed(p), [x EXCEPT !.client = c])
<1> DEFINE S == {d \in connected : <<p, d>> \in instances}
           clients == SetToSeq(S)
           n == Len(cache[p])
           item(k) == [cache[p][((k - 1) % n) + 1] EXCEPT !.client = clients[((k - 1) \div n) + 1]]
<1>1. S \subseteq Clients /\ IsFiniteSet(S) /\ c \in S
  BY FS_Subset DEF PipeAssumption, TypeOK
<1>2. Flushed(p) = [k \in 1 .. n * Len(clients) |-> item(k)]
  BY DEF Flushed
<1> HIDE DEF S
<1>3. clients \in Seq(S) /\ Holds(clients, c)
  BY <1>1, SetToSeqType, SetToSeqLists
<1> HIDE DEF clients
<1>4. PICK h \in 1 .. Len(clients) : clients[h] = c
  BY <1>3 DEF Holds
<1>5. PICK g \in 1 .. n : cache[p][g] = x
  BY DEF Holds, TypeOK
<1>6. n \in Nat /\ Len(clients) \in Nat
  BY <1>3 DEF TypeOK
<1> DEFINE k == (h - 1) * n + g
           m == Len(clients)
<1>k. k = (h - 1) * n + g
  OBVIOUS
<1>n. n \in Nat /\ m \in Nat /\ h \in 1 .. m /\ g \in 1 .. n
  BY <1>4, <1>5, <1>6
<1> HIDE DEF n, k, m
<1>7. /\ k \in 1 .. n * m
      /\ ((k - 1) % n) + 1 = g
      /\ ((k - 1) \div n) + 1 = h
  BY ONLY <1>k, <1>n, RoundPlace
<1>8. /\ ((k - 1) % n) + 1 = g /\ ((k - 1) \div n) + 1 = h
  BY <1>7
<1>9. item(k) = [x EXCEPT !.client = c]
  BY <1>4, <1>5, <1>8
<1> HIDE DEF item
<1>10. k \in DOMAIN Flushed(p) /\ Flushed(p)[k] = [x EXCEPT !.client = c]
  BY <1>2, <1>7, <1>9 DEF m
<1>11. QED
  BY <1>10 DEF Holds

\* A flush makes jobs of the kinds that are cached.
LEMMA FlushedKinds ==
  ASSUME PipeAssumption, TypeOK, NEW p \in Ids, NEW x, Holds(Flushed(p), x)
  PROVE  x.is \in {"pipe", "event"}
<1> DEFINE S == {d \in connected : <<p, d>> \in instances}
           clients == SetToSeq(S)
           n == Len(cache[p])
           item(k) == [cache[p][((k - 1) % n) + 1] EXCEPT !.client = clients[((k - 1) \div n) + 1]]
<1>1. S \subseteq Clients /\ IsFiniteSet(S)
  BY FS_Subset DEF PipeAssumption, TypeOK
<1>2. Flushed(p) = [k \in 1 .. n * Len(clients) |-> item(k)]
  BY DEF Flushed
<1> HIDE DEF S
<1>3. clients \in Seq(S)
  BY <1>1, SetToSeqType
<1> HIDE DEF clients
<1>4. cache[p] \in Seq(CachedItems) /\ n \in Nat /\ Len(clients) \in Nat
  BY <1>3 DEF TypeOK
<1> HIDE DEF item
<1>5. PICK k \in 1 .. n * Len(clients) : x = item(k)
  BY <1>2 DEF Holds
<1> HIDE DEF n
<1>6. ((k - 1) % n) + 1 \in 1 .. n
  BY <1>4, <1>5, RoundBounds
<1>7. cache[p][((k - 1) % n) + 1] \in CachedItems
  BY <1>4, <1>6 DEF n
<1> DEFINE y == cache[p][((k - 1) % n) + 1]
           c == clients[((k - 1) \div n) + 1]
<1>8. x = [y EXCEPT !.client = c] /\ y \in CachedItems
  BY <1>5, <1>7 DEF item
<1> HIDE DEF y, c
<1>9. QED
  BY <1>8 DEF CachedItems

\* Only the first of a plugin's jobs loads it.
OnlyHead(s) == \A k \in DOMAIN s : s[k].is = "load" => k = 1

\* Without its first job a queue holds no load; nor with it, if it is none.
LEMMA HeadLoads ==
  ASSUME NEW S, NEW s \in Seq(S), OnlyHead(s)
  PROVE  /\ s # <<>> => ~HoldsKind(Tail(s), "load") /\ OnlyHead(Tail(s))
         /\ s # <<>> /\ Head(s).is # "load" => ~HoldsKind(s, "load")
         /\ \A t \in Seq(S) : ~HoldsKind(t, "load") => OnlyHead(s \o t)
<1>1. ASSUME s # <<>> PROVE ~HoldsKind(Tail(s), "load") /\ OnlyHead(Tail(s))
  <2>1. ASSUME NEW k \in DOMAIN Tail(s) PROVE Tail(s)[k].is # "load"
    <3>1. k \in Nat /\ k + 1 \in DOMAIN s /\ Tail(s)[k] = s[k + 1] /\ k + 1 # 1
      BY <1>1
    <3>2. QED
      BY <3>1 DEF OnlyHead
  <2>2. QED
    BY <2>1 DEF HoldsKind, OnlyHead
<1>2. ASSUME s # <<>>, Head(s).is # "load" PROVE ~HoldsKind(s, "load")
  BY <1>2 DEF HoldsKind, OnlyHead
<1>3. ASSUME NEW t \in Seq(S), ~HoldsKind(t, "load") PROVE OnlyHead(s \o t)
  <2>1. ASSUME NEW k \in DOMAIN (s \o t), (s \o t)[k].is = "load" PROVE k = 1
    <3>1. CASE k \in DOMAIN s
      <4>1. (s \o t)[k] = s[k]
        BY <3>1
      <4>2. QED
        BY <2>1, <3>1, <4>1 DEF OnlyHead
    <3>2. CASE k \notin DOMAIN s
      <4>1. k - Len(s) \in DOMAIN t /\ (s \o t)[k] = t[k - Len(s)]
        BY <3>2
      <4>2. QED
        BY <1>3, <2>1, <4>1 DEF HoldsKind
    <3>3. QED
      BY <3>1, <3>2
  <2>2. QED
    BY <2>1 DEF OnlyHead
<1>4. QED
  BY <1>1, <1>2, <1>3

\* The plugins whose id was not handed out are absent.  A plugin that loads has
\* instances for all connected clients, or its load ahead of its other jobs, and
\* says that it has loaded only afterwards.
Absent(p) ==
  /\ jobs[p] = <<>> /\ p \notin loading
  /\ \A i \in instances : i[1] # p
  /\ ~Holds(inbox, ApplyCached(p))

Loads(p) ==
  /\ cache[p] \in Seq(Lined)
  /\ OnlyHead(jobs[p])
  /\ \A x : Holds(jobs[p], x) => x.is # "attach" /\ (x.is = "load" => x.client \in connected)
  /\ HoldsKind(jobs[p], "load") => ~Holds(inbox, ApplyCached(p))
  /\ p \in loading => \A c \in connected : <<p, c>> \in instances \/ HoldsKind(jobs[p], "load")

Placed(p) == (p >= nextId => Absent(p)) /\ Loads(p)

LoadInv ==
  /\ \A x : Holds(screen, x) => x.is = "Answer"
  /\ \A i \in instances \cup pending.by : i[2] \in connected
  /\ \A p \in Ids : Placed(p)

\* What NobodyForgotten asks of an instance.
Waits(i) ==
  \/ \E line \in Lines : Holds(jobs[i[1]], Job("pipe", i[2], line))
  \/ /\ i[1] \in loading /\ HoldsKind(cache[i[1]], "pipe")
     /\ i \in instances \/ HoldsKind(jobs[i[1]], "load")
  \/ AnswerComing(i)

\* NobodyForgotten, an instance at a time.
LEMMA WaitsAll == NobodyForgotten <=> \A i \in pending.by : Waits(i)
  BY DEF NobodyForgotten, Waits

\* No cache of a loading plugin has lost, or is about to lose, its oldest item.
NoneFull == \A p \in Ids : Len(cache[p]) < CacheCap

\* Plugins neither crash nor fail to load, and no client attaches.
Undisturbed == Faults = {} /\ Attaches = {}

\* A step that takes nothing away from an instance leaves it waiting.
LEMMA WaitsStays ==
  ASSUME NEW i, Waits(i),
         \A x : Holds(jobs[i[1]], x) => Holds(jobs'[i[1]], x),
         HoldsKind(cache[i[1]], "pipe") => HoldsKind(cache'[i[1]], "pipe"),
         i[1] \in loading => i[1] \in loading',
         i \in instances => i \in instances',
         AnswerComing(i) => AnswerComing(i)'
  PROVE  Waits(i)'
<1>1. HoldsKind(jobs[i[1]], "load") => HoldsKind(jobs'[i[1]], "load")
  BY KindHeld
<1>2. CASE \E line \in Lines : Holds(jobs[i[1]], Job("pipe", i[2], line))
  BY <1>2 DEF Waits
<1>3. CASE /\ i[1] \in loading /\ HoldsKind(cache[i[1]], "pipe")
           /\ i \in instances \/ HoldsKind(jobs[i[1]], "load")
  BY <1>1, <1>3 DEF Waits
<1>4. CASE AnswerComing(i)
  BY <1>4 DEF Waits
<1>5. QED
  BY <1>2, <1>3, <1>4 DEF Waits

\* Answers on their way stay on their way.
LEMMA AnswersKept ==
  ASSUME TypeOK, NEW i, AnswerComing(i), UNCHANGED screen,
         \/ inbox' = inbox
         \/ \E x \in Messages : inbox' = Append(inbox, x)
         \/ /\ inbox # <<>> /\ inbox' = Tail(inbox)
            /\ \A change \in Changes : Head(inbox) # Answer(i, change)
  PROVE  AnswerComing(i)'
<1>1. inbox \in Seq(Messages)
  BY DEF TypeOK
<1>2. \A change \in Changes : Holds(inbox, Answer(i, change)) => Holds(inbox', Answer(i, change))
  BY <1>1, HoldsStays
<1>3. PICK change \in Changes : Holds(inbox, Answer(i, change)) \/ Holds(screen, Answer(i, change))
  BY DEF AnswerComing
<1>4. Holds(inbox', Answer(i, change)) \/ Holds(screen', Answer(i, change))
  BY <1>2, <1>3
<1>5. QED
  BY <1>4 DEF AnswerComing

-----------------------------------------------------------------------------
(* A line, or an event, for some instances. *)

\* Where a message finds a plugin, its queue and whether it is loading.
Receives(queues, ready, p) ==
  /\ \A x : Holds(jobs[p], x) => Holds(queues[p], x)
  /\ p \in loading => p \in ready
  /\ p \in ready => \A c \in connected : <<p, c>> \in instances \/ HoldsKind(queues[p], "load")

\* Instances that wait for something go on waiting.
LEMMA DeliverWaits ==
  ASSUME PipeAssumption, TypeOK, NEW i \in Instances, Waits(i), NoneFull',
         NEW is \in {"pipe", "event"}, NEW line \in 0 .. MaxLines,
         NEW targets \in Targets, NEW queues \in [Ids -> Seq(Jobs)], NEW ready \in SUBSET Ids,
         Deliver(is, line, targets, queues, ready), Receives(queues, ready, i[1]),
         loading' = ready, instances' = instances, AnswerComing(i) => AnswerComing(i)'
  PROVE  Waits(i)'
<1> DEFINE p == i[1]
<1>1. p \in Ids
  BY DEF Instances
<1>h. Hands(is, line, targets, queues, ready, p)
  BY <1>1, DeliverHands DEF Delivers
<1>2. PICK new \in Seq(Jobs) : jobs'[p] = IF p \in ready THEN queues[p] ELSE queues[p] \o new
  BY <1>h DEF Hands
<1>3. queues[p] \in Seq(Jobs)
  BY <1>1
<1>4. \A x : Holds(queues[p], x) => Holds(jobs'[p], x)
  <2>1. PICK u : u = jobs'[p]
    OBVIOUS
  <2>2. u = queues[p] \/ u = queues[p] \o new
    BY <1>2, <2>1
  <2>n. new \in Seq(Jobs)
    OBVIOUS
  <2> HIDE DEF p
  <2>3. \A x : Holds(queues[p], x) => Holds(u, x)
    BY ONLY <1>3, <2>2, <2>n, HoldsMore
  <2>4. QED
    BY <2>1, <2>3
<1>5. Len(cache'[p]) < CacheCap
  BY <1>1 DEF NoneFull
<1>6. \A x : Holds(cache[p], x) => Holds(cache'[p], x)
  BY <1>1, <1>5, DeliverCaches
<1>7. HoldsKind(cache[p], "pipe") => HoldsKind(cache'[p], "pipe")
  BY <1>6, KindHeld
<1> HIDE DEF p
<1>8. \A x : Holds(jobs[p], x) => Holds(jobs'[p], x)
  BY <1>4 DEF Receives, p
<1>9. QED
  BY <1>7, <1>8, WaitsStays DEF Receives, p

\* An instance is a plugin and a client.
LEMMA PairOf == \A i \in Instances : \E p \in Ids, c \in Clients : i = <<p, c>>
  BY DEF Instances

\* An instance for which a line is marked has it, as a job or in the cache.
LEMMA MarkedWaits ==
  ASSUME PipeAssumption, TypeOK, NoneFull', NEW line \in Lines,
         NEW targets \in Targets, NEW queues \in [Ids -> Seq(Jobs)], NEW ready \in SUBSET Ids,
         Deliver("pipe", line, targets, queues, ready), loading' = ready, instances' = instances,
         NEW i \in MarkedFor(targets, ready), Receives(queues, ready, i[1])
  PROVE  Waits(i)'
<1>1. /\ i \in Instances /\ For(targets, i)
      /\ \/ i \in instances /\ i[1] \notin ready
         \/ i[1] \in ready /\ i[2] \in connected
  BY DEF MarkedFor, For, TypeOK, Instances
<1>2. PICK p \in Ids, c \in Clients : i = <<p, c>>
  BY <1>1, PairOf
<1>3. line \in 0 .. MaxLines /\ Len(cache'[p]) < CacheCap
  BY <1>2 DEF Lines, NoneFull
<1>4. CASE i \in instances /\ p \notin ready
  <2>1. PICK S \in SUBSET Clients, new \in Seq(Jobs) :
          /\ Given("pipe", line, targets, p, S, new)
          /\ jobs'[p] = IF p \in ready THEN queues[p] ELSE queues[p] \o new
    <3>1. Hands("pipe", line, targets, queues, ready, p)
      BY <1>3, DeliverHands DEF Delivers
    <3>2. QED
      BY <3>1, Zenon DEF Hands
  <2>2. c \in S
    BY <1>1, <1>2, <1>4, <2>1 DEF Given
  <2>3. Holds(new, Job("pipe", c, line))
    BY <2>1, <2>2 DEF Given
  <2>4. queues[p] \in Seq(Jobs)
    OBVIOUS
  <2>u. PICK u : u = jobs'[p]
    OBVIOUS
  <2>v. u = queues[p] \o new
    BY <1>4, <2>1, <2>u
  <2>w. Holds(u, Job("pipe", c, line))
    BY <2>3, <2>4, <2>v, HoldsJoined
  <2>5. Holds(jobs'[p], Job("pipe", c, line))
    BY <2>u, <2>w
  <2>6. QED
    BY <1>2, <2>5 DEF Waits
<1>5. CASE p \in ready
  <2>1. \E t \in targets : t[1] = p
    BY <1>1, <1>2 DEF For, Directed
  <2>2. Holds(cache'[p], Cached("pipe", line))
    BY <1>3, <1>5, <2>1, DeliverCaches
  <2>3. Cached("pipe", line).is = "pipe"
    BY DEF Cached, Job
  <2>4. HoldsKind(cache'[p], "pipe")
    BY <2>2, <2>3, KindHeld
  <2>5. jobs'[p] = queues[p]
    BY <1>3, <1>5, DeliverJobs
  <2>6. i \in instances' \/ HoldsKind(jobs'[p], "load")
    BY <1>1, <1>2, <1>4, <1>5, <2>5 DEF Receives
  <2>7. QED
    BY <1>2, <1>5, <2>4, <2>6 DEF Waits
<1>6. QED
  BY <1>1, <1>2, <1>4, <1>5

\* A line is marked for the instances that have it.
LEMMA PipeWaits ==
  ASSUME PipeAssumption, TypeOK, NobodyForgotten, NoneFull', NEW line \in Lines,
         NEW targets \in Targets, NEW queues \in [Ids -> Seq(Jobs)], NEW ready \in SUBSET Ids,
         PipeTo(line, targets, queues, ready), \A p \in Ids : Receives(queues, ready, p),
         instances' = instances, UNCHANGED screen, ReceiveNext("CliPipe")
  PROVE  NobodyForgotten'
<1>1. Deliver("pipe", line, targets, queues, ready) /\ loading' = ready
  BY DEF PipeTo
<1>2. line \in 0 .. MaxLines
  BY DEF Lines
<1>3. pending'.by \subseteq pending.by \cup MarkedFor(targets, ready)
  BY DEF PipeTo, Mark, TypeOK
<1>4. ASSUME NEW i \in pending.by PROVE Waits(i)'
  <2>1. i \in Instances /\ i[1] \in Ids
    BY DEF TypeOK, Instances
  <2>2. \A change \in Changes : Head(inbox) # Answer(i, change)
    BY DEF ReceiveNext, Answer, Message
  <2>3. AnswerComing(i) => AnswerComing(i)'
    BY <2>2, AnswersKept DEF ReceiveNext
  <2>4. Waits(i)
    BY WaitsAll
  <2>5. QED
    BY <1>1, <1>2, <2>1, <2>3, <2>4, DeliverWaits
<1>5. ASSUME NEW i \in MarkedFor(targets, ready) PROVE Waits(i)'
  <2>1. i[1] \in Ids
    BY DEF MarkedFor, TypeOK, Instances
  <2>2. QED
    BY <1>1, <2>1, MarkedWaits
<1>6. \A i \in pending'.by : Waits(i)'
  BY <1>3, <1>4, <1>5
<1>7. QED
  BY <1>6 DEF NobodyForgotten, Waits

-----------------------------------------------------------------------------
(* Where plugins load. *)

\* A step that has nothing to do with a plugin.
LEMMA PlacedStays ==
  ASSUME NEW p \in Ids, Placed(p),
         jobs'[p] = jobs[p], cache'[p] = cache[p], connected' = connected,
         p >= nextId' => p >= nextId,
         p \in loading' => p \in loading,
         \A i : i[1] = p => (i \in instances' <=> i \in instances),
         Holds(inbox', ApplyCached(p)) => Holds(inbox, ApplyCached(p))
  PROVE  Placed(p)'
<1>1. Absent(p) => Absent(p)'
  BY DEF Absent
<1>2. \A c : <<p, c>> \in instances' <=> <<p, c>> \in instances
  OBVIOUS
<1>3. Loads(p) => Loads(p)'
  BY <1>2, Zenon DEF Loads, Lined, CachedItems, Lines, OnlyHead, HoldsKind
<1>4. QED
  BY <1>1, <1>3 DEF Placed

\* A message for a plugin that is neither new nor starts to load with it.
LEMMA DeliverPlaced ==
  ASSUME PipeAssumption, TypeOK, NEW p \in Ids, Placed(p), nextId \in Nat,
         NEW is \in {"pipe", "event"}, NEW line \in 0 .. MaxLines, Cached(is, line) \in Lined,
         NEW targets \in Targets, NEW queues \in [Ids -> Seq(Jobs)], NEW ready \in SUBSET Ids,
         Deliver(is, line, targets, queues, ready), queues[p] = jobs[p], p \in ready => p \in loading,
         loading' = ready, instances' = instances, connected' = connected,
         p >= nextId' => p >= nextId,
         Holds(inbox', ApplyCached(p)) => Holds(inbox, ApplyCached(p))
  PROVE  Placed(p)'
<1>h. Hands(is, line, targets, queues, ready, p)
  BY DeliverHands DEF Delivers
<1>1. PICK S \in SUBSET Clients, new \in Seq(Jobs) :
        /\ Given(is, line, targets, p, S, new)
        /\ jobs'[p] = IF p \in ready THEN queues[p] ELSE queues[p] \o new
  BY <1>h, Zenon DEF Hands
<1>2. jobs[p] \in Seq(Jobs) /\ new \in Seq(Jobs)
  BY DEF TypeOK
<1>3. Loads(p) /\ (p >= nextId => Absent(p))
  BY DEF Placed
<1>4. cache'[p] \in Seq(Lined)
  BY <1>3, DeliverCaches DEF Loads
<1>5. \A x : Holds(new, x) => x.is = is
  <2>1. \A x : Holds(new, x) => \E c \in S : x = Job(is, c, line)
    BY <1>1, Zenon DEF Given
  <2>2. \A c : Job(is, c, line).is = is
    BY DEF Job
  <2>3. QED
    BY <2>1, <2>2, Zenon
<1>6. ~HoldsKind(new, "load")
  BY <1>5, KindHeld
<1>7. PICK u : u = jobs'[p]
  OBVIOUS
<1>8. u = jobs[p] \/ u = jobs[p] \o new
  BY <1>1, <1>7
<1>9. \A x : Holds(u, x) => Holds(jobs[p], x) \/ x.is = is
  <2>1. ASSUME NEW x, Holds(u, x) PROVE Holds(jobs[p], x) \/ x.is = is
    BY <1>2, <1>5, <1>8, <2>1, HoldsJoined
  <2>2. QED
    BY <2>1
<1>10. \A x : Holds(jobs[p], x) => Holds(u, x)
  BY <1>2, <1>8, HoldsMore
<1>11. OnlyHead(u)
  BY <1>2, <1>3, <1>6, <1>8, HeadLoads DEF Loads
<1>12. HoldsKind(u, "load") <=> HoldsKind(jobs[p], "load")
  BY <1>9, <1>10, KindHeld
<1>13. \A x : Holds(u, x) => x.is # "attach" /\ (x.is = "load" => x.client \in connected)
  BY <1>3, <1>9 DEF Loads
<1>14. Loads(p)'
  <2>1. Lined' = Lined
    BY DEF Lined
  <2>2. cache'[p] \in Seq(Lined)'
    BY <1>4, <2>1
  <2>3. OnlyHead(jobs[p])'
    BY <1>7, <1>11 DEF OnlyHead
  <2>4. HoldsKind(jobs[p], "load")' <=> HoldsKind(jobs[p], "load")
    BY <1>7, <1>12 DEF HoldsKind
  <2>5. \A x : Holds(jobs'[p], x) => x.is # "attach" /\ (x.is = "load" => x.client \in connected')
    BY <1>7, <1>13
  <2>6. HoldsKind(jobs[p], "load")' => ~Holds(inbox', ApplyCached(p))
    BY <1>3, <2>4 DEF Loads
  <2>7. p \in loading' =>
          \A c \in connected' : <<p, c>> \in instances' \/ HoldsKind(jobs[p], "load")'
    BY <1>3, <2>4 DEF Loads
  <2>8. QED
    BY <2>2, <2>3, <2>5, <2>6, <2>7 DEF Loads
<1>15. ASSUME p >= nextId' PROVE Absent(p)'
  <2>1. Absent(p)
    BY <1>3, <1>15
  <2>2. S = {}
    BY <1>1, <2>1 DEF Given, Absent
  <2>3. new = <<>>
    <3>1. \A x : ~Holds(new, x)
      BY <1>1, <2>2 DEF Given
    <3>2. new # <<>> => Holds(new, new[1])
      BY <1>2 DEF Holds
    <3>3. QED
      BY <3>1, <3>2
  <2>4. jobs'[p] = <<>>
    BY <1>7, <1>8, <2>1, <2>3 DEF Absent
  <2>5. QED
    BY <2>1, <2>4 DEF Absent
<1>16. QED
  BY <1>14, <1>15 DEF Placed

\* A line is handed over as things are, or with a new plugin that starts to load.
AsItIs(queues, ready) == queues = jobs /\ ready = loading /\ nextId' = nextId
LoadsNew(queues, ready, c) ==
  /\ nextId \in Ids /\ nextId' = nextId + 1 /\ loading = {} /\ ready = {nextId}
  /\ queues = [jobs EXCEPT ![nextId] = Append(@, Job("load", c, 0))]

PipedTo(targets, queues, ready) ==
  /\ targets \in Targets /\ queues \in [Ids -> Seq(Jobs)] /\ ready \in SUBSET Ids
  /\ PipeTo(Head(inbox).line, targets, queues, ready)
  /\ AsItIs(queues, ready) \/ \E c \in connected : LoadsNew(queues, ready, c)

\* Each way to handle a line is one of these two.
LEMMA CliPipeIs ==
  ASSUME PipeAssumption, TypeOK, HandleCliPipe
  PROVE  \E targets, queues, ready : PipedTo(targets, queues, ready)
<1> DEFINE line == Head(inbox).line
<1>1. jobs \in [Ids -> Seq(Jobs)] /\ loading \in SUBSET Ids
  BY DEF TypeOK
<1>2. instances \in Targets /\ FreshMap \in Targets
  BY TargetTypes DEF TypeOK, FreshMap
<1> HIDE DEF line
<1>3. ASSUME NEW targets \in Targets, PipeTo(line, targets, jobs, loading), nextId' = nextId
      PROVE  PipedTo(targets, jobs, loading)
  BY <1>1, <1>3 DEF PipedTo, AsItIs, line
<1>4. ASSUME NEW p \in loading, PipeTo(line, {<<p, Nobody>>}, jobs, loading), nextId' = nextId
      PROVE  PipedTo({<<p, Nobody>>}, jobs, loading)
  <2>1. {<<p, Nobody>>} \in Targets
    BY TargetTypes DEF TypeOK
  <2>2. QED
    BY <1>3, <1>4, <2>1
<1>5. ASSUME NEW c \in connected, nextId <= LastId, nextId' = nextId + 1, loading = {},
             PipeTo(line, {<<nextId, c>>},
                    [jobs EXCEPT ![nextId] = Append(@, Job("load", c, 0))], {nextId})
      PROVE  \E targets, queues, ready : PipedTo(targets, queues, ready)
  <2>1. PICK queues : queues = [jobs EXCEPT ![nextId] = Append(@, Job("load", c, 0))]
    OBVIOUS
  <2>2. nextId \in Ids
    BY <1>5 DEF TypeOK, Ids, PipeAssumption
  <2>3. PICK targets : targets = {<<nextId, c>>}
    OBVIOUS
  <2>4. targets \in Targets
    BY <2>2, <2>3, TargetTypes DEF TypeOK
  <2>5. Job("load", c, 0) \in Jobs
    BY DEF Job, Jobs, TypeOK, PipeAssumption
  <2>6. queues \in [Ids -> Seq(Jobs)]
    BY <2>1, <2>2, <2>5 DEF TypeOK
  <2>7. PipeTo(line, targets, queues, {nextId})
    BY <1>5, <2>1, <2>3
  <2>8. PICK ready : ready = {nextId}
    OBVIOUS
  <2>9. LoadsNew(queues, ready, c)
    BY <1>5, <2>1, <2>2, <2>8 DEF LoadsNew
  <2>10. PipedTo(targets, queues, ready)
    BY <2>2, <2>4, <2>6, <2>7, <2>8, <2>9 DEF PipedTo, line
  <2>11. QED
    BY <2>10
<1>6. \/ PipeTo(line, instances, jobs, loading) /\ nextId' = nextId
      \/ PipeToPlugin(line)
  BY DEF HandleCliPipe, line
<1>7. PipeToPlugin(line) =>
        \/ PipeTo(line, FreshMap, jobs, loading) /\ nextId' = nextId
        \/ (\E p \in loading : PipeTo(line, {<<p, Nobody>>}, jobs, loading)) /\ nextId' = nextId
        \/ /\ loading = {} /\ nextId <= LastId /\ nextId' = nextId + 1
           /\ \E c \in connected :
                PipeTo(line, {<<nextId, c>>},
                       [jobs EXCEPT ![nextId] = Append(@, Job("load", c, 0))], {nextId})
  BY DEF PipeToPlugin
<1>8. QED
  BY <1>2, <1>3, <1>4, <1>5, <1>6, <1>7

\* The plugins a line is handed to can take it.
LEMMA PipedReceives ==
  ASSUME PipeAssumption, TypeOK, LoadInv, NEW targets, NEW queues, NEW ready,
         PipedTo(targets, queues, ready), NEW p \in Ids
  PROVE  Receives(queues, ready, p)
<1>1. Loads(p)
  BY DEF LoadInv, Placed
<1>2. CASE AsItIs(queues, ready)
  BY <1>1, <1>2 DEF AsItIs, Receives, Loads
<1>3. ASSUME NEW c \in connected, LoadsNew(queues, ready, c) PROVE Receives(queues, ready, p)
  <2>1. p # nextId => queues[p] = jobs[p] /\ p \notin ready
    BY <1>3 DEF LoadsNew, TypeOK
  <2>2. p \notin loading
    BY <1>3 DEF LoadsNew
  <2>3. CASE p = nextId
    <3>1. queues[p] = Append(jobs[p], Job("load", c, 0))
      BY <1>3, <2>3 DEF LoadsNew, TypeOK
    <3>2. Job("load", c, 0) \in Jobs /\ jobs[p] \in Seq(Jobs) /\ Job("load", c, 0).is = "load"
      <4>1. c \in Clients /\ 0 \in 0 .. MaxLines
        BY DEF TypeOK, PipeAssumption
      <4>2. QED
        BY <4>1 DEF Job, Jobs, TypeOK
    <3>3. /\ Holds(queues[p], Job("load", c, 0))
          /\ \A x : Holds(jobs[p], x) => Holds(queues[p], x)
      BY ONLY <3>1, <3>2, GrowsBy
    <3>4. HoldsKind(queues[p], "load")
      BY <3>2, <3>3, KindHeld
    <3>5. QED
      BY <2>2, <3>3, <3>4 DEF Receives
  <2>4. QED
    BY <2>1, <2>2, <2>3 DEF Receives
<1>4. QED
  BY <1>2, <1>3 DEF PipedTo

\* A new plugin is placed when its load is in its queue.
LEMMA NewPlaced ==
  ASSUME PipeAssumption, TypeOK, TypeOK', LoadInv, NEW targets, NEW queues, NEW ready,
         PipedTo(targets, queues, ready), NEW c \in connected, LoadsNew(queues, ready, c),
         ReceiveNext("CliPipe"), instances' = instances, connected' = connected
  PROVE  \A p \in Ids : Placed(p)'
<1>1. Head(inbox) \in Messages /\ Head(inbox).line \in Lines /\ inbox # <<>> /\ inbox' = Tail(inbox)
  BY ReceiveType, MessageParts DEF ReceiveNext
<1>2. PICK line : line = Head(inbox).line
  OBVIOUS
<1>3. line \in Lines /\ line \in 0 .. MaxLines /\ Cached("pipe", line) \in Lined
  BY <1>1, <1>2 DEF Lines, Lined, Cached, Job, CachedItems, PipeAssumption
<1>4. /\ Deliver("pipe", line, targets, queues, ready) /\ loading' = ready
      /\ targets \in Targets /\ queues \in [Ids -> Seq(Jobs)] /\ ready \in SUBSET Ids
  BY <1>2 DEF PipedTo, PipeTo
<1>5. /\ nextId \in Ids /\ nextId' = nextId + 1 /\ ready = {nextId} /\ nextId \in Nat
      /\ queues = [jobs EXCEPT ![nextId] = Append(@, Job("load", c, 0))]
  BY DEF LoadsNew, TypeOK
<1>6. \A p \in Ids : Holds(inbox', ApplyCached(p)) => Holds(inbox, ApplyCached(p))
  BY <1>1, HoldsTail DEF TypeOK
<1>7. ASSUME NEW p \in Ids, p # nextId PROVE Placed(p)'
  <2>a. p \in Nat /\ jobs \in [Ids -> Seq(Jobs)]
    BY DEF Ids, TypeOK
  <2>b. p >= nextId' => p >= nextId
    BY <1>5, <2>a
  <2>c. queues[p] = jobs[p] /\ p \notin ready
    BY <1>5, <1>7, <2>a
  <2>1. queues[p] = jobs[p] /\ p \notin ready /\ Placed(p) /\ (p >= nextId' => p >= nextId)
    BY <2>b, <2>c DEF LoadInv
  <2>2. "pipe" \in {"pipe", "event"}
    OBVIOUS
  <2>3. QED
    BY <1>3, <1>4, <1>5, <1>6, <2>1, <2>2, DeliverPlaced
<1>8. ASSUME NEW p \in Ids, p = nextId PROVE Placed(p)'
  <2>1. Absent(p) /\ Loads(p)
    BY <1>5, <1>8 DEF LoadInv, Placed
  <2>2. PICK u : u = jobs'[p]
    OBVIOUS
  <2>3. Hands("pipe", line, targets, queues, ready, p)
    BY <1>3, <1>4, DeliverHands DEF Delivers
  <2>4. u = queues[p]
    BY <1>5, <1>8, <2>2, <2>3 DEF Hands
  <2>5. u = <<Job("load", c, 0)>>
    <3>1. jobs[p] = <<>>
      BY <2>1 DEF Absent
    <3>2. jobs \in [Ids -> Seq(Jobs)]
      BY DEF TypeOK
    <3>3. queues[p] = Append(jobs[p], Job("load", c, 0))
      BY <1>5, <1>8, <3>2
    <3>4. QED
      BY <2>4, <3>1, <3>3
  <2>6. cache'[p] \in Seq(Lined)
    BY <1>3, <1>4, <2>1, DeliverCaches DEF Loads
  <2>7. /\ OnlyHead(u) /\ HoldsKind(u, "load")
        /\ \A x : Holds(u, x) => x.is # "attach" /\ (x.is = "load" => x.client \in connected)
    BY <2>5 DEF OnlyHead, HoldsKind, Holds, Job
  <2>8. ~Holds(inbox', ApplyCached(p))
    BY <1>6, <2>1 DEF Absent
  <2>9. Loads(p)'
    <3>1. (cache[p] \in Seq(Lined))'
      BY <2>6 DEF Lined, CachedItems, Lines
    <3>2. (OnlyHead(jobs[p]) /\ HoldsKind(jobs[p], "load"))'
      BY <2>2, <2>7 DEF OnlyHead, HoldsKind
    <3>3. \A x : Holds(jobs'[p], x) => x.is # "attach" /\ (x.is = "load" => x.client \in connected')
      BY <2>2, <2>7
    <3>4. QED
      BY <2>8, <3>1, <3>2, <3>3 DEF Loads
  <2>10. ~(p >= nextId')
    BY <1>5, <1>8
  <2>11. QED
    BY <2>9, <2>10 DEF Placed
<1>9. QED
  BY <1>7, <1>8

\* A step of which no plugin says that it has loaded.
SaysNoLoad ==
  \/ inbox' = inbox
  \/ \E x : inbox' = Append(inbox, x) /\ x.is # "ApplyCached"
  \/ inbox # <<>> /\ inbox' = Tail(inbox)

\* After such a step a plugin has said so only if it had before.
LEMMA SaidBefore ==
  ASSUME TypeOK, TypeOK', SaysNoLoad
  PROVE  \A p \in Ids : Holds(inbox', ApplyCached(p)) => Holds(inbox, ApplyCached(p))
<1>1. inbox \in Seq(Messages) /\ inbox' \in Seq(Messages)
  BY DEF TypeOK
<1>2. ASSUME NEW p \in Ids, Holds(inbox', ApplyCached(p)) PROVE Holds(inbox, ApplyCached(p))
  <2>1. ASSUME NEW x, inbox' = Append(inbox, x), x.is # "ApplyCached"
        PROVE  Holds(inbox, ApplyCached(p))
    <3>1. x \in Messages
      <4>1. Len(inbox) + 1 \in 1 .. Len(inbox') /\ inbox'[Len(inbox) + 1] = x
        BY <1>1, <2>1
      <4>2. QED
        BY <1>1, <4>1
    <3>2. x # ApplyCached(p)
      BY <2>1 DEF ApplyCached, Message
    <3>3. QED
      BY <1>1, <1>2, <2>1, <3>1, <3>2, HoldsAdded
  <2>2. CASE inbox # <<>> /\ inbox' = Tail(inbox)
    BY <1>1, <1>2, <2>2, HoldsTail
  <2>3. QED
    BY <1>2, <2>1, <2>2 DEF SaysNoLoad
<1>3. QED
  BY <1>2

\* Messages that load nothing.
LEMMA LoadStays ==
  ASSUME TypeOK, TypeOK', LoadInv, SaysNoLoad,
         UNCHANGED <<jobs, cache, instances, connected, nextId, loading>>,
         pending'.by \subseteq pending.by, \A x : Holds(screen', x) => x.is = "Answer"
  PROVE  LoadInv'
<1>1. \A p \in Ids : Holds(inbox', ApplyCached(p)) => Holds(inbox, ApplyCached(p))
  BY SaidBefore
<1>2. \A p \in Ids : Placed(p)'
  BY <1>1, PlacedStays DEF LoadInv
<1>3. \A i \in instances' \cup pending'.by : i[2] \in connected'
  BY DEF LoadInv
<1>4. QED
  BY <1>2, <1>3 DEF LoadInv

\* A line changes neither who is connected nor which instances there are.
LEMMA LoadPiped ==
  ASSUME PipeAssumption, TypeOK, TypeOK', LoadInv, HandleCliPipe
  PROVE  LoadInv'
<1>1. PICK targets, queues, ready : PipedTo(targets, queues, ready)
  BY CliPipeIs
<1>2. /\ ReceiveNext("CliPipe") /\ instances' = instances /\ connected' = connected
      /\ screen' = screen
  BY DEF HandleCliPipe
<1>3. PICK line : line = Head(inbox).line
  OBVIOUS
<1>4. /\ PipeTo(line, targets, queues, ready) /\ Deliver("pipe", line, targets, queues, ready)
      /\ loading' = ready /\ targets \in Targets /\ queues \in [Ids -> Seq(Jobs)]
      /\ ready \in SUBSET Ids
  BY <1>1, <1>3 DEF PipedTo, PipeTo
<1>5. \A p \in Ids : Placed(p)'
  <2>1. ASSUME NEW c \in connected, LoadsNew(queues, ready, c) PROVE \A p \in Ids : Placed(p)'
    BY <1>1, <1>2, <2>1, NewPlaced
  <2>2. ASSUME AsItIs(queues, ready), NEW p \in Ids PROVE Placed(p)'
    <3>1. line \in Lines
      BY <1>2, <1>3, ReceiveType, MessageParts
    <3>2. line \in 0 .. MaxLines /\ Cached("pipe", line) \in Lined
      BY <3>1 DEF Lines, Lined, Cached, Job, CachedItems, PipeAssumption
    <3>3. queues[p] = jobs[p] /\ (p \in ready => p \in loading) /\ nextId' = nextId
      BY <2>2 DEF AsItIs
    <3>4. Holds(inbox', ApplyCached(p)) => Holds(inbox, ApplyCached(p))
      BY <1>2, SaidBefore DEF ReceiveNext, SaysNoLoad
    <3>5. nextId \in Nat /\ Placed(p) /\ "pipe" \in {"pipe", "event"}
      BY DEF TypeOK, LoadInv
    <3>6. QED
      BY <1>2, <1>4, <3>2, <3>3, <3>4, <3>5, DeliverPlaced
  <2>3. QED
    BY <1>1, <2>1, <2>2 DEF PipedTo
<1>6. \A i \in instances' \cup pending'.by : i[2] \in connected'
  <2>1. pending'.by \subseteq pending.by \cup MarkedFor(targets, ready)
    BY <1>4 DEF PipeTo, Mark, TypeOK
  <2>2. \A i \in MarkedFor(targets, ready) : i \in instances \/ i[2] \in connected
    BY DEF MarkedFor
  <2>3. QED
    BY <1>2, <2>1, <2>2 DEF LoadInv
<1>7. QED
  BY <1>2, <1>5, <1>6 DEF LoadInv

\* An event loads nothing either.
LEMMA LoadUpdated ==
  ASSUME PipeAssumption, TypeOK, TypeOK', LoadInv, HandleUpdate
  PROVE  LoadInv'
<1>1. PICK targets : targets = {<<Head(inbox).plugin, Nobody>>}
  OBVIOUS
<1>2. /\ ReceiveNext("Update") /\ UNCHANGED <<screen, loading, instances, connected, nextId, pending>>
      /\ Deliver("event", 0, targets, jobs, loading)
  BY <1>1 DEF HandleUpdate
<1>3. Head(inbox).plugin \in Ids
  BY <1>2, ReceiveType, MessageParts
<1>4. targets \in Targets
  BY <1>1, <1>3, TargetTypes
<1>5. 0 \in 0 .. MaxLines /\ Cached("event", 0) \in Lined
  BY DEF Lined, Cached, Job, CachedItems, PipeAssumption
<1>6. jobs \in [Ids -> Seq(Jobs)] /\ loading \in SUBSET Ids /\ nextId \in Nat
  BY DEF TypeOK
<1>7. \A p \in Ids : Holds(inbox', ApplyCached(p)) => Holds(inbox, ApplyCached(p))
  BY <1>2, SaidBefore DEF ReceiveNext, SaysNoLoad
<1>8. ASSUME NEW p \in Ids PROVE Placed(p)'
  <2>1. Placed(p) /\ "event" \in {"pipe", "event"}
    BY DEF LoadInv
  <2>2. QED
    BY <1>2, <1>4, <1>5, <1>6, <1>7, <2>1, DeliverPlaced
<1>9. QED
  BY <1>2, <1>8 DEF LoadInv

\* What a message says, it was made to say.
LEMMA MessageIs ==
  ASSUME NEW m \in Messages
  PROVE  /\ m.is = "ApplyCached" => m = ApplyCached(m.plugin)
         /\ m.is = "Answer" => m = Answer(<<m.plugin, m.client>>, m.change)
         /\ m.is = "AddClient" => m.client \in Attaches
<1>1. CASE m \in {CliPipe(line) : line \in Lines}
  BY <1>1 DEF CliPipe, Message
<1>2. CASE m \in {Answer(i, change) : i \in Instances, change \in Changes}
  <2>1. PICK i \in Instances, change \in Changes : m = Answer(i, change)
    BY <1>2
  <2>2. i = <<i[1], i[2]>>
    BY DEF Instances
  <2>3. m.is = "Answer" /\ m.plugin = i[1] /\ m.client = i[2] /\ m.change = change
    BY <2>1 DEF Answer, Message
  <2>4. QED
    BY <2>1, <2>2, <2>3
<1>3. CASE m \in {ApplyCached(p) : p \in Ids}
  BY <1>3 DEF ApplyCached, Message
<1>4. CASE m \in {AddClient(c) : c \in Attaches}
  BY <1>4 DEF AddClient, Message
<1>5. CASE m \in {Unload(p) : p \in Unloads} \cup {Update(p) : p \in Ids}
  BY <1>5 DEF Unload, Update, Message
<1>6. QED
  BY <1>1, <1>2, <1>3, <1>4, <1>5 DEF Messages

\* A plugin that has loaded gets what was cached, for all of its instances.
LEMMA LoadApplied ==
  ASSUME PipeAssumption, TypeOK, TypeOK', LoadInv, HandleApplyCached
  PROVE  LoadInv'
<1>1. PICK q : q = Head(inbox).plugin
  OBVIOUS
<1>2. /\ ReceiveNext("ApplyCached") /\ jobs' = [jobs EXCEPT ![q] = @ \o Flushed(q)]
      /\ cache' = [cache EXCEPT ![q] = <<>>] /\ loading' = loading \ {q}
      /\ UNCHANGED <<screen, pending, connected, nextId, instances>>
  BY <1>1 DEF HandleApplyCached
<1>3. Head(inbox) \in Messages /\ q \in Ids /\ Head(inbox) = ApplyCached(q)
  <2>1. Head(inbox) \in Messages /\ Head(inbox).is = "ApplyCached"
    BY <1>2, ReceiveType
  <2>2. PICK m \in Messages : m = Head(inbox)
    BY <2>1
  <2>3. m.plugin \in Ids /\ m = ApplyCached(m.plugin)
    BY <2>1, <2>2, MessageParts, MessageIs
  <2>4. QED
    BY <1>1, <2>1, <2>2, <2>3
<1>4. \A p \in Ids : Holds(inbox', ApplyCached(p)) => Holds(inbox, ApplyCached(p))
  BY <1>2, SaidBefore DEF ReceiveNext, SaysNoLoad
<1>5. ASSUME NEW p \in Ids, p # q PROVE Placed(p)'
  <2>1. jobs'[p] = jobs[p] /\ cache'[p] = cache[p] /\ (p \in loading' => p \in loading)
    BY <1>2, <1>5 DEF TypeOK
  <2>2. QED
    BY <1>2, <1>4, <2>1, PlacedStays DEF LoadInv
<1>6. Placed(q)'
  <2>1. Holds(inbox, ApplyCached(q))
    BY <1>2, <1>3, HoldsTail DEF ReceiveNext, TypeOK
  <2>2. Loads(q) /\ ~(q >= nextId)
    BY <1>3, <2>1 DEF LoadInv, Placed, Absent
  <2>3. ~HoldsKind(jobs[q], "load")
    BY <2>1, <2>2 DEF Loads
  <2>4. PICK new \in Seq(Jobs) : new = Flushed(q)
    BY <1>3, FlushedType
  <2>5. PICK u : u = jobs'[q]
    OBVIOUS
  <2>6. jobs[q] \in Seq(Jobs) /\ u = jobs[q] \o new
    BY <1>2, <1>3, <2>4, <2>5 DEF TypeOK
  <2>7. \A x : Holds(new, x) => x.is \in {"pipe", "event"}
    BY <1>3, <2>4, FlushedKinds
  <2>8. \A x : Holds(u, x) => Holds(jobs[q], x) \/ Holds(new, x)
    BY <2>6, HoldsJoined
  <2>9. \A x : Holds(u, x) => x.is # "attach" /\ x.is # "load"
    BY <2>2, <2>3, <2>7, <2>8, KindHeld DEF Loads
  <2>10. ~HoldsKind(u, "load")
    BY <2>9, KindHeld
  <2>11. OnlyHead(u)
    BY <2>10 DEF OnlyHead, HoldsKind
  <2>12. cache'[q] = <<>> /\ q \notin loading'
    BY <1>2, <1>3 DEF TypeOK
  <2>13. Loads(q)'
    <3>1. (cache[q] \in Seq(Lined))'
      BY <2>12
    <3>2. (OnlyHead(jobs[q]) /\ ~HoldsKind(jobs[q], "load"))'
      BY <2>5, <2>10, <2>11 DEF OnlyHead, HoldsKind
    <3>3. \A x : Holds(jobs'[q], x) => x.is # "attach" /\ (x.is = "load" => x.client \in connected')
      BY <2>5, <2>9
    <3>4. QED
      BY <2>12, <3>1, <3>2, <3>3 DEF Loads
  <2>14. ~(q >= nextId')
    BY <1>2, <2>2
  <2>15. QED
    BY <2>13, <2>14 DEF Placed
<1>7. QED
  BY <1>2, <1>5, <1>6 DEF LoadInv

\* An unload leaves nothing of the plugin, and the others as they are.
LEMMA LoadUnloaded ==
  ASSUME PipeAssumption, TypeOK, TypeOK', LoadInv, HandleUnload
  PROVE  LoadInv'
<1>1. PICK q : q = Head(inbox).plugin
  OBVIOUS
<1>2. /\ ReceiveNext("Unload") /\ jobs[q] = <<>>
      /\ instances' = {i \in instances : i[1] # q}
      /\ cache' = [cache EXCEPT ![q] = <<>>] /\ loading' = loading \ {q}
      /\ UNCHANGED <<screen, jobs, connected, nextId>>
  BY <1>1 DEF HandleUnload
<1>3. q \in Ids
  BY <1>1, <1>2, ReceiveType, MessageParts
<1>4. \A p \in Ids : Holds(inbox', ApplyCached(p)) => Holds(inbox, ApplyCached(p))
  BY <1>2, SaidBefore DEF ReceiveNext, SaysNoLoad
<1>5. ASSUME NEW p \in Ids, p # q PROVE Placed(p)'
  <2>1. jobs'[p] = jobs[p] /\ cache'[p] = cache[p] /\ (p \in loading' => p \in loading)
    BY <1>2, <1>5 DEF TypeOK
  <2>2. \A i : i[1] = p => (i \in instances' <=> i \in instances)
    BY <1>2, <1>5
  <2>3. QED
    BY <1>2, <1>4, <2>1, <2>2, PlacedStays DEF LoadInv
<1>6. Placed(q)'
  <2>1. jobs'[q] = <<>> /\ cache'[q] = <<>> /\ q \notin loading'
    BY <1>2, <1>3 DEF TypeOK
  <2>2. \A i \in instances' : i[1] # q
    BY <1>2
  <2>3. Loads(q)'
    <3>1. (cache[q] \in Seq(Lined))'
      BY <2>1
    <3>2. (OnlyHead(jobs[q]) /\ ~HoldsKind(jobs[q], "load"))'
      BY <2>1 DEF OnlyHead, HoldsKind
    <3>3. \A x : ~Holds(jobs'[q], x)
      BY <2>1 DEF Holds
    <3>4. QED
      BY <2>1, <3>1, <3>2, <3>3 DEF Loads
  <2>4. q >= nextId' => Absent(q)'
    BY <1>2, <1>3, <1>4, <2>1, <2>2 DEF LoadInv, Placed, Absent
  <2>5. QED
    BY <2>3, <2>4 DEF Placed
<1>7. pending'.by \subseteq pending.by
  <2>1. pending' = pending \/ pending' = Remaining(UnloadInfo(pending, q))
    BY <1>1 DEF HandleUnload, Settle
  <2>2. UnloadInfo(pending, q).by \subseteq pending.by
    BY DEF UnloadInfo, TypeOK
  <2>3. QED
    BY <2>1, <2>2 DEF Remaining, Unknown
<1>8. QED
  BY <1>2, <1>5, <1>6, <1>7 DEF LoadInv

\* A load makes the instances of the connected clients, and says that it has.
LEMMA LoadRun ==
  ASSUME PipeAssumption, Undisturbed, TypeOK, TypeOK', LoadInv, NEW q \in Ids, RunLoad(q)
  PROVE  LoadInv'
<1>1. /\ jobs[q] # <<>> /\ Head(jobs[q]).is \in {"load", "attach"}
      /\ jobs' = [jobs EXCEPT ![q] = Tail(@)]
      /\ inbox' = Append(inbox, ApplyCached(q))
      /\ UNCHANGED <<screen, pending, loading, cache, connected, nextId>>
  BY DEF RunLoad, NextJob, Undisturbed, threadVars
<1>2. jobs[q] \in Seq(Jobs) /\ jobs \in [Ids -> Seq(Jobs)] /\ inbox \in Seq(Messages)
  BY DEF TypeOK
<1>3. Holds(jobs[q], Head(jobs[q]))
  BY <1>1, <1>2, HoldsTail
<1>4. Loads(q)
  BY DEF LoadInv, Placed
<1>5. Head(jobs[q]).is = "load" /\ Head(jobs[q]).client \in connected
  BY <1>1, <1>3, <1>4 DEF Loads
<1>6. instances' = instances \cup ({q} \X connected)
  <2>1. instances' = instances \cup ({q} \X ({Head(jobs[q]).client} \cup connected))
    BY <1>5 DEF RunLoad, NextJob, Undisturbed
  <2>2. {Head(jobs[q]).client} \cup connected = connected
    BY <1>5
  <2>3. QED
    BY <2>1, <2>2
<1>7. ApplyCached(q) \in Messages
  BY MessageTypes
<1>8. \A x : Holds(inbox', x) <=> x = ApplyCached(q) \/ Holds(inbox, x)
  <2>1. PICK u, y : u = inbox' /\ y = ApplyCached(q)
    OBVIOUS
  <2>2. inbox \in Seq(Messages) /\ y \in Messages /\ u = Append(inbox, y)
    BY <1>1, <1>2, <1>7, <2>1
  <2>3. \A x : Holds(u, x) <=> x = y \/ Holds(inbox, x)
    BY ONLY <2>2, HoldsAdded
  <2>4. QED
    BY <2>1, <2>3
<1>9. ASSUME NEW p \in Ids, p # q PROVE Placed(p)'
  <2>1. jobs'[p] = jobs[p] /\ cache'[p] = cache[p]
    BY <1>1, <1>2, <1>9
  <2>2. \A i : i[1] = p => (i \in instances' <=> i \in instances)
    BY <1>6, <1>9
  <2>3. ApplyCached(p) # ApplyCached(q)
    BY <1>9 DEF ApplyCached, Message
  <2>4. Holds(inbox', ApplyCached(p)) => Holds(inbox, ApplyCached(p))
    BY <1>8, <2>3
  <2>5. QED
    BY <1>1, <2>1, <2>2, <2>4, PlacedStays DEF LoadInv
<1>10. Placed(q)'
  <2>1. PICK u : u = jobs'[q]
    OBVIOUS
  <2>2. u = Tail(jobs[q])
    BY <1>1, <1>2, <2>1
  <2>3. ~HoldsKind(u, "load") /\ OnlyHead(u)
    BY <1>1, <1>2, <1>4, <2>2, HeadLoads DEF Loads
  <2>4. \A x : Holds(u, x) => Holds(jobs[q], x)
    BY <1>1, <1>2, <2>2, HoldsTail
  <2>5. Loads(q)'
    <3>1. (cache[q] \in Seq(Lined))'
      BY <1>1, <1>4 DEF Loads, Lined, CachedItems, Lines
    <3>2. (OnlyHead(jobs[q]) /\ ~HoldsKind(jobs[q], "load"))'
      BY <2>1, <2>3 DEF OnlyHead, HoldsKind
    <3>3. \A x : Holds(jobs'[q], x) => x.is # "attach" /\ (x.is = "load" => x.client \in connected')
      BY <1>1, <1>4, <2>1, <2>4 DEF Loads
    <3>4. \A c \in connected' : <<q, c>> \in instances'
      BY <1>1, <1>6
    <3>5. QED
      BY <3>1, <3>2, <3>3, <3>4 DEF Loads
  <2>6. ~(q >= nextId')
    BY <1>1 DEF LoadInv, Placed, Absent
  <2>7. QED
    BY <2>5, <2>6 DEF Placed
<1>11. \A i \in instances' \cup pending'.by : i[2] \in connected'
  BY <1>1, <1>6 DEF LoadInv
<1>12. QED
  BY <1>1, <1>9, <1>10, <1>11 DEF LoadInv

\* A plugin's answer, if any, goes to one of the channels.
AnswersOnly ==
  \/ UNCHANGED <<inbox, screen>>
  \/ \E i \in Instances, change \in Changes :
       \/ screen' = Append(screen, Answer(i, change)) /\ inbox' = inbox
       \/ inbox' = Append(inbox, Answer(i, change)) /\ screen' = screen

\* The job a plugin has done was none that loads it.
LEMMA LoadPluginRun ==
  ASSUME PipeAssumption, TypeOK, TypeOK', LoadInv, NEW q \in Ids, RunPlugin(q)
  PROVE  LoadInv'
<1>1. /\ jobs[q] # <<>> /\ Head(jobs[q]).is \in {"pipe", "event"}
      /\ jobs' = [jobs EXCEPT ![q] = Tail(@)]
      /\ UNCHANGED <<pending, loading, cache, connected, nextId, instances>>
  BY DEF RunPlugin, NextJob, threadVars
<1>2. jobs[q] \in Seq(Jobs) /\ jobs \in [Ids -> Seq(Jobs)] /\ inbox \in Seq(Messages)
      /\ screen \in Seq(Messages)
  BY DEF TypeOK
<1>3. Head(jobs[q]) \in Jobs
  BY <1>1, <1>2
<1>4. AnswersOnly
  <2>1. PICK change \in Answers(q, Head(jobs[q])) :
          IF change = "none" THEN UNCHANGED <<inbox, screen>>
          ELSE \/ screen' = Append(screen, Answer(<<q, Head(jobs[q]).client>>, change))
                  /\ UNCHANGED inbox
               \/ inbox' = Append(inbox, Answer(<<q, Head(jobs[q]).client>>, change))
                  /\ UNCHANGED screen
    BY DEF RunPlugin, NextJob
  <2>2. change \in Changes \cup {"none"}
    BY DEF Answers, PipeAssumption, Changes
  <2>3. <<q, Head(jobs[q]).client>> \in Instances
    BY <1>3 DEF Jobs, Instances
  <2>4. QED
    BY <2>1, <2>2, <2>3 DEF AnswersOnly
<1>5. \A i, change : Answer(i, change).is = "Answer"
  BY DEF Answer, Message
<1>6. SaysNoLoad
  BY <1>4, <1>5 DEF AnswersOnly, SaysNoLoad
<1>7. \A x : Holds(screen', x) => x.is = "Answer"
  <2>1. ASSUME NEW i \in Instances, NEW change \in Changes, screen' = Append(screen, Answer(i, change)),
               NEW x, Holds(screen', x)
        PROVE  x.is = "Answer"
    <3>1. Answer(i, change) \in Messages
      BY MessageTypes
    <3>2. PICK u, y : u = screen' /\ y = Answer(i, change)
      OBVIOUS
    <3>3. screen \in Seq(Messages) /\ y \in Messages /\ u = Append(screen, y) /\ Holds(u, x)
      BY <1>2, <2>1, <3>1, <3>2
    <3>4. x = y \/ Holds(screen, x)
      BY ONLY <3>3, HoldsAdded
    <3>5. QED
      BY <1>5, <3>2, <3>4 DEF LoadInv
  <2>2. QED
    BY <1>4, <2>1 DEF AnswersOnly, LoadInv
<1>8. \A p \in Ids : Holds(inbox', ApplyCached(p)) => Holds(inbox, ApplyCached(p))
  BY <1>6, SaidBefore
<1>9. ASSUME NEW p \in Ids, p # q PROVE Placed(p)'
  <2>1. jobs'[p] = jobs[p] /\ cache'[p] = cache[p]
    BY <1>1, <1>2, <1>9
  <2>2. QED
    BY <1>1, <1>8, <2>1, PlacedStays DEF LoadInv
<1>10. Placed(q)'
  <2>1. PICK u : u = jobs'[q]
    OBVIOUS
  <2>2. u = Tail(jobs[q]) /\ Loads(q) /\ ~(q >= nextId)
    BY <1>1, <1>2, <2>1 DEF LoadInv, Placed, Absent
  <2>3. ~HoldsKind(u, "load") /\ OnlyHead(u) /\ ~HoldsKind(jobs[q], "load")
    BY <1>1, <1>2, <2>2, HeadLoads DEF Loads
  <2>4. \A x : Holds(u, x) => Holds(jobs[q], x)
    BY <1>1, <1>2, <2>2, HoldsTail
  <2>5. Loads(q)'
    <3>1. (cache[q] \in Seq(Lined))'
      BY <1>1, <2>2 DEF Loads, Lined, CachedItems, Lines
    <3>2. (OnlyHead(jobs[q]) /\ ~HoldsKind(jobs[q], "load"))'
      BY <2>1, <2>3 DEF OnlyHead, HoldsKind
    <3>3. \A x : Holds(jobs'[q], x) => x.is # "attach" /\ (x.is = "load" => x.client \in connected')
      BY <1>1, <2>1, <2>2, <2>4 DEF Loads
    <3>4. q \in loading' => \A c \in connected' : <<q, c>> \in instances'
      BY <1>1, <2>2, <2>3 DEF Loads
    <3>5. QED
      BY <3>1, <3>2, <3>3, <3>4 DEF Loads
  <2>6. QED
    BY <1>1, <2>2, <2>5 DEF Placed
<1>11. QED
  BY <1>1, <1>7, <1>9, <1>10 DEF LoadInv

\* Every step keeps the plugins in their places.
LEMMA LoadStep ==
  ASSUME PipeAssumption, Undisturbed, TypeOK, TypeOK', LoadInv, [Next]_vars
  PROVE  LoadInv'
<1> DEFINE Still == /\ UNCHANGED <<jobs, cache, instances, connected, nextId, loading>>
                    /\ pending'.by \subseteq pending.by
                    /\ \A x : Holds(screen', x) => x.is = "Answer"
<1>1. ASSUME Still, SaysNoLoad PROVE LoadInv'
  BY <1>1, LoadStays
<1>2. ASSUME UNCHANGED <<jobs, threadVars, instances>>, UNCHANGED screen PROVE Still
  BY <1>2 DEF LoadInv, threadVars
<1>3. CASE SendLine
  <2>1. CliPipe(cli.line + 1).is = "CliPipe"
    BY DEF CliPipe, Message
  <2>2. SaysNoLoad
    BY <1>3, <2>1 DEF SendLine, SaysNoLoad
  <2>3. QED
    BY <1>1, <1>2, <1>3, <2>2 DEF SendLine
<1>4. CASE TakeUnblock
  BY <1>1, <1>2, <1>4 DEF TakeUnblock, SaysNoLoad
<1>5. CASE AskAttach
  BY <1>5 DEF AskAttach, Undisturbed
<1>6. CASE AskUnload
  <2>1. \A p : Unload(p).is = "Unload"
    BY DEF Unload, Message
  <2>2. SaysNoLoad
    BY <1>6, <2>1 DEF AskUnload, Ask, SaysNoLoad
  <2>3. QED
    BY <1>1, <1>2, <1>6, <2>2 DEF AskUnload, Ask
<1>7. CASE SendEvent
  <2>1. \A p : Update(p).is = "Update"
    BY DEF Update, Message
  <2>2. SaysNoLoad
    BY <1>7, <2>1 DEF SendEvent, SaysNoLoad
  <2>3. QED
    BY <1>1, <1>2, <1>7, <2>2 DEF SendEvent
<1>8. CASE HandleCliPipe
  BY <1>8, LoadPiped
<1>9. CASE HandleUpdate
  BY <1>9, LoadUpdated
<1>10. CASE HandleAnswer
  <2>1. PICK i : pending' = Remaining(UpdateInfo(pending, Head(inbox).change, i))
                 \/ pending' = Remaining(Unknown)
    BY <1>10 DEF HandleAnswer, Settle
  <2>2. UpdateInfo(pending, Head(inbox).change, i).by \subseteq pending.by
    BY DEF UpdateInfo, TypeOK
  <2>3. pending'.by \subseteq pending.by
    BY <2>1, <2>2 DEF Remaining, Unknown
  <2>4. SaysNoLoad
    BY <1>10 DEF HandleAnswer, ReceiveNext, SaysNoLoad
  <2>5. Still
    BY <1>10, <2>3 DEF HandleAnswer, LoadInv
  <2>6. QED
    BY <1>1, <2>4, <2>5
<1>11. CASE HandleApplyCached
  BY <1>11, LoadApplied
<1>12. CASE HandleAddClient
  <2>1. Head(inbox) \in Messages /\ Head(inbox).is = "AddClient"
    BY <1>12, ReceiveType DEF HandleAddClient
  <2>2. Head(inbox).client \in Attaches
    BY <2>1, MessageIs
  <2>3. QED
    BY <2>2 DEF Undisturbed
<1>13. CASE HandleUnload
  BY <1>13, LoadUnloaded
<1>14. ASSUME NEW p \in Ids, RunLoad(p) PROVE LoadInv'
  BY <1>14, LoadRun
<1>15. ASSUME NEW p \in Ids, RunPlugin(p) PROVE LoadInv'
  BY <1>15, LoadPluginRun
<1>16. ASSUME NEW p \in Ids, PluginCrashes(p) PROVE LoadInv'
  BY <1>16 DEF PluginCrashes, Undisturbed
<1>17. CASE ScreenForwards
  <2>1. screen \in Seq(Messages) /\ screen # <<>> /\ screen' = Tail(screen)
        /\ inbox' = Append(inbox, Head(screen))
    BY <1>17 DEF ScreenForwards, TypeOK
  <2>2. Holds(screen, Head(screen)) /\ \A x : Holds(Tail(screen), x) => Holds(screen, x)
    BY <2>1, HoldsTail
  <2>3. Head(screen).is = "Answer"
    BY <2>2 DEF LoadInv
  <2>4. SaysNoLoad
    BY <2>1, <2>3 DEF SaysNoLoad
  <2>5. Still
    BY <1>17, <2>1, <2>2 DEF ScreenForwards, threadVars, LoadInv
  <2>6. QED
    BY <1>1, <2>4, <2>5
<1>18. CASE UNCHANGED vars
  <2>1. SaysNoLoad
    BY <1>18 DEF vars, SaysNoLoad
  <2>2. QED
    BY <1>1, <1>2, <1>18, <2>1 DEF vars
<1>19. QED
  BY <1>3, <1>4, <1>5, <1>6, <1>7, <1>8, <1>9, <1>10, <1>11, <1>12, <1>13, <1>14, <1>15, <1>16,
     <1>17, <1>18 DEF Next, PluginThread

\* At first the plugins that exist run, and nothing is queued.
LEMMA LoadInit ==
  ASSUME PipeAssumption, Init
  PROVE  LoadInv
<1>1. \A x : ~Holds(screen, x)
  BY DEF Init, Holds
<1>2. \A i \in instances \cup pending.by : i[2] \in connected /\ i[1] \in 1 .. Running
  BY DEF Init, Unknown
<1>3. ASSUME NEW p \in Ids PROVE Placed(p)
  <2>1. jobs[p] = <<>> /\ cache[p] = <<>> /\ p \notin loading /\ inbox = <<>>
    BY DEF Init
  <2>2. \A x : ~Holds(jobs[p], x) /\ ~Holds(inbox, x)
    BY <2>1 DEF Holds
  <2>3. OnlyHead(jobs[p]) /\ ~HoldsKind(jobs[p], "load")
    BY <2>1 DEF OnlyHead, HoldsKind
  <2>4. cache[p] \in Seq(Lined)
    BY <2>1
  <2>5. p >= nextId => \A i \in instances : i[1] # p
    <3>1. nextId = Running + 1 /\ Running \in Nat /\ p \in Nat
      BY DEF Init, PipeAssumption, Ids
    <3>2. p >= nextId => p \notin 1 .. Running
      BY <3>1
    <3>3. QED
      BY <1>2, <3>2
  <2>6. QED
    BY <2>1, <2>2, <2>3, <2>4, <2>5 DEF Placed, Absent, Loads
<1>4. QED
  BY <1>1, <1>2, <1>3 DEF LoadInv

-----------------------------------------------------------------------------
(* Steps that take something away from an instance. *)

\* An answer on its way is where it was, or has moved to the other channel.
LEMMA AnswersMove ==
  ASSUME NEW i, AnswerComing(i),
         \A change \in Changes : Holds(inbox, Answer(i, change)) \/ Holds(screen, Answer(i, change))
           => Holds(inbox', Answer(i, change)) \/ Holds(screen', Answer(i, change))
  PROVE  AnswerComing(i)'
  BY DEF AnswerComing

\* Steps that leave the plugins alone.
LEMMA WaitsOn ==
  ASSUME NobodyForgotten, UNCHANGED <<jobs, cache, loading, instances>>,
         pending'.by \subseteq pending.by,
         \A i \in pending'.by : AnswerComing(i) => AnswerComing(i)'
  PROVE  NobodyForgotten'
<1>1. ASSUME NEW i \in pending'.by PROVE Waits(i)'
  <2>1. Waits(i)
    BY WaitsAll
  <2>2. QED
    BY <2>1, WaitsStays
<1>2. QED
  BY <1>1 DEF NobodyForgotten, Waits

\* An event takes nothing away.
LEMMA WaitUpdated ==
  ASSUME PipeAssumption, TypeOK, LoadInv, NobodyForgotten, NoneFull', HandleUpdate
  PROVE  NobodyForgotten'
<1>1. PICK targets : targets = {<<Head(inbox).plugin, Nobody>>}
  OBVIOUS
<1>2. /\ ReceiveNext("Update") /\ UNCHANGED <<screen, loading, instances, pending>>
      /\ Deliver("event", 0, targets, jobs, loading)
  BY <1>1 DEF HandleUpdate
<1>3. Head(inbox).plugin \in Ids
  BY <1>2, ReceiveType, MessageParts
<1>4. targets \in Targets
  BY <1>1, <1>3, TargetTypes
<1>5. 0 \in 0 .. MaxLines /\ "event" \in {"pipe", "event"}
  BY DEF PipeAssumption
<1>6. jobs \in [Ids -> Seq(Jobs)] /\ loading \in SUBSET Ids
  BY DEF TypeOK
<1>7. ASSUME NEW i \in pending.by PROVE Waits(i)'
  <2>1. i \in Instances /\ i[1] \in Ids
    BY DEF TypeOK, Instances
  <2>2. \A change \in Changes : Head(inbox) # Answer(i, change)
    BY <1>2 DEF ReceiveNext, Answer, Message
  <2>3. AnswerComing(i) => AnswerComing(i)'
    BY <1>2, <2>2, AnswersKept DEF ReceiveNext
  <2>4. Receives(jobs, loading, i[1])
    BY <2>1 DEF LoadInv, Placed, Loads, Receives
  <2>5. Waits(i)
    BY WaitsAll
  <2>6. QED
    BY <1>2, <1>4, <1>5, <1>6, <2>1, <2>3, <2>4, <2>5, DeliverWaits
<1>8. QED
  BY <1>2, <1>7 DEF NobodyForgotten, Waits

\* What was cached for the instances of a plugin that has loaded becomes their jobs.
LEMMA WaitApplied ==
  ASSUME PipeAssumption, TypeOK, LoadInv, NobodyForgotten, HandleApplyCached
  PROVE  NobodyForgotten'
<1>1. PICK q : q = Head(inbox).plugin
  OBVIOUS
<1>2. /\ ReceiveNext("ApplyCached") /\ jobs' = [jobs EXCEPT ![q] = @ \o Flushed(q)]
      /\ cache' = [cache EXCEPT ![q] = <<>>] /\ loading' = loading \ {q}
      /\ UNCHANGED <<screen, pending, connected, nextId, instances>>
  BY <1>1 DEF HandleApplyCached
<1>3. Head(inbox) \in Messages /\ Head(inbox).is = "ApplyCached"
  BY <1>2, ReceiveType
<1>4. PICK m \in Messages : m = Head(inbox)
  BY <1>3
<1>5. m.plugin \in Ids /\ m = ApplyCached(m.plugin)
  BY <1>3, <1>4, MessageParts, MessageIs
<1>6. q \in Ids /\ Head(inbox) = ApplyCached(q)
  BY <1>1, <1>4, <1>5
<1>7. Holds(inbox, ApplyCached(q))
  BY <1>2, <1>6, HoldsTail DEF ReceiveNext, TypeOK
<1>8. Loads(q) /\ ~HoldsKind(jobs[q], "load")
  BY <1>6, <1>7 DEF LoadInv, Placed, Loads
<1>9. PICK new \in Seq(Jobs) : new = Flushed(q)
  BY <1>6, FlushedType
<1>10. PICK u : u = jobs'[q]
  OBVIOUS
<1>11. jobs[q] \in Seq(Jobs) /\ u = jobs[q] \o new
  BY <1>2, <1>6, <1>9, <1>10 DEF TypeOK
<1>12. \A x : Holds(u, x) <=> Holds(jobs[q], x) \/ Holds(new, x)
  BY ONLY <1>11, HoldsJoined
<1>13. ASSUME NEW i \in pending.by PROVE Waits(i)'
  <2>1. i \in Instances /\ i[1] \in Ids /\ i[2] \in connected
    BY DEF TypeOK, Instances, LoadInv
  <2>2. \A change \in Changes : Head(inbox) # Answer(i, change)
    BY <1>6 DEF ApplyCached, Answer, Message
  <2>3. AnswerComing(i) => AnswerComing(i)'
    BY <1>2, <2>2, AnswersKept DEF ReceiveNext
  <2>4. Waits(i)
    BY WaitsAll
  <2>5. CASE i[1] # q
    <3>1. jobs'[i[1]] = jobs[i[1]] /\ cache'[i[1]] = cache[i[1]]
          /\ (i[1] \in loading => i[1] \in loading')
      BY <1>2, <2>1, <2>5 DEF TypeOK
    <3>2. QED
      BY <1>2, <2>3, <2>4, <3>1, WaitsStays
  <2>6. CASE i[1] = q
    <3>1. CASE \E line \in Lines : Holds(jobs[q], Job("pipe", i[2], line))
      BY <1>10, <1>12, <2>6, <3>1 DEF Waits
    <3>2. CASE HoldsKind(cache[q], "pipe") /\ i \in instances
      <4>1. PICK x : Holds(cache[q], x) /\ x.is = "pipe"
        BY <3>2, KindHeld
      <4>2. cache[q] \in Seq(Lined)
        BY <1>8 DEF Loads
      <4>3. x \in Lined
        BY ONLY <4>1, <4>2, HeldIn
      <4>4. x \in CachedItems /\ x.line \in Lines
        BY <4>1, <4>3 DEF Lined
      <4>5. i = <<q, i[2]>>
        BY <2>1, <2>6 DEF Instances
      <4>6. Holds(new, [x EXCEPT !.client = i[2]])
        BY <1>6, <1>9, <2>1, <3>2, <4>1, <4>4, <4>5, FlushedHolds
      <4>7. [x EXCEPT !.client = i[2]] = Job("pipe", i[2], x.line)
        BY <4>1, <4>4 DEF CachedItems, Job
      <4>8. Holds(u, Job("pipe", i[2], x.line))
        BY <1>12, <4>6, <4>7
      <4>9. QED
        BY <1>10, <2>6, <4>4, <4>8 DEF Waits
    <3>3. CASE AnswerComing(i)
      BY <2>3, <3>3 DEF Waits
    <3>4. QED
      BY <1>8, <2>4, <2>6, <3>1, <3>2, <3>3 DEF Waits
  <2>7. QED
    BY <2>5, <2>6
<1>14. QED
  BY <1>2, <1>13 DEF NobodyForgotten, Waits

\* An unloaded plugin is not waited for, and the others are as they were.
LEMMA WaitUnloaded ==
  ASSUME PipeAssumption, TypeOK, EntryMeant, NobodyForgotten, HandleUnload
  PROVE  NobodyForgotten'
<1>1. PICK q : q = Head(inbox).plugin
  OBVIOUS
<1>2. /\ ReceiveNext("Unload") /\ jobs' = jobs /\ screen' = screen
      /\ instances' = {i \in instances : i[1] # q}
      /\ cache' = [cache EXCEPT ![q] = <<>>] /\ loading' = loading \ {q}
      /\ IF pending.known THEN pending' = Remaining(UnloadInfo(pending, q)) ELSE pending' = pending
  BY <1>1 DEF HandleUnload, Settle
<1>3. UnloadInfo(pending, q).by = {i \in pending.by : i[1] # q}
  BY DEF UnloadInfo, TypeOK
<1>4. \A i \in pending'.by : i \in pending.by /\ i[1] # q
  BY <1>2, <1>3 DEF Remaining, Unknown, EntryMeant
<1>5. ASSUME NEW i \in pending'.by PROVE Waits(i)'
  <2>1. i \in Instances /\ i[1] \in Ids /\ i[1] # q
    BY <1>4 DEF TypeOK, Instances
  <2>2. \A change \in Changes : Head(inbox) # Answer(i, change)
    BY <1>2 DEF ReceiveNext, Answer, Message
  <2>3. AnswerComing(i) => AnswerComing(i)'
    BY <1>2, <2>2, AnswersKept DEF ReceiveNext
  <2>4. Waits(i)
    BY <1>4, WaitsAll
  <2>5. jobs'[i[1]] = jobs[i[1]] /\ cache'[i[1]] = cache[i[1]]
        /\ (i[1] \in loading => i[1] \in loading') /\ (i \in instances => i \in instances')
    BY <1>2, <2>1 DEF TypeOK
  <2>6. QED
    BY <2>3, <2>4, <2>5, WaitsStays
<1>6. QED
  BY <1>5 DEF NobodyForgotten, Waits

\* An answer ends the wait of its instance only.
LEMMA WaitAnswered ==
  ASSUME PipeAssumption, TypeOK, EntryMeant, NobodyForgotten, HandleAnswer
  PROVE  NobodyForgotten'
<1>1. PICK done : done = <<Head(inbox).plugin, Head(inbox).client>>
  OBVIOUS
<1>2. /\ ReceiveNext("Answer") /\ UNCHANGED <<screen, jobs, cache, loading, instances>>
      /\ \/ pending' = Remaining(UpdateInfo(pending, Head(inbox).change, done))
         \/ pending' = Remaining(Unknown)
  BY <1>1 DEF HandleAnswer, Settle
<1>3. UpdateInfo(pending, Head(inbox).change, done).by = pending.by \ {done}
  BY DEF UpdateInfo, TypeOK
<1>4. pending'.by \subseteq pending.by \ {done}
  BY <1>2, <1>3 DEF Remaining, Unknown
<1>5. ASSUME NEW i \in pending'.by, AnswerComing(i) PROVE AnswerComing(i)'
  <2>1. i \in Instances /\ i # done
    BY <1>4, <1>5 DEF TypeOK
  <2>2. ASSUME NEW change \in Changes PROVE Head(inbox) # Answer(i, change)
    <3>1. Answer(i, change).plugin = i[1] /\ Answer(i, change).client = i[2]
      BY DEF Answer, Message
    <3>2. i = <<i[1], i[2]>>
      BY <2>1 DEF Instances
    <3>3. QED
      BY <1>1, <2>1, <3>1, <3>2
  <2>3. QED
    BY <1>2, <1>5, <2>2, AnswersKept DEF ReceiveNext
<1>6. QED
  BY <1>2, <1>4, <1>5, WaitsOn

\* A load leaves the plugin's other jobs, and its instances take over from it.
LEMMA WaitLoaded ==
  ASSUME PipeAssumption, Undisturbed, TypeOK, LoadInv, NobodyForgotten, NEW q \in Ids, RunLoad(q)
  PROVE  NobodyForgotten'
<1>1. /\ jobs[q] # <<>> /\ Head(jobs[q]).is \in {"load", "attach"}
      /\ jobs' = [jobs EXCEPT ![q] = Tail(@)]
      /\ inbox' = Append(inbox, ApplyCached(q))
      /\ UNCHANGED <<screen, pending, loading, cache, connected, nextId>>
  BY DEF RunLoad, NextJob, Undisturbed, threadVars
<1>2. jobs[q] \in Seq(Jobs) /\ jobs \in [Ids -> Seq(Jobs)]
  BY DEF TypeOK
<1>3. Holds(jobs[q], Head(jobs[q]))
  BY <1>1, <1>2, HoldsTail
<1>4. Head(jobs[q]).is = "load"
  BY <1>1, <1>3 DEF LoadInv, Placed, Loads
<1>5. instances' = instances \cup ({q} \X ({Head(jobs[q]).client} \cup connected))
  BY <1>4 DEF RunLoad, NextJob, Undisturbed
<1>6. ApplyCached(q) \in Messages
  BY MessageTypes
<1>7. ASSUME NEW i \in pending.by PROVE Waits(i)'
  <2>1. i \in Instances /\ i[1] \in Ids /\ i[2] \in connected
    BY DEF TypeOK, Instances, LoadInv
  <2>2. AnswerComing(i) => AnswerComing(i)'
    BY <1>1, <1>6, AnswersKept
  <2>3. Waits(i)
    BY WaitsAll
  <2>4. CASE i[1] # q
    <3>1. jobs'[i[1]] = jobs[i[1]]
      BY <1>1, <1>2, <2>1, <2>4
    <3>2. QED
      BY <1>1, <1>5, <2>2, <2>3, <3>1, WaitsStays
  <2>5. CASE i[1] = q
    <3>1. ASSUME NEW line \in Lines, Holds(jobs[q], Job("pipe", i[2], line))
          PROVE  Holds(jobs'[q], Job("pipe", i[2], line))
      <4>1. Head(jobs[q]) # Job("pipe", i[2], line)
        BY <1>4 DEF Job
      <4>2. Holds(Tail(jobs[q]), Job("pipe", i[2], line))
        BY <1>1, <1>2, <3>1, <4>1, HoldsStays
      <4>3. QED
        BY <1>1, <1>2, <4>2
    <3>2. i = <<q, i[2]>>
      BY <2>1, <2>5 DEF Instances
    <3>3. i \in instances'
      BY <1>5, <2>1, <3>2
    <3>4. QED
      BY <1>1, <2>2, <2>3, <2>5, <3>1, <3>3 DEF Waits
  <2>6. QED
    BY <2>4, <2>5
<1>8. QED
  BY <1>1, <1>7 DEF NobodyForgotten, Waits

\* A plugin that has done a line has answered it.
LEMMA WaitRun ==
  ASSUME PipeAssumption, TypeOK, LoadInv, NobodyForgotten, NEW q \in Ids, RunPlugin(q)
  PROVE  NobodyForgotten'
<1>1. /\ jobs[q] # <<>> /\ Head(jobs[q]).is \in {"pipe", "event"}
      /\ jobs' = [jobs EXCEPT ![q] = Tail(@)]
      /\ UNCHANGED <<pending, loading, cache, connected, nextId, instances>>
  BY DEF RunPlugin, NextJob, threadVars
<1>2. jobs[q] \in Seq(Jobs) /\ jobs \in [Ids -> Seq(Jobs)] /\ inbox \in Seq(Messages)
      /\ screen \in Seq(Messages)
  BY DEF TypeOK
<1>3. PICK change \in Answers(q, Head(jobs[q])) :
        IF change = "none" THEN UNCHANGED <<inbox, screen>>
        ELSE \/ screen' = Append(screen, Answer(<<q, Head(jobs[q]).client>>, change))
                /\ UNCHANGED inbox
             \/ inbox' = Append(inbox, Answer(<<q, Head(jobs[q]).client>>, change))
                /\ UNCHANGED screen
  BY DEF RunPlugin, NextJob
<1>4. change \in Changes \cup {"none"} /\ (Head(jobs[q]).is = "pipe" => change \in Changes)
  BY DEF Answers, PipeAssumption, Changes
<1>5. <<q, Head(jobs[q]).client>> \in Instances
  <2>1. Head(jobs[q]) \in Jobs
    BY <1>1, <1>2
  <2>2. Head(jobs[q]).client \in Clients
    BY <2>1 DEF Jobs
  <2>3. QED
    BY <2>2 DEF Instances
<1>6. change \in Changes => Answer(<<q, Head(jobs[q]).client>>, change) \in Messages
  BY <1>5, MessageTypes
<1>7. PICK y, v, w : v = inbox' /\ w = screen' /\ y = Answer(<<q, Head(jobs[q]).client>>, change)
  OBVIOUS
<1>8. /\ inbox \in Seq(Messages) /\ screen \in Seq(Messages)
      /\ \/ change = "none" /\ v = inbox /\ w = screen
         \/ y \in Messages /\ w = Append(screen, y) /\ v = inbox
         \/ y \in Messages /\ v = Append(inbox, y) /\ w = screen
  BY <1>2, <1>3, <1>4, <1>6, <1>7
<1>9. /\ \A x : (Holds(inbox, x) => Holds(v, x)) /\ (Holds(screen, x) => Holds(w, x))
      /\ change \in Changes => Holds(v, y) \/ Holds(w, y)
  <2>1. CASE change = "none" /\ v = inbox /\ w = screen
    BY <2>1 DEF Changes
  <2>2. CASE y \in Messages /\ w = Append(screen, y) /\ v = inbox
    BY ONLY <1>8, <2>2, GrowsBy
  <2>3. CASE y \in Messages /\ v = Append(inbox, y) /\ w = screen
    BY ONLY <1>8, <2>3, GrowsBy
  <2>4. QED
    BY <1>8, <2>1, <2>2, <2>3
<1>10. ASSUME NEW i \in pending.by PROVE Waits(i)'
  <2>1. i \in Instances /\ i[1] \in Ids
    BY DEF TypeOK, Instances
  <2>2. AnswerComing(i) => AnswerComing(i)'
    BY <1>7, <1>9, AnswersMove
  <2>3. Waits(i)
    BY WaitsAll
  <2>4. CASE i[1] # q
    <3>1. jobs'[i[1]] = jobs[i[1]]
      BY <1>1, <1>2, <2>1, <2>4
    <3>2. QED
      BY <1>1, <2>2, <2>3, <3>1, WaitsStays
  <2>5. CASE i[1] = q
    <3>1. ~HoldsKind(jobs[q], "load")
      BY <1>1, <1>2, HeadLoads DEF LoadInv, Placed, Loads
    <3>2. ASSUME NEW line \in Lines, Holds(jobs[q], Job("pipe", i[2], line))
          PROVE  Waits(i)'
      <4>1. CASE Head(jobs[q]) = Job("pipe", i[2], line)
        <5>1. Head(jobs[q]).is = "pipe" /\ Head(jobs[q]).client = i[2]
          BY <4>1 DEF Job
        <5>2. i = <<q, i[2]>>
          BY <2>1, <2>5 DEF Instances
        <5>3. y = Answer(i, change) /\ change \in Changes
          BY <1>4, <1>7, <5>1, <5>2
        <5>4. AnswerComing(i)'
          BY <1>7, <1>9, <5>3 DEF AnswerComing
        <5>5. QED
          BY <5>4 DEF Waits
      <4>2. CASE Head(jobs[q]) # Job("pipe", i[2], line)
        <5>1. Holds(Tail(jobs[q]), Job("pipe", i[2], line))
          BY <1>1, <1>2, <3>2, <4>2, HoldsStays
        <5>2. Holds(jobs'[q], Job("pipe", i[2], line))
          BY <1>1, <1>2, <5>1
        <5>3. QED
          BY <2>5, <5>2 DEF Waits
      <4>3. QED
        BY <4>1, <4>2
    <3>3. CASE q \in loading /\ HoldsKind(cache[q], "pipe") /\ i \in instances
      BY <1>1, <2>5, <3>3 DEF Waits
    <3>4. QED
      BY <2>2, <2>3, <2>5, <3>1, <3>2, <3>3 DEF Waits
  <2>6. QED
    BY <2>4, <2>5
<1>11. QED
  BY <1>1, <1>10 DEF NobodyForgotten, Waits

\* Screen passes an answer on.
LEMMA WaitForwarded ==
  ASSUME TypeOK, LoadInv, NobodyForgotten, ScreenForwards
  PROVE  NobodyForgotten'
<1>1. screen \in Seq(Messages) /\ screen # <<>> /\ screen' = Tail(screen)
      /\ inbox \in Seq(Messages) /\ inbox' = Append(inbox, Head(screen))
      /\ UNCHANGED <<jobs, pending, loading, cache, instances>>
  BY DEF ScreenForwards, TypeOK, threadVars
<1>2. PICK y, v : y = Head(screen) /\ v = inbox'
  OBVIOUS
<1>3. y \in Messages /\ v = Append(inbox, y)
  BY <1>1, <1>2
<1>4. Holds(v, y) /\ \A x : Holds(inbox, x) => Holds(v, x)
  BY <1>1, <1>3, GrowsBy
<1>5. \A x : Holds(screen, x) => x = y \/ Holds(screen', x)
  BY <1>1, <1>2, HoldsTail
<1>6. ASSUME NEW i \in pending'.by, AnswerComing(i) PROVE AnswerComing(i)'
  BY <1>2, <1>4, <1>5, <1>6, AnswersMove
<1>7. QED
  BY <1>1, <1>6, WaitsOn

\* No step forgets an instance.
LEMMA WaitStep ==
  ASSUME PipeAssumption, Undisturbed, TypeOK, EntryMeant, LoadInv, NobodyForgotten, NoneFull',
         [Next]_vars
  PROVE  NobodyForgotten'
<1>1. ASSUME UNCHANGED <<jobs, threadVars, instances, screen>>,
             inbox' = inbox \/ \E x \in Messages : inbox' = Append(inbox, x)
      PROVE  NobodyForgotten'
  <2>1. \A i : AnswerComing(i) => AnswerComing(i)'
    BY <1>1, AnswersKept
  <2>2. QED
    BY <1>1, <2>1, WaitsOn DEF threadVars
<1>2. CASE SendLine
  <2>1. cli.line + 1 \in Lines
    BY <1>2 DEF SendLine, Lines, TypeOK, PipeAssumption
  <2>2. CliPipe(cli.line + 1) \in Messages
    BY <2>1, MessageTypes
  <2>3. QED
    BY <1>1, <1>2, <2>2 DEF SendLine
<1>3. CASE TakeUnblock
  BY <1>1, <1>3 DEF TakeUnblock
<1>4. CASE AskAttach
  BY <1>4 DEF AskAttach, Undisturbed
<1>5. CASE AskUnload
  <2>1. \A p \in Unloads : Unload(p) \in Messages
    BY MessageTypes
  <2>2. QED
    BY <1>1, <1>5, <2>1 DEF AskUnload, Ask
<1>6. CASE SendEvent
  <2>1. PICK p \in 1 .. nextId - 1 : inbox' = Append(inbox, Update(p))
    BY <1>6 DEF SendEvent
  <2>2. p \in Ids
    BY <2>1 DEF TypeOK, Ids, PipeAssumption
  <2>3. Update(p) \in Messages
    BY <2>2, MessageTypes
  <2>4. QED
    BY <1>1, <1>6, <2>1, <2>3 DEF SendEvent
<1>7. CASE HandleCliPipe
  <2>1. PICK targets, queues, ready : PipedTo(targets, queues, ready)
    BY <1>7, CliPipeIs
  <2>2. /\ ReceiveNext("CliPipe") /\ instances' = instances /\ UNCHANGED screen
    BY <1>7 DEF HandleCliPipe
  <2>3. PICK line : line = Head(inbox).line
    OBVIOUS
  <2>4. line \in Lines
    BY <2>2, <2>3, ReceiveType, MessageParts
  <2>5. /\ PipeTo(line, targets, queues, ready) /\ targets \in Targets
        /\ queues \in [Ids -> Seq(Jobs)] /\ ready \in SUBSET Ids
    BY <2>1, <2>3 DEF PipedTo
  <2>6. \A p \in Ids : Receives(queues, ready, p)
    BY <2>1, PipedReceives
  <2>7. QED
    BY <2>2, <2>4, <2>5, <2>6, PipeWaits
<1>8. CASE HandleUpdate
  BY <1>8, WaitUpdated
<1>9. CASE HandleAnswer
  BY <1>9, WaitAnswered
<1>10. CASE HandleApplyCached
  BY <1>10, WaitApplied
<1>11. CASE HandleAddClient
  <2>1. Head(inbox) \in Messages /\ Head(inbox).is = "AddClient"
    BY <1>11, ReceiveType DEF HandleAddClient
  <2>2. Head(inbox).client \in Attaches
    BY <2>1, MessageIs
  <2>3. QED
    BY <2>2 DEF Undisturbed
<1>12. CASE HandleUnload
  BY <1>12, WaitUnloaded
<1>13. ASSUME NEW p \in Ids, RunLoad(p) PROVE NobodyForgotten'
  BY <1>13, WaitLoaded
<1>14. ASSUME NEW p \in Ids, RunPlugin(p) PROVE NobodyForgotten'
  BY <1>14, WaitRun
<1>15. ASSUME NEW p \in Ids, PluginCrashes(p) PROVE NobodyForgotten'
  BY <1>15 DEF PluginCrashes, Undisturbed
<1>16. CASE ScreenForwards
  BY <1>16, WaitForwarded
<1>17. CASE UNCHANGED vars
  BY <1>1, <1>17 DEF vars
<1>18. QED
  BY <1>2, <1>3, <1>4, <1>5, <1>6, <1>7, <1>8, <1>9, <1>10, <1>11, <1>12, <1>13, <1>14, <1>15,
     <1>16, <1>17 DEF Next, PluginThread

\* What is known of a pipe and its plugins while nothing goes wrong.
WaitInv == TypeOK /\ EntryMeant /\ LoadInv /\ NobodyForgotten

\* As long as plugins do not crash or fail to load, no client attaches while the
\* pipe is open and no cache of a loading plugin fills up, every instance that
\* pending_pipes waits for still has the line, as a job, in its plugin's cache or
\* answered: whatever plugins are loaded, unloaded, block the pipe or unblock it,
\* and whichever channel their answers take.
THEOREM NobodyIsForgotten ==
  ASSUME Undisturbed
  PROVE  Spec /\ []NoneFull => []NobodyForgotten
<1>1. Init => WaitInv
  <2>1. SUFFICES ASSUME Init PROVE WaitInv
    OBVIOUS
  <2>2. TypeOK /\ EntryMeant /\ LoadInv
    BY <2>1, PipeAssumption, InitType, InitInvariant, LoadInit DEF IInv
  <2>3. pending.by = {}
    BY <2>1 DEF Init, Unknown
  <2>4. QED
    BY <2>2, <2>3 DEF WaitInv, NobodyForgotten
<1>2. WaitInv /\ NoneFull' /\ [Next]_vars => WaitInv'
  <2>1. SUFFICES ASSUME WaitInv, NoneFull', [Next]_vars PROVE WaitInv'
    OBVIOUS
  <2>2. TypeOK'
    BY <2>1, PipeAssumption, TypeStep DEF WaitInv
  <2>3. EntryMeant'
    BY <2>1, EntryStep DEF WaitInv
  <2>4. LoadInv'
    BY <2>1, <2>2, PipeAssumption, LoadStep DEF WaitInv
  <2>5. NobodyForgotten'
    BY <2>1, PipeAssumption, WaitStep DEF WaitInv
  <2>6. QED
    BY <2>2, <2>3, <2>4, <2>5 DEF WaitInv
<1>3. WaitInv => NobodyForgotten
  BY DEF WaitInv
<1>4. QED
  BY <1>1, <1>2, <1>3, PTL DEF Spec

-----------------------------------------------------------------------------
(* Line by line: each line's traces are gone before the next one is sent.   *)

\* How often a queue holds an item of a set.
None(queue, A) == \A k \in DOMAIN queue : queue[k] \notin A
One(queue, A) == \A j, k \in DOMAIN queue : queue[j] \in A /\ queue[k] \in A => j = k

\* A queue has none of a set when it holds none of them.
LEMMA NoneHeld == \A queue, A : None(queue, A) <=> \A x : Holds(queue, x) => x \notin A
  BY DEF None, Holds

\* None is one at most.
LEMMA NoneIsOne == \A queue, A : None(queue, A) => One(queue, A)
  BY DEF None, One

\* A queue that loses its head.
LEMMA TailOnce ==
  ASSUME NEW S, NEW s \in Seq(S), s # <<>>, NEW A
  PROVE  /\ None(s, A) => None(Tail(s), A)
         /\ One(s, A) => One(Tail(s), A)
         /\ One(s, A) /\ Head(s) \in A => None(Tail(s), A)
<1>1. \A k \in DOMAIN Tail(s) : /\ k \in Nat /\ k + 1 \in DOMAIN s
                                /\ Tail(s)[k] = s[k + 1] /\ k + 1 # 1
  OBVIOUS
<1>2. 1 \in DOMAIN s /\ s[1] = Head(s)
  OBVIOUS
<1>3. None(s, A) => None(Tail(s), A)
  BY <1>1 DEF None
<1>4. ASSUME One(s, A) PROVE One(Tail(s), A)
  <2>1. ASSUME NEW j \in DOMAIN Tail(s), NEW k \in DOMAIN Tail(s),
               Tail(s)[j] \in A, Tail(s)[k] \in A
        PROVE  j = k
    <3>1. j + 1 = k + 1
      BY <1>1, <1>4, <2>1 DEF One
    <3>2. QED
      BY <1>1, <2>1, <3>1
  <2>2. QED
    BY <2>1 DEF One
<1>5. One(s, A) /\ Head(s) \in A => None(Tail(s), A)
  BY <1>1, <1>2 DEF One, None
<1>6. QED
  BY <1>3, <1>4, <1>5

\* One queue after the other.
LEMMA JoinedOnce ==
  ASSUME NEW S, NEW s \in Seq(S), NEW t \in Seq(S), NEW u, u = s \o t, NEW A, None(s, A)
  PROVE  /\ None(t, A) => None(u, A)
         /\ One(t, A) => One(u, A)
<1>1. /\ Len(u) = Len(s) + Len(t) /\ Len(s) \in Nat /\ Len(t) \in Nat
      /\ DOMAIN u = 1 .. Len(u) /\ DOMAIN s = 1 .. Len(s) /\ DOMAIN t = 1 .. Len(t)
      /\ \A k \in 1 .. Len(s) : u[k] = s[k]
      /\ \A k \in 1 .. Len(u) : k \notin 1 .. Len(s) => u[k] = t[k - Len(s)]
  OBVIOUS
<1> DEFINE n == Len(s)
           m == Len(t)
<1> HIDE DEF n, m
<1>2. \A k \in 1 .. n + m : k \in Int /\ (k \in 1 .. n \/ k - n \in 1 .. m)
  BY <1>1 DEF n, m
<1>3. ASSUME NEW k \in DOMAIN u, u[k] \in A
      PROVE  k \in Int /\ k - n \in DOMAIN t /\ t[k - n] \in A
  <2>1. k \in 1 .. n + m /\ ~(k \in 1 .. n)
    BY <1>1, <1>3 DEF None, n, m
  <2>2. QED
    BY <1>1, <1>2, <1>3, <2>1 DEF n, m
<1>4. None(t, A) => None(u, A)
  BY <1>3 DEF None
<1>5. ASSUME One(t, A), NEW j \in DOMAIN u, NEW k \in DOMAIN u, u[j] \in A, u[k] \in A
      PROVE  j = k
  <2>1. j - n = k - n
    BY <1>3, <1>5 DEF One
  <2>2. QED
    BY <1>1, <1>3, <1>5, <2>1 DEF n
<1>6. QED
  BY <1>4, <1>5 DEF One

\* A queue that gets one more item.
LEMMA AddedOnce ==
  ASSUME NEW S, NEW s \in Seq(S), NEW x \in S, NEW u, u = Append(s, x), NEW A
  PROVE  /\ None(s, A) => One(u, A)
         /\ None(s, A) /\ x \notin A => None(u, A)
         /\ One(s, A) /\ x \notin A => One(u, A)
<1>1. <<x>> \in Seq(S) /\ u = s \o <<x>>
  OBVIOUS
<1>2. One(<<x>>, A) /\ (x \notin A => None(<<x>>, A))
  BY DEF One, None
<1>3. None(s, A) => One(u, A)
  BY <1>1, <1>2, JoinedOnce
<1>4. None(s, A) /\ x \notin A => None(u, A)
  BY <1>1, <1>2, JoinedOnce
<1>5. ASSUME One(s, A), x \notin A PROVE One(u, A)
  <2>1. \A k \in DOMAIN u : (k \in DOMAIN s /\ u[k] = s[k]) \/ u[k] = x
    OBVIOUS
  <2>2. QED
    BY <1>5, <2>1 DEF One
<1>6. QED
  BY <1>3, <1>4, <1>5

-----------------------------------------------------------------------------
(* The invariant. *)

\* Nothing was loaded or unloaded since the pipe was opened.
Calm == asked = {} /\ nextId = Running + 1

\* So nothing loads, and the queues hold lines, events and answers only.
Quiet ==
  /\ loading = {} /\ \A p \in Ids : cache[p] = <<>>
  /\ \A x : Holds(inbox, x) => x.is \in {"CliPipe", "Answer", "Update"}
  /\ \A x : Holds(screen, x) => x.is = "Answer"
  /\ \A p \in Ids : \A x : Holds(jobs[p], x) => x.is \in {"pipe", "event"}

\* The CLI client's line is still its line.
Active == cli.waiting \/ cli.line = MaxLines

CliPipeOnes == {CliPipe(line) : line \in Lines}

\* Only the client's last line is about: in the channel, before anything is marked
\* for it, or with plugins, or its unblocking is on its way.
Turn ==
  /\ \A x : Holds(inbox, x) => (x.is = "CliPipe" => x.line = cli.line)
  /\ HoldsKind(inbox, "CliPipe") => Active /\ pending.by = {} /\ unblocks = 0
  /\ One(inbox, CliPipeOnes)
  /\ \A p \in Ids : \A x : Holds(jobs[p], x) => (x.is = "pipe" => x.line = cli.line)
  /\ unblocks \in {0, 1}
  /\ unblocks = 1 => Active /\ pending.by = {}
  /\ pending.by # {} => Active

PipeJobs(c) == {x \in Jobs : x.is = "pipe" /\ x.client = c}
AnswersOf(i) == {Answer(i, change) : change \in Changes}

Jobless(i) == None(jobs[i[1]], PipeJobs(i[2]))
OneJob(i) == One(jobs[i[1]], PipeJobs(i[2]))
Unsaid(i) == None(inbox, AnswersOf(i))
OneSaid(i) == One(inbox, AnswersOf(i))
Unshown(i) == None(screen, AnswersOf(i))
OneShown(i) == One(screen, AnswersOf(i))

\* An instance that pending_pipes waits for has the line in one place at most, and
\* no other instance has it.
Marked(i) ==
  \/ OneJob(i) /\ Unsaid(i) /\ Unshown(i)
  \/ Jobless(i) /\ OneSaid(i) /\ Unshown(i)
  \/ Jobless(i) /\ Unsaid(i) /\ OneShown(i)

Traced(i) ==
  /\ i \in pending.by => Marked(i)
  /\ i \notin pending.by => Jobless(i) /\ Unsaid(i) /\ Unshown(i)

CalmInv == Quiet /\ Turn /\ \A i \in Instances : Traced(i)

LineInv ==
  /\ TypeOK /\ EntryMeant
  /\ nextId >= Running + 1
  /\ Calm => CalmInv

-----------------------------------------------------------------------------
(* The steps of a calm system. *)

\* A calm system was calm before.
LEMMA WasCalm ==
  ASSUME PipeAssumption, TypeOK, nextId >= Running + 1, [Next]_vars
  PROVE  nextId' >= Running + 1 /\ (Calm' => Calm /\ nextId' = nextId /\ asked' = asked)
<1>1. Running \in Nat /\ nextId \in Nat
  BY DEF PipeAssumption, TypeOK
<1>2. nextId' \in {nextId, nextId + 1}
  BY DEF Next, SendLine, TakeUnblock, AskAttach, AskUnload, Ask, SendEvent, PluginThread,
     HandleCliPipe, PipeToPlugin, HandleUpdate, HandleAnswer, HandleApplyCached, HandleAddClient,
     HandleUnload, RunLoad, RunPlugin, PluginCrashes, ScreenForwards, vars, threadVars
<1>3. asked \subseteq asked'
  BY DEF Next, SendLine, TakeUnblock, AskAttach, AskUnload, Ask, SendEvent, PluginThread,
     HandleCliPipe, PipeToPlugin, HandleUpdate, HandleAnswer, HandleApplyCached, HandleAddClient,
     HandleUnload, RunLoad, RunPlugin, PluginCrashes, ScreenForwards, vars, threadVars
<1>4. nextId' >= Running + 1
  BY <1>1, <1>2
<1>5. Calm' => nextId = Running + 1 /\ nextId' = nextId /\ asked = {} /\ asked' = {}
  BY <1>1, <1>2, <1>3 DEF Calm
<1>6. QED
  BY <1>4, <1>5 DEF Calm


\* An instance gets no job, and no answer of its is added to a channel.
JobsLess(i) == (Jobless(i) => Jobless(i)') /\ (OneJob(i) => OneJob(i)')
SaidLess(i) == (Unsaid(i) => Unsaid(i)') /\ (OneSaid(i) => OneSaid(i)')
ShownLess(i) == (Unshown(i) => Unshown(i)') /\ (OneShown(i) => OneShown(i)')

\* A step of which an instance gets nothing, and which does not end its wait.
LEMMA TracedStays ==
  ASSUME NEW i, Traced(i), JobsLess(i), SaidLess(i), ShownLess(i),
         i \in pending'.by <=> i \in pending.by
  PROVE  Traced(i)'
<1>1. Marked(i) => Marked(i)'
  BY DEF Marked, JobsLess, SaidLess, ShownLess
<1>2. Jobless(i) /\ Unsaid(i) /\ Unshown(i) => (Jobless(i) /\ Unsaid(i) /\ Unshown(i))'
  BY DEF JobsLess, SaidLess, ShownLess
<1>3. QED
  BY <1>1, <1>2 DEF Traced

\* A channel or queue that is as it was gives nobody anything.
LEMMA SameLess ==
  /\ jobs' = jobs => \A i : JobsLess(i)
  /\ inbox' = inbox => \A i : SaidLess(i)
  /\ screen' = screen => \A i : ShownLess(i)
<1>1. jobs' = jobs => \A i : JobsLess(i)
  BY DEF JobsLess, Jobless, OneJob, None, One
<1>2. inbox' = inbox => \A i : SaidLess(i)
  BY DEF SaidLess, Unsaid, OneSaid, None, One
<1>3. screen' = screen => \A i : ShownLess(i)
  BY DEF ShownLess, Unshown, OneShown, None, One
<1>4. QED
  BY <1>1, <1>2, <1>3

\* A message arrives at the Plugin thread.
LEMMA Arrives ==
  ASSUME TypeOK, NEW x \in Messages, inbox' = Append(inbox, x)
  PROVE  /\ \A y : Holds(inbox', y) <=> y = x \/ Holds(inbox, y)
         /\ \A A : /\ None(inbox, A) => One(inbox', A)
                   /\ None(inbox, A) /\ x \notin A => None(inbox', A)
                   /\ One(inbox, A) /\ x \notin A => One(inbox', A)
<1>1. PICK u : u = inbox'
  OBVIOUS
<1>2. inbox \in Seq(Messages) /\ u = Append(inbox, x) /\ x \in Messages
  BY <1>1 DEF TypeOK
<1>3. \A y : Holds(u, y) <=> y = x \/ Holds(inbox, y)
  BY ONLY <1>2, HoldsAdded
<1>4. \A A : /\ None(inbox, A) => One(u, A)
             /\ None(inbox, A) /\ x \notin A => None(u, A)
             /\ One(inbox, A) /\ x \notin A => One(u, A)
  BY ONLY <1>2, AddedOnce
<1>5. QED
  BY <1>1, <1>3, <1>4

\* A message that is no answer of an instance gives it nothing.
LEMMA ArrivesLess ==
  ASSUME TypeOK, NEW x \in Messages, inbox' = Append(inbox, x), NEW i, x \notin AnswersOf(i)
  PROVE  SaidLess(i)
<1>1. AnswersOf(i)' = AnswersOf(i)
  BY DEF AnswersOf
<1>2. QED
  BY <1>1, Arrives DEF SaidLess, Unsaid, OneSaid

\* The Plugin thread takes a message.
LEMMA Leaves ==
  ASSUME TypeOK, inbox # <<>>, inbox' = Tail(inbox)
  PROVE  /\ Holds(inbox, Head(inbox))
         /\ \A y : Holds(inbox, y) <=> y = Head(inbox) \/ Holds(inbox', y)
         /\ \A A : /\ None(inbox, A) => None(inbox', A)
                   /\ One(inbox, A) => One(inbox', A)
                   /\ One(inbox, A) /\ Head(inbox) \in A => None(inbox', A)
<1>1. inbox \in Seq(Messages)
  BY DEF TypeOK
<1>2. Holds(inbox, Head(inbox)) /\ \A y : Holds(inbox, y) <=> y = Head(inbox) \/ Holds(inbox', y)
  BY <1>1, HoldsTail
<1>3. \A A : /\ None(inbox, A) => None(inbox', A)
             /\ One(inbox, A) => One(inbox', A)
             /\ One(inbox, A) /\ Head(inbox) \in A => None(inbox', A)
  BY <1>1, TailOnce
<1>4. QED
  BY <1>2, <1>3

\* A message that is taken was there once.
LEMMA LeavesLess ==
  ASSUME TypeOK, inbox # <<>>, inbox' = Tail(inbox), NEW i
  PROVE  SaidLess(i) /\ (OneSaid(i) /\ Head(inbox) \in AnswersOf(i) => Unsaid(i)')
<1>1. AnswersOf(i)' = AnswersOf(i)
  BY DEF AnswersOf
<1>2. QED
  BY <1>1, Leaves DEF SaidLess, Unsaid, OneSaid

\* A plugin takes a job.
LEMMA JobLeaves ==
  ASSUME TypeOK, NEW q \in Ids, jobs[q] # <<>>, jobs' = [jobs EXCEPT ![q] = Tail(@)]
  PROVE  /\ Holds(jobs[q], Head(jobs[q])) /\ Head(jobs[q]) \in Jobs
         /\ \A p \in Ids : \A y : Holds(jobs'[p], y) => Holds(jobs[p], y)
         /\ \A i \in Instances : JobsLess(i)
         /\ \A i \in Instances : i[1] = q /\ OneJob(i) /\ Head(jobs[q]) \in PipeJobs(i[2])
                                   => Jobless(i)'
<1>1. jobs \in [Ids -> Seq(Jobs)] /\ jobs[q] \in Seq(Jobs)
  BY DEF TypeOK
<1>2. jobs'[q] = Tail(jobs[q]) /\ \A p \in Ids : p # q => jobs'[p] = jobs[p]
  BY <1>1
<1>3. Holds(jobs[q], Head(jobs[q])) /\ \A y : Holds(jobs'[q], y) => Holds(jobs[q], y)
  BY <1>1, <1>2, HoldsTail
<1>4. \A A : /\ None(jobs[q], A) => None(jobs'[q], A)
             /\ One(jobs[q], A) => One(jobs'[q], A)
             /\ One(jobs[q], A) /\ Head(jobs[q]) \in A => None(jobs'[q], A)
  BY <1>1, <1>2, TailOnce
<1>5. ASSUME NEW i \in Instances
      PROVE  JobsLess(i) /\ (i[1] = q /\ OneJob(i) /\ Head(jobs[q]) \in PipeJobs(i[2]) => Jobless(i)')
  <2>1. i[1] \in Ids /\ PipeJobs(i[2])' = PipeJobs(i[2])
    BY DEF Instances, PipeJobs
  <2>2. CASE i[1] = q
    BY <1>4, <2>1, <2>2 DEF JobsLess, Jobless, OneJob
  <2>3. CASE i[1] # q
    BY <1>2, <2>1, <2>3 DEF JobsLess, Jobless, OneJob
  <2>4. QED
    BY <2>2, <2>3
<1>6. QED
  BY <1>1, <1>2, <1>3, <1>5

\* Without an instance to wait for no plugin has a line.
LEMMA NoPipeJobs ==
  ASSUME TypeOK, CalmInv, NEW p \in Ids, NEW x, Holds(jobs[p], x), x.is = "pipe"
  PROVE  x.client \in Clients /\ <<p, x.client>> \in pending.by
<1>1. jobs[p] \in Seq(Jobs)
  BY DEF TypeOK
<1>2. x \in Jobs
  BY <1>1, HeldIn
<1>3. PICK c \in Clients : c = x.client
  BY <1>2 DEF Jobs
<1>4. PICK i \in Instances : i = <<p, c>>
  BY DEF Instances
<1>5. x \in PipeJobs(c)
  BY <1>2, <1>3 DEF PipeJobs
<1>6. ~Jobless(i)
  BY <1>4, <1>5, NoneHeld DEF Jobless
<1>7. QED
  BY <1>3, <1>4, <1>6 DEF CalmInv, Traced

\* The CLI client sends its next line: nothing of the last one is about.
LEMMA CalmSend ==
  ASSUME PipeAssumption, TypeOK, CalmInv, SendLine
  PROVE  CalmInv'
<1>1. PICK x : x = CliPipe(cli.line + 1)
  OBVIOUS
<1>2. /\ ~cli.waiting /\ cli.line < MaxLines /\ inbox' = Append(inbox, x)
      /\ cli' = [line |-> cli.line + 1, waiting |-> cli.line + 1 < MaxLines]
      /\ UNCHANGED <<unblocks, screen, jobs, pending, loading, cache>>
  BY <1>1 DEF SendLine, threadVars
<1>3. cli.line \in 0 .. MaxLines /\ MaxLines \in Nat
  BY DEF TypeOK, PipeAssumption
<1>4. cli.line + 1 \in Lines /\ x \in Messages /\ x.is = "CliPipe" /\ x.line = cli'.line
  <2>1. cli.line + 1 \in Lines
    BY <1>2, <1>3 DEF Lines
  <2>2. QED
    BY <1>1, <1>2, <2>1, MessageTypes DEF CliPipe, Message
<1>5. ~Active /\ Active'
  <2>1. cli'.line = cli.line + 1 /\ (cli'.waiting <=> cli.line + 1 < MaxLines)
    BY <1>2
  <2>2. cli.line + 1 < MaxLines \/ cli.line + 1 = MaxLines
    BY <1>2, <1>3
  <2>3. cli.line # MaxLines
    BY <1>2, <1>3
  <2>4. QED
    BY <1>2, <2>1, <2>2, <2>3 DEF Active
<1>6. pending.by = {} /\ unblocks = 0 /\ ~HoldsKind(inbox, "CliPipe")
  BY <1>5 DEF CalmInv, Turn
<1>7. /\ \A y : Holds(inbox', y) <=> y = x \/ Holds(inbox, y)
      /\ None(inbox, CliPipeOnes) => One(inbox', CliPipeOnes)
  BY <1>2, <1>4, Arrives
<1>8. None(inbox, CliPipeOnes)
  <2>1. \A y \in CliPipeOnes : y.is = "CliPipe"
    BY DEF CliPipeOnes, CliPipe, Message
  <2>2. QED
    BY <1>6, <2>1 DEF None, HoldsKind
<1>9. Quiet'
  BY <1>2, <1>4, <1>7 DEF CalmInv, Quiet
<1>10. Turn'
  <2>1. \A y : Holds(inbox', y) => (y.is = "CliPipe" => y.line = cli'.line)
    BY <1>4, <1>6, <1>7, KindHeld
  <2>2. \A p \in Ids : \A y : Holds(jobs'[p], y) => y.is # "pipe"
    BY <1>2, <1>6, NoPipeJobs
  <2>3. CliPipeOnes' = CliPipeOnes
    BY DEF CliPipeOnes
  <2>4. QED
    BY <1>2, <1>5, <1>6, <1>7, <1>8, <2>1, <2>2, <2>3 DEF Turn
<1>11. ASSUME NEW i \in Instances PROVE Traced(i)'
  <2>1. x \notin AnswersOf(i)
    BY <1>4 DEF AnswersOf, Answer, Message
  <2>2. SaidLess(i)
    BY <1>2, <1>4, <2>1, ArrivesLess
  <2>3. QED
    BY <1>2, <2>2, SameLess, TracedStays DEF CalmInv
<1>12. Instances' = Instances
  OBVIOUS
<1>13. QED
  BY <1>9, <1>10, <1>11 DEF CalmInv

\* It is unblocked: its line is done.
LEMMA CalmUnblock ==
  ASSUME PipeAssumption, TypeOK, CalmInv, TakeUnblock
  PROVE  CalmInv'
<1>1. /\ cli.waiting /\ unblocks > 0 /\ cli' = [cli EXCEPT !.waiting = FALSE]
      /\ unblocks' = unblocks - 1
      /\ UNCHANGED <<inbox, screen, jobs, pending, loading, cache>>
  BY DEF TakeUnblock, threadVars
<1>2. unblocks = 1 /\ unblocks' = 0 /\ pending.by = {} /\ ~HoldsKind(inbox, "CliPipe")
  BY <1>1 DEF CalmInv, Turn
<1>3. cli'.line = cli.line
  BY <1>1 DEF TypeOK
<1>4. Quiet'
  BY <1>1 DEF CalmInv, Quiet
<1>5. Turn'
  <2>1. ~HoldsKind(inbox, "CliPipe")' /\ One(inbox, CliPipeOnes)'
    BY <1>1, <1>2 DEF CalmInv, Turn, HoldsKind, One, CliPipeOnes
  <2>2. QED
    BY <1>1, <1>2, <1>3, <2>1 DEF CalmInv, Turn
<1>6. ASSUME NEW i \in Instances PROVE Traced(i)'
  BY <1>1, SameLess, TracedStays DEF CalmInv
<1>7. QED
  BY <1>4, <1>5, <1>6 DEF CalmInv

\* One queue after the other, the second without what is counted.
LEMMA JoinedSame ==
  ASSUME NEW S, NEW s \in Seq(S), NEW t \in Seq(S), NEW u, u = s \o t, NEW A, None(t, A)
  PROVE  One(s, A) => One(u, A)
<1>1. /\ Len(u) = Len(s) + Len(t) /\ Len(s) \in Nat /\ Len(t) \in Nat
      /\ DOMAIN u = 1 .. Len(u) /\ DOMAIN s = 1 .. Len(s) /\ DOMAIN t = 1 .. Len(t)
      /\ \A k \in 1 .. Len(s) : u[k] = s[k]
      /\ \A k \in 1 .. Len(u) : k \notin 1 .. Len(s) => u[k] = t[k - Len(s)]
  OBVIOUS
<1>2. \A k \in 1 .. Len(u) : k \notin 1 .. Len(s) => k - Len(s) \in 1 .. Len(t)
  BY <1>1
<1>3. \A k \in DOMAIN u : u[k] \in A => k \in DOMAIN s /\ s[k] \in A
  BY <1>1, <1>2 DEF None
<1>4. QED
  BY <1>3 DEF One

\* The kinds of messages.
LEMMA Kinds ==
  /\ \A line : CliPipe(line).is = "CliPipe" /\ CliPipe(line).line = line
  /\ \A p : Update(p).is = "Update"
  /\ \A i : \A x \in AnswersOf(i) : x.is = "Answer" /\ x.plugin = i[1] /\ x.client = i[2]
  /\ \A x \in CliPipeOnes : x.is = "CliPipe"
  BY DEF CliPipe, Update, Answer, Message, AnswersOf, CliPipeOnes

\* The Plugin thread's channel gets no line, the plugins' queues get none, and
\* nothing is marked; the pipe may be released.
TurnKept ==
  /\ UNCHANGED cli
  /\ \A x : Holds(inbox', x) => Holds(inbox, x) \/ x.is # "CliPipe"
  /\ \A p \in Ids : \A x : Holds(jobs'[p], x) => Holds(jobs[p], x) \/ x.is # "pipe"
  /\ One(inbox, CliPipeOnes) => One(inbox', CliPipeOnes)
  /\ pending'.by \subseteq pending.by
  /\ \/ unblocks' = unblocks
     \/ unblocks' = unblocks + 1 /\ pending.by # {} /\ pending'.by = {}

\* Then it is still the turn of the same line.
LEMMA TurnStays ==
  ASSUME Turn, TurnKept
  PROVE  Turn'
<1>1. Active' = Active /\ CliPipeOnes' = CliPipeOnes
  BY DEF Active, CliPipeOnes, TurnKept
<1>2. HoldsKind(inbox', "CliPipe") => HoldsKind(inbox, "CliPipe")
  BY KindHeld DEF TurnKept
<1>3. unblocks' = unblocks \/ (pending.by # {} /\ unblocks = 0 /\ unblocks' = 1 /\ pending'.by = {})
  BY DEF Turn, TurnKept
<1>4. \A x : Holds(inbox', x) => (x.is = "CliPipe" => x.line = cli'.line)
  BY DEF Turn, TurnKept
<1>5. \A p \in Ids : \A x : Holds(jobs'[p], x) => (x.is = "pipe" => x.line = cli'.line)
  BY DEF Turn, TurnKept
<1>6. HoldsKind(inbox', "CliPipe") => Active /\ pending'.by = {} /\ unblocks' = 0
  BY <1>2, <1>3 DEF Turn, TurnKept
<1>7. unblocks' \in {0, 1} /\ (unblocks' = 1 => Active /\ pending'.by = {})
  BY <1>3 DEF Turn, TurnKept
<1>8. pending'.by # {} => Active
  BY DEF Turn, TurnKept
<1>9. One(inbox', CliPipeOnes)
  BY DEF Turn, TurnKept
<1>10. QED
  BY <1>1, <1>4, <1>5, <1>6, <1>7, <1>8, <1>9 DEF Turn

\* An event is sent to a plugin.
LEMMA CalmEvent ==
  ASSUME PipeAssumption, TypeOK, CalmInv, SendEvent
  PROVE  CalmInv'
<1>1. PICK x \in Messages : inbox' = Append(inbox, x) /\ x.is = "Update"
  <2>1. PICK p \in 1 .. nextId - 1 : inbox' = Append(inbox, Update(p))
    BY DEF SendEvent
  <2>2. p \in Ids
    BY <2>1 DEF TypeOK, Ids, PipeAssumption
  <2>3. QED
    BY <2>1, <2>2, MessageTypes, Kinds
<1>2. UNCHANGED <<cli, unblocks, screen, jobs, pending, loading, cache>>
  BY DEF SendEvent, threadVars
<1>3. /\ \A y : Holds(inbox', y) <=> y = x \/ Holds(inbox, y)
      /\ \A A : One(inbox, A) /\ x \notin A => One(inbox', A)
  BY <1>1, Arrives
<1>4. Quiet'
  BY <1>1, <1>2, <1>3 DEF CalmInv, Quiet
<1>5. x \notin CliPipeOnes /\ \A i : x \notin AnswersOf(i)
  BY <1>1, Kinds
<1>6. Turn'
  <2>1. \A y : Holds(inbox', y) => Holds(inbox, y) \/ y.is # "CliPipe"
    BY <1>1, <1>3
  <2>2. One(inbox, CliPipeOnes) => One(inbox', CliPipeOnes)
    BY <1>3, <1>5
  <2>3. Turn /\ pending'.by \subseteq pending.by
    BY <1>2 DEF CalmInv
  <2>4. QED
    BY <1>2, <2>1, <2>2, <2>3, TurnStays DEF TurnKept
<1>7. ASSUME NEW i \in Instances PROVE Traced(i)'
  <2>1. SaidLess(i)
    BY <1>1, <1>5, ArrivesLess
  <2>2. QED
    BY <1>2, <2>1, SameLess, TracedStays DEF CalmInv
<1>8. QED
  BY <1>4, <1>6, <1>7 DEF CalmInv

\* What plugins get of a message while none is loading.
Adds(is, line, targets, p, S, new) ==
  /\ S \in SUBSET Clients /\ new \in Seq(Jobs)
  /\ Given(is, line, targets, p, S, new) /\ jobs'[p] = jobs[p] \o new

\* Running plugins get jobs, and nothing is cached.
LEMMA CalmDelivers ==
  ASSUME PipeAssumption, TypeOK, NEW is \in {"pipe", "event"}, NEW line \in 0 .. MaxLines,
         NEW targets \in Targets, Deliver(is, line, targets, jobs, {})
  PROVE  /\ \A p \in Ids : \E S, new : Adds(is, line, targets, p, S, new)
         /\ cache' = cache
<1>1. jobs \in [Ids -> Seq(Jobs)] /\ {} \in SUBSET Ids
  BY DEF TypeOK
<1>2. ASSUME NEW p \in Ids PROVE \E S, new : Adds(is, line, targets, p, S, new)
  <2>1. Hands(is, line, targets, jobs, {}, p)
    BY <1>1, DeliverHands DEF Delivers
  <2>2. PICK S \in SUBSET Clients, new \in Seq(Jobs) :
          /\ Given(is, line, targets, p, S, new)
          /\ jobs'[p] = IF p \in {} THEN jobs[p] ELSE jobs[p] \o new
    BY <2>1, Zenon DEF Hands
  <2>3. jobs'[p] = jobs[p] \o new
    BY <2>2
  <2>4. QED
    BY <2>2, <2>3 DEF Adds
<1>3. cache' = cache
  BY DEF Deliver, TypeOK
<1>4. QED
  BY <1>2, <1>3

\* What was there, and what was added.
LEMMA AddsHeld ==
  ASSUME TypeOK, NEW is, NEW line, NEW targets, NEW p \in Ids, NEW S, NEW new,
         Adds(is, line, targets, p, S, new), NEW x, Holds(jobs'[p], x), ~Holds(jobs[p], x)
  PROVE  x.is = is /\ x.line = line
<1>1. PICK s, u : s = jobs[p] /\ u = jobs'[p]
  OBVIOUS
<1>2. s \in Seq(Jobs) /\ new \in Seq(Jobs) /\ u = s \o new
  BY <1>1 DEF TypeOK, Adds
<1>3. Holds(u, x) <=> Holds(s, x) \/ Holds(new, x)
  BY ONLY <1>2, HoldsJoined
<1>4. PICK c \in S : x = Job(is, c, line)
  <2>1. Holds(new, x)
    BY <1>1, <1>3
  <2>2. QED
    BY <2>1, Zenon DEF Adds, Given
<1>5. QED
  BY <1>4 DEF Job

\* What is counted in the queue, by what is counted in the addition.
LEMMA AddsCounts ==
  ASSUME TypeOK, NEW is, NEW line, NEW targets, NEW p \in Ids, NEW S, NEW new,
         Adds(is, line, targets, p, S, new), NEW A
  PROVE  /\ None(jobs[p], A) /\ None(new, A) => None(jobs'[p], A)
         /\ None(jobs[p], A) /\ One(new, A) => One(jobs'[p], A)
         /\ One(jobs[p], A) /\ None(new, A) => One(jobs'[p], A)
<1>1. PICK s, u : s = jobs[p] /\ u = jobs'[p]
  OBVIOUS
<1>2. s \in Seq(Jobs) /\ new \in Seq(Jobs) /\ u = s \o new
  BY <1>1 DEF TypeOK, Adds
<1>3. /\ None(s, A) /\ None(new, A) => None(u, A)
      /\ None(s, A) /\ One(new, A) => One(u, A)
  BY ONLY <1>2, JoinedOnce
<1>4. One(s, A) /\ None(new, A) => One(u, A)
  BY ONLY <1>2, JoinedSame
<1>5. QED
  BY <1>1, <1>3, <1>4

\* The event becomes jobs of its plugin.
LEMMA CalmUpdated ==
  ASSUME PipeAssumption, TypeOK, CalmInv, HandleUpdate
  PROVE  CalmInv'
<1>1. PICK targets : targets = {<<Head(inbox).plugin, Nobody>>}
  OBVIOUS
<1>2. /\ ReceiveNext("Update") /\ UNCHANGED <<cli, unblocks, screen, loading, pending>>
      /\ Deliver("event", 0, targets, jobs, loading) /\ loading = {}
  BY <1>1 DEF HandleUpdate, CalmInv, Quiet
<1>3. Head(inbox).plugin \in Ids
  BY <1>2, ReceiveType, MessageParts
<1>4. targets \in Targets /\ 0 \in 0 .. MaxLines
  <2>1. targets \in Targets
    BY <1>1, <1>3, TargetTypes
  <2>2. 0 \in 0 .. MaxLines
    BY DEF PipeAssumption
  <2>3. QED
    BY <2>1, <2>2
<1>5. cache' = cache /\ \A p \in Ids : \E S, new : Adds("event", 0, targets, p, S, new)
  BY <1>2, <1>4, CalmDelivers
<1>6. inbox # <<>> /\ inbox' = Tail(inbox)
  BY <1>2 DEF ReceiveNext
<1>7. \A y : Holds(inbox', y) => Holds(inbox, y)
  BY <1>6, Leaves
<1>8. \A p \in Ids : \A x : Holds(jobs'[p], x) => Holds(jobs[p], x) \/ x.is = "event"
  <2>1. ASSUME NEW p \in Ids, NEW x, Holds(jobs'[p], x) PROVE Holds(jobs[p], x) \/ x.is = "event"
    <3>1. PICK S, new : Adds("event", 0, targets, p, S, new)
      BY <1>5
    <3>2. QED
      BY <2>1, <3>1, AddsHeld
  <2>2. QED
    BY <2>1
<1>9. Quiet'
  BY <1>2, <1>5, <1>7, <1>8 DEF CalmInv, Quiet
<1>10. Turn'
  <2>1. One(inbox, CliPipeOnes) => One(inbox', CliPipeOnes)
    BY <1>6, Leaves
  <2>2. Turn /\ pending'.by \subseteq pending.by
    BY <1>2 DEF CalmInv
  <2>3. \A p \in Ids : \A x : Holds(jobs'[p], x) => Holds(jobs[p], x) \/ x.is # "pipe"
    BY <1>8
  <2>4. QED
    BY <1>2, <1>7, <2>1, <2>2, <2>3, TurnStays DEF TurnKept
<1>11. ASSUME NEW i \in Instances PROVE Traced(i)'
  <2>1. i[1] \in Ids
    BY DEF Instances
  <2>2. PICK S, new : Adds("event", 0, targets, i[1], S, new)
    BY <1>5, <2>1
  <2>3. \A x : Holds(new, x) => x.is = "event"
    <3>1. \A x : Holds(new, x) <=> \E c \in S : x = Job("event", c, 0)
      BY <2>2, Zenon DEF Adds, Given
    <3>2. QED
      BY <3>1 DEF Job
  <2>4. None(new, PipeJobs(i[2]))
    BY <2>3, NoneHeld DEF PipeJobs
  <2>5. PipeJobs(i[2])' = PipeJobs(i[2])
    BY DEF PipeJobs
  <2>6. JobsLess(i)
    BY <2>1, <2>2, <2>4, <2>5, AddsCounts DEF JobsLess, Jobless, OneJob
  <2>7. SaidLess(i) /\ ShownLess(i)
    BY <1>2, <1>6, LeavesLess, SameLess
  <2>8. QED
    BY <1>2, <2>6, <2>7, TracedStays DEF CalmInv
<1>12. QED
  BY <1>9, <1>10, <1>11 DEF CalmInv

\* The line is marked for the instances that get a job for it, and for no others.
LEMMA CalmPiped ==
  ASSUME PipeAssumption, TypeOK, CalmInv, HandleCliPipe, nextId' = nextId
  PROVE  CalmInv'
<1>1. PICK targets, queues, ready : PipedTo(targets, queues, ready)
  BY CliPipeIs
<1>2. /\ ReceiveNext("CliPipe") /\ UNCHANGED <<cli, unblocks, screen, instances>>
      /\ loading = {}
  BY DEF HandleCliPipe, CalmInv, Quiet
<1>3. PICK line : line = Head(inbox).line
  OBVIOUS
<1>4. queues = jobs /\ ready = {}
  <2>1. nextId \in Nat
    BY DEF TypeOK
  <2>2. ~(\E c \in connected : LoadsNew(queues, ready, c))
    BY <2>1 DEF LoadsNew
  <2>3. QED
    BY <1>1, <1>2, <2>2 DEF PipedTo, AsItIs
<1>5. /\ Deliver("pipe", line, targets, jobs, {}) /\ targets \in Targets /\ loading' = {}
      /\ pending' = Mark(pending, MarkedFor(targets, {}))
  BY <1>1, <1>3, <1>4 DEF PipedTo, PipeTo
<1>6. inbox # <<>> /\ inbox' = Tail(inbox) /\ Head(inbox) \in Messages /\ Head(inbox).is = "CliPipe"
  BY <1>2, ReceiveType DEF ReceiveNext
<1>7. /\ Holds(inbox, Head(inbox))
      /\ \A y : Holds(inbox', y) => Holds(inbox, y)
      /\ One(inbox, CliPipeOnes) /\ Head(inbox) \in CliPipeOnes => None(inbox', CliPipeOnes)
  BY <1>6, Leaves
<1>8. Head(inbox) \in CliPipeOnes /\ line \in Lines
  <2>1. line \in Lines
    BY <1>3, <1>6, MessageParts
  <2>2. Head(inbox) = CliPipe(line)
    BY <1>3, <1>6 DEF Messages, CliPipe, Answer, ApplyCached, AddClient, Unload, Update, Message
  <2>3. QED
    BY <2>1, <2>2 DEF CliPipeOnes
<1>9. HoldsKind(inbox, "CliPipe") /\ line = cli.line
  BY <1>3, <1>6, <1>7, KindHeld DEF CalmInv, Turn
<1>10. Active /\ pending.by = {} /\ unblocks = 0 /\ None(inbox', CliPipeOnes)
  BY <1>7, <1>8, <1>9 DEF CalmInv, Turn
<1>11. line \in 0 .. MaxLines
  BY <1>8 DEF Lines
<1>12. cache' = cache /\ \A p \in Ids : \E S, new : Adds("pipe", line, targets, p, S, new)
  BY <1>5, <1>11, CalmDelivers
<1>13. pending'.by = MarkedFor(targets, {})
  BY <1>5, <1>10 DEF Mark, TypeOK
<1>14. \A p \in Ids : \A x : Holds(jobs'[p], x) =>
                           Holds(jobs[p], x) \/ (x.is = "pipe" /\ x.line = line)
  <2>1. ASSUME NEW p \in Ids, NEW x, Holds(jobs'[p], x)
        PROVE  Holds(jobs[p], x) \/ (x.is = "pipe" /\ x.line = line)
    <3>1. PICK S, new : Adds("pipe", line, targets, p, S, new)
      BY <1>12
    <3>2. QED
      BY <2>1, <3>1, AddsHeld
  <2>2. QED
    BY <2>1
<1>15. Quiet'
  BY <1>2, <1>5, <1>7, <1>12, <1>14 DEF CalmInv, Quiet
<1>16. Turn'
  <2>2. \A y : Holds(inbox', y) => y.is # "CliPipe"
    <3>1. ASSUME NEW y, Holds(inbox', y), y.is = "CliPipe" PROVE FALSE
      <4>1. y \in Messages
        BY <1>7, <3>1, HeldIn DEF TypeOK
      <4>2. y \in CliPipeOnes
        BY <3>1, <4>1 DEF CliPipeOnes, Messages, CliPipe, Answer, ApplyCached, AddClient, Unload,
           Update, Message
      <4>3. QED
        BY <1>10, <3>1, <4>2, NoneHeld
    <3>2. QED
      BY <3>1
  <2>3. ~HoldsKind(inbox', "CliPipe")
    BY <2>2, KindHeld
  <2>4. CliPipeOnes' = CliPipeOnes /\ Active' = Active
    BY <1>2 DEF CliPipeOnes, Active
  <2>5. \A p \in Ids : \A x : Holds(jobs'[p], x) => (x.is = "pipe" => x.line = cli'.line)
    BY <1>2, <1>9, <1>14 DEF CalmInv, Turn
  <2>6. One(inbox', CliPipeOnes)
    BY <1>10, NoneIsOne
  <2>7. QED
    BY <1>2, <1>10, <2>2, <2>3, <2>4, <2>5, <2>6 DEF Turn
<1>17. ASSUME NEW i \in Instances PROVE Traced(i)'
  <2>1. PICK p \in Ids, c \in Clients : i = <<p, c>>
    BY PairOf
  <2>2. PICK S, new : Adds("pipe", line, targets, p, S, new)
    BY <1>12
  <2>3. Jobless(i) /\ Unsaid(i) /\ Unshown(i)
    BY <1>10 DEF CalmInv, Traced
  <2>4. Unsaid(i)' /\ Unshown(i)'
    BY <1>2, <1>6, <2>3, LeavesLess, SameLess DEF SaidLess, ShownLess
  <2>5. S = {d \in Clients : <<p, d>> \in instances /\ For(targets, <<p, d>>)}
    BY <2>2, Zenon DEF Adds, Given
  <2>6. i \in pending'.by <=> c \in S
    BY <1>13, <2>1, <2>5 DEF MarkedFor, For
  <2>7. /\ \A x : Holds(new, x) <=> \E d \in S : x = Job("pipe", d, line)
        /\ \A j, k \in DOMAIN new : new[j] = new[k] => j = k
    BY <2>2, Zenon DEF Adds, Given
  <2>8. \A x \in PipeJobs(c) : Holds(new, x) => x = Job("pipe", c, line) /\ c \in S
    BY <2>7 DEF PipeJobs, Job
  <2>9. PipeJobs(c)' = PipeJobs(c)
    BY DEF PipeJobs
  <2>10. None(jobs[p], PipeJobs(c))
    BY <2>1, <2>3 DEF Jobless
  <2>11. CASE i \in pending'.by
    <3>1. One(new, PipeJobs(c))
      BY <2>7, <2>8 DEF One, Holds
    <3>2. OneJob(i)'
      BY <2>1, <2>2, <2>9, <2>10, <3>1, AddsCounts DEF OneJob
    <3>3. QED
      BY <2>4, <2>11, <3>2 DEF Traced, Marked
  <2>12. CASE i \notin pending'.by
    <3>1. None(new, PipeJobs(c))
      BY <2>6, <2>8, <2>12, NoneHeld
    <3>2. Jobless(i)'
      BY <2>1, <2>2, <2>9, <2>10, <3>1, AddsCounts DEF Jobless
    <3>3. QED
      BY <2>4, <2>12, <3>2 DEF Traced
  <2>13. QED
    BY <2>11, <2>12
<1>18. QED
  BY <1>15, <1>16, <1>17 DEF CalmInv

\* An answer goes to Screen, and Screen passes it on.
LEMMA Shows ==
  ASSUME TypeOK, NEW x \in Messages, screen' = Append(screen, x)
  PROVE  /\ \A y : Holds(screen', y) <=> y = x \/ Holds(screen, y)
         /\ \A A : /\ None(screen, A) => One(screen', A)
                   /\ None(screen, A) /\ x \notin A => None(screen', A)
                   /\ One(screen, A) /\ x \notin A => One(screen', A)
<1>1. PICK u : u = screen'
  OBVIOUS
<1>2. screen \in Seq(Messages) /\ u = Append(screen, x) /\ x \in Messages
  BY <1>1 DEF TypeOK
<1>3. \A y : Holds(u, y) <=> y = x \/ Holds(screen, y)
  BY ONLY <1>2, HoldsAdded
<1>4. \A A : /\ None(screen, A) => One(u, A)
             /\ None(screen, A) /\ x \notin A => None(u, A)
             /\ One(screen, A) /\ x \notin A => One(u, A)
  BY ONLY <1>2, AddedOnce
<1>5. QED
  BY <1>1, <1>3, <1>4

\* An answer of another instance gives it nothing.
LEMMA ShowsLess ==
  ASSUME TypeOK, NEW x \in Messages, screen' = Append(screen, x), NEW i, x \notin AnswersOf(i)
  PROVE  ShownLess(i)
<1>1. AnswersOf(i)' = AnswersOf(i)
  BY DEF AnswersOf
<1>2. QED
  BY <1>1, Shows DEF ShownLess, Unshown, OneShown

\* Screen takes an answer that was there once.
LEMMA Forwards ==
  ASSUME TypeOK, screen # <<>>, screen' = Tail(screen)
  PROVE  /\ Holds(screen, Head(screen)) /\ Head(screen) \in Messages
         /\ \A y : Holds(screen', y) => Holds(screen, y)
         /\ \A i : /\ ShownLess(i)
                   /\ OneShown(i) /\ Head(screen) \in AnswersOf(i) => Unshown(i)'
<1>1. screen \in Seq(Messages)
  BY DEF TypeOK
<1>2. Holds(screen, Head(screen)) /\ \A y : Holds(screen', y) => Holds(screen, y)
  BY <1>1, HoldsTail
<1>3. \A A : /\ None(screen, A) => None(screen', A)
             /\ One(screen, A) => One(screen', A)
             /\ One(screen, A) /\ Head(screen) \in A => None(screen', A)
  BY <1>1, TailOnce
<1>4. \A i : AnswersOf(i)' = AnswersOf(i)
  BY DEF AnswersOf
<1>5. \A i : /\ ShownLess(i)
             /\ OneShown(i) /\ Head(screen) \in AnswersOf(i) => Unshown(i)'
  BY <1>3, <1>4 DEF ShownLess, Unshown, OneShown
<1>6. QED
  BY <1>1, <1>2, <1>5

\* An answer is the answer of one instance.
LEMMA AnswerOfOne ==
  ASSUME NEW m \in Messages, m.is = "Answer"
  PROVE  \E i \in Instances, change \in Changes :
           /\ i = <<m.plugin, m.client>> /\ m = Answer(i, change) /\ m.change = change
           /\ m \in AnswersOf(i) /\ \A j \in Instances : j # i => m \notin AnswersOf(j)
<1>1. PICK i \in Instances, change \in Changes : m = Answer(i, change)
  BY DEF Messages, CliPipe, ApplyCached, AddClient, Unload, Update, Message
<1>2. i = <<i[1], i[2]>> /\ \A j \in Instances : j = <<j[1], j[2]>>
  BY DEF Instances
<1>3. m.plugin = i[1] /\ m.client = i[2] /\ m.change = change
  BY <1>1 DEF Answer, Message
<1>4. m \in AnswersOf(i)
  BY <1>1 DEF AnswersOf
<1>5. ASSUME NEW j \in Instances, m \in AnswersOf(j) PROVE j = i
  BY <1>2, <1>3, <1>5, Kinds
<1>6. QED
  BY <1>1, <1>2, <1>3, <1>4, <1>5

\* The Plugin thread learns that an instance has done the line.
LEMMA CalmAnswered ==
  ASSUME PipeAssumption, TypeOK, EntryMeant, CalmInv, HandleAnswer
  PROVE  CalmInv'
<1>1. /\ ReceiveNext("Answer") /\ UNCHANGED <<cli, screen, jobs, loading, cache>>
  BY DEF HandleAnswer
<1>2. /\ inbox # <<>> /\ inbox' = Tail(inbox) /\ Head(inbox) \in Messages
      /\ Head(inbox).is = "Answer"
  BY <1>1, ReceiveType DEF ReceiveNext
<1>3. PICK m : m = Head(inbox)
  OBVIOUS
<1>4. PICK done \in Instances, change \in Changes :
        /\ done = <<m.plugin, m.client>> /\ m = Answer(done, change) /\ m.change = change
        /\ m \in AnswersOf(done) /\ \A j \in Instances : j # done => m \notin AnswersOf(j)
  BY <1>2, <1>3, AnswerOfOne
<1>5. Holds(inbox, m) /\ \A y : Holds(inbox', y) => Holds(inbox, y)
  BY <1>2, <1>3, Leaves
<1>6. ~Unsaid(done)
  BY <1>4, <1>5, NoneHeld DEF Unsaid
<1>7. done \in pending.by /\ Jobless(done) /\ OneSaid(done) /\ Unshown(done)
  BY <1>6 DEF CalmInv, Traced, Marked
<1>8. PICK info : info = UpdateInfo(pending, change, done)
  OBVIOUS
<1>9. Settle(info)
  BY <1>3, <1>4, <1>7, <1>8 DEF HandleAnswer, EntryMeant
<1>10. info.by = pending.by \ {done}
  BY <1>8 DEF UpdateInfo, TypeOK
<1>11. pending'.by = pending.by \ {done}
  BY <1>9, <1>10 DEF Settle, Remaining, Released, Unknown
<1>12. unblocks' = unblocks \/ (unblocks' = unblocks + 1 /\ pending'.by = {})
  <2>1. CASE Released(info)
    BY <1>9, <1>10, <1>11, <2>1 DEF Settle, Released
  <2>2. CASE ~Released(info)
    BY <1>9, <2>2 DEF Settle, TypeOK
  <2>3. QED
    BY <2>1, <2>2
<1>13. Quiet'
  BY <1>1, <1>5 DEF CalmInv, Quiet
<1>14. Turn'
  <2>1. One(inbox, CliPipeOnes) => One(inbox', CliPipeOnes)
    BY <1>2, Leaves
  <2>2. Turn /\ pending'.by \subseteq pending.by /\ pending.by # {}
    BY <1>7, <1>11 DEF CalmInv
  <2>3. QED
    BY <1>1, <1>5, <1>12, <2>1, <2>2, TurnStays DEF TurnKept
<1>15. ASSUME NEW i \in Instances PROVE Traced(i)'
  <2>1. JobsLess(i) /\ ShownLess(i) /\ SaidLess(i)
    BY <1>1, <1>2, SameLess, LeavesLess
  <2>2. CASE i = done
    <3>1. Unsaid(i)'
      BY <1>2, <1>3, <1>4, <1>7, <2>2, LeavesLess
    <3>2. Jobless(i)' /\ Unshown(i)'
      BY <1>7, <2>1, <2>2 DEF JobsLess, ShownLess
    <3>3. QED
      BY <1>11, <2>2, <3>1, <3>2 DEF Traced
  <2>3. CASE i # done
    BY <1>11, <2>1, <2>3, TracedStays DEF CalmInv
  <2>4. QED
    BY <2>2, <2>3
<1>16. QED
  BY <1>13, <1>14, <1>15 DEF CalmInv

\* A job that is answered by nothing: an event, or one on which the plugin crashes.
LEMMA CalmDrops ==
  ASSUME TypeOK, CalmInv, NEW q \in Ids, jobs[q] # <<>>, jobs' = [jobs EXCEPT ![q] = Tail(@)],
         UNCHANGED <<cli, unblocks, inbox, screen, pending, loading, cache>>
  PROVE  CalmInv'
<1>1. /\ \A p \in Ids : \A y : Holds(jobs'[p], y) => Holds(jobs[p], y)
      /\ \A i \in Instances : JobsLess(i)
  BY JobLeaves
<1>2. Quiet'
  BY <1>1 DEF CalmInv, Quiet
<1>3. Turn'
  BY <1>1, TurnStays DEF TurnKept, CalmInv
<1>4. ASSUME NEW i \in Instances PROVE Traced(i)'
  BY <1>1, SameLess, TracedStays DEF CalmInv
<1>5. QED
  BY <1>2, <1>3, <1>4 DEF CalmInv

\* A plugin does a line and answers it.
LEMMA CalmRun ==
  ASSUME PipeAssumption, EventCalls = {}, TypeOK, CalmInv, NEW q \in Ids, RunPlugin(q)
  PROVE  CalmInv'
<1>1. /\ jobs[q] # <<>> /\ Head(jobs[q]).is \in {"pipe", "event"}
      /\ jobs' = [jobs EXCEPT ![q] = Tail(@)]
      /\ UNCHANGED <<cli, unblocks, pending, loading, cache>>
  BY DEF RunPlugin, NextJob, threadVars
<1>2. PICK job : job = Head(jobs[q])
  OBVIOUS
<1>3. PICK change \in Answers(q, job) :
        IF change = "none" THEN UNCHANGED <<inbox, screen>>
        ELSE \/ screen' = Append(screen, Answer(<<q, job.client>>, change)) /\ UNCHANGED inbox
             \/ inbox' = Append(inbox, Answer(<<q, job.client>>, change)) /\ UNCHANGED screen
  BY <1>2 DEF RunPlugin, NextJob
<1>4. /\ \A p \in Ids : \A y : Holds(jobs'[p], y) => Holds(jobs[p], y)
      /\ \A i \in Instances : JobsLess(i)
      /\ Holds(jobs[q], job) /\ job \in Jobs
  BY <1>1, <1>2, JobLeaves
<1>5. CASE job.is = "event"
  <2>1. change = "none"
    BY <1>5 DEF Answers
  <2>2. QED
    BY <1>1, <1>3, <2>1, CalmDrops
<1>6. CASE job.is = "pipe"
  <2>1. change \in Changes /\ change # "none"
    BY <1>6 DEF Answers, PipeAssumption, Changes
  <2>2. PICK c \in Clients : c = job.client
    BY <1>4 DEF Jobs
  <2>3. PICK done \in Instances : done = <<q, c>>
    BY <2>2 DEF Instances
  <2>4. PICK x : x = Answer(done, change)
    OBVIOUS
  <2>5. x \in Messages /\ x.is = "Answer"
    BY <2>1, <2>4, MessageTypes DEF Answer, Message
  <2>6. x \in AnswersOf(done) /\ \A j \in Instances : j # done => x \notin AnswersOf(j)
    <3>1. x.plugin = q /\ x.client = c
      BY <2>3, <2>4 DEF Answer, Message
    <3>2. \A j \in Instances : j = <<j[1], j[2]>>
      BY DEF Instances
    <3>3. \A j \in Instances : x \in AnswersOf(j) => j = done
      BY <2>3, <3>1, <3>2, Kinds
    <3>4. x \in AnswersOf(done)
      BY <2>1, <2>4 DEF AnswersOf
    <3>5. QED
      BY <3>3, <3>4
  <2>7. \/ screen' = Append(screen, x) /\ inbox' = inbox
        \/ inbox' = Append(inbox, x) /\ screen' = screen
    BY <1>3, <2>1, <2>2, <2>3, <2>4
  <2>8. job \in PipeJobs(done[2]) /\ done[1] = q
    BY <1>4, <1>6, <2>2, <2>3 DEF PipeJobs
  <2>9. ~Jobless(done)
    BY <1>4, <2>8, NoneHeld DEF Jobless
  <2>10. done \in pending.by /\ OneJob(done) /\ Unsaid(done) /\ Unshown(done)
    BY <2>9 DEF CalmInv, Traced, Marked
  <2>11. Jobless(done)'
    BY <1>1, <1>2, <2>8, <2>10, JobLeaves
  <2>12. /\ \A y : Holds(inbox', y) => Holds(inbox, y) \/ y.is = "Answer"
         /\ \A y : Holds(screen', y) => Holds(screen, y) \/ y.is = "Answer"
    BY <2>5, <2>7, Arrives, Shows
  <2>13. Quiet'
    BY <1>1, <1>4, <2>12 DEF CalmInv, Quiet
  <2>14. Turn'
    <3>1. x \notin CliPipeOnes
      BY <2>5, Kinds
    <3>2. One(inbox, CliPipeOnes) => One(inbox', CliPipeOnes)
      BY <2>5, <2>7, <3>1, Arrives
    <3>3. Turn /\ pending'.by \subseteq pending.by
      BY <1>1 DEF CalmInv
    <3>4. QED
      BY <1>1, <1>4, <2>12, <3>2, <3>3, TurnStays DEF TurnKept
  <2>15. ASSUME NEW i \in Instances PROVE Traced(i)'
    <3>1. CASE i # done
      <4>1. x \notin AnswersOf(i)
        BY <2>6, <3>1
      <4>2. SaidLess(i) /\ ShownLess(i)
        BY <2>5, <2>7, <4>1, ArrivesLess, ShowsLess, SameLess
      <4>3. QED
        BY <1>1, <1>4, <4>2, TracedStays DEF CalmInv
    <3>2. CASE i = done
      <4>1. AnswersOf(i)' = AnswersOf(i)
        BY DEF AnswersOf
      <4>2. CASE screen' = Append(screen, x) /\ inbox' = inbox
        <5>1. OneShown(i)' /\ Unsaid(i)'
          BY <2>5, <2>10, <3>2, <4>1, <4>2, Shows DEF OneShown, Unshown, Unsaid
        <5>2. QED
          BY <1>1, <2>10, <2>11, <3>2, <5>1 DEF Traced, Marked
      <4>3. CASE inbox' = Append(inbox, x) /\ screen' = screen
        <5>1. OneSaid(i)' /\ Unshown(i)'
          BY <2>5, <2>10, <3>2, <4>1, <4>3, Arrives DEF OneSaid, Unshown, Unsaid
        <5>2. QED
          BY <1>1, <2>10, <2>11, <3>2, <5>1 DEF Traced, Marked
      <4>4. QED
        BY <2>7, <4>2, <4>3
    <3>3. QED
      BY <3>1, <3>2
  <2>16. QED
    BY <2>13, <2>14, <2>15 DEF CalmInv
<1>7. QED
  BY <1>1, <1>2, <1>5, <1>6

\* Screen passes an answer on.
LEMMA CalmForward ==
  ASSUME PipeAssumption, TypeOK, CalmInv, ScreenForwards
  PROVE  CalmInv'
<1>1. PICK x : x = Head(screen)
  OBVIOUS
<1>2. /\ screen # <<>> /\ screen' = Tail(screen) /\ inbox' = Append(inbox, x)
      /\ UNCHANGED <<cli, unblocks, jobs, pending, loading, cache>>
  BY <1>1 DEF ScreenForwards, threadVars
<1>3. /\ Holds(screen, x) /\ x \in Messages
      /\ \A y : Holds(screen', y) => Holds(screen, y)
      /\ \A i : ShownLess(i) /\ (OneShown(i) /\ x \in AnswersOf(i) => Unshown(i)')
  BY <1>1, <1>2, Forwards
<1>4. x.is = "Answer"
  BY <1>3 DEF CalmInv, Quiet
<1>5. PICK done \in Instances :
        x \in AnswersOf(done) /\ \A j \in Instances : j # done => x \notin AnswersOf(j)
  BY <1>3, <1>4, AnswerOfOne
<1>6. /\ \A y : Holds(inbox', y) <=> y = x \/ Holds(inbox, y)
      /\ \A A : /\ None(inbox, A) => One(inbox', A)
                /\ One(inbox, A) /\ x \notin A => One(inbox', A)
  BY <1>2, <1>3, Arrives
<1>7. Quiet'
  BY <1>2, <1>3, <1>4, <1>6 DEF CalmInv, Quiet
<1>8. Turn'
  <2>1. x \notin CliPipeOnes
    BY <1>4, Kinds
  <2>2. \A y : Holds(inbox', y) => Holds(inbox, y) \/ y.is # "CliPipe"
    BY <1>4, <1>6
  <2>3. One(inbox, CliPipeOnes) => One(inbox', CliPipeOnes)
    BY <1>6, <2>1
  <2>4. Turn /\ pending'.by \subseteq pending.by
    BY <1>2 DEF CalmInv
  <2>5. QED
    BY <1>2, <2>2, <2>3, <2>4, TurnStays DEF TurnKept
<1>9. ~Unshown(done)
  BY <1>3, <1>5, NoneHeld DEF Unshown
<1>10. done \in pending.by /\ Jobless(done) /\ Unsaid(done) /\ OneShown(done)
  BY <1>9 DEF CalmInv, Traced, Marked
<1>11. ASSUME NEW i \in Instances PROVE Traced(i)'
  <2>1. JobsLess(i)
    BY <1>2, SameLess
  <2>2. CASE i # done
    <3>1. SaidLess(i)
      BY <1>2, <1>3, <1>5, <2>2, ArrivesLess
    <3>2. QED
      BY <1>2, <1>3, <2>1, <3>1, TracedStays DEF CalmInv
  <2>3. CASE i = done
    <3>1. AnswersOf(i)' = AnswersOf(i)
      BY DEF AnswersOf
    <3>2. OneSaid(i)'
      BY <1>6, <1>10, <2>3, <3>1 DEF OneSaid, Unsaid
    <3>3. Unshown(i)' /\ Jobless(i)'
      BY <1>3, <1>5, <1>10, <2>1, <2>3 DEF JobsLess
    <3>4. QED
      BY <1>2, <1>10, <2>3, <3>2, <3>3 DEF Traced, Marked
  <2>4. QED
    BY <2>2, <2>3
<1>12. QED
  BY <1>7, <1>8, <1>11 DEF CalmInv

\* Every step of a calm system keeps it line by line.
LEMMA CalmStep ==
  ASSUME PipeAssumption, EventCalls = {}, TypeOK, EntryMeant, CalmInv, Next,
         asked = {}, asked' = {}, nextId' = nextId
  PROVE  CalmInv'
<1>1. ASSUME NEW kind, ReceiveNext(kind) PROVE kind \in {"CliPipe", "Answer", "Update"}
  BY <1>1, Leaves DEF ReceiveNext, CalmInv, Quiet
<1>2. ~AskAttach /\ ~AskUnload
  BY DEF AskAttach, AskUnload, Ask
<1>3. ~HandleApplyCached /\ ~HandleAddClient /\ ~HandleUnload
  <2>1. \A kind \in {"ApplyCached", "AddClient", "Unload"} : ~ReceiveNext(kind)
    BY <1>1
  <2>2. HandleApplyCached => ReceiveNext("ApplyCached")
    BY DEF HandleApplyCached
  <2>3. HandleAddClient => ReceiveNext("AddClient")
    BY DEF HandleAddClient
  <2>4. HandleUnload => ReceiveNext("Unload")
    BY DEF HandleUnload
  <2>5. QED
    BY <2>1, <2>2, <2>3, <2>4
<1>4. \A p \in Ids : ~RunLoad(p)
  <2>1. ASSUME NEW p \in Ids, RunLoad(p) PROVE FALSE
    <3>1. jobs[p] # <<>> /\ jobs' = [jobs EXCEPT ![p] = Tail(@)]
          /\ Head(jobs[p]).is \in {"load", "attach"}
      BY <2>1 DEF RunLoad, NextJob
    <3>2. Holds(jobs[p], Head(jobs[p]))
      BY <3>1, JobLeaves
    <3>3. QED
      BY <3>1, <3>2 DEF CalmInv, Quiet
  <2>2. QED
    BY <2>1
<1>5. ASSUME NEW p \in Ids, PluginCrashes(p) PROVE CalmInv'
  <2>1. jobs[p] # <<>> /\ jobs' = [jobs EXCEPT ![p] = Tail(@)]
        /\ UNCHANGED <<cli, unblocks, inbox, screen, pending, loading, cache>>
    BY <1>5 DEF PluginCrashes, threadVars
  <2>2. QED
    BY <2>1, CalmDrops
<1>6. QED
  BY <1>2, <1>3, <1>4, <1>5, CalmSend, CalmUnblock, CalmEvent, CalmPiped, CalmUpdated,
     CalmAnswered, CalmRun, CalmForward DEF Next, PluginThread

\* At first no line is about.
LEMMA LineInit ==
  ASSUME PipeAssumption, Init
  PROVE  LineInv
<1>1. TypeOK /\ EntryMeant
  BY InitType, InitInvariant DEF IInv
<1>2. /\ inbox = <<>> /\ screen = <<>> /\ jobs = [p \in Ids |-> <<>>] /\ unblocks = 0
      /\ loading = {} /\ cache = [p \in Ids |-> <<>>] /\ pending.by = {}
  BY DEF Init, Unknown
<1>3. \A x : ~Holds(inbox, x) /\ ~Holds(screen, x) /\ \A p \in Ids : ~Holds(jobs[p], x)
  BY <1>2 DEF Holds
<1>4. Quiet
  BY <1>2, <1>3 DEF Quiet
<1>5. Turn
  <2>1. ~HoldsKind(inbox, "CliPipe")
    BY <1>3, KindHeld
  <2>2. One(inbox, CliPipeOnes)
    BY <1>2 DEF One
  <2>3. QED
    BY <1>2, <1>3, <2>1, <2>2 DEF Turn
<1>6. ASSUME NEW i \in Instances PROVE Traced(i)
  <2>1. i[1] \in Ids
    BY DEF Instances
  <2>2. Jobless(i) /\ Unsaid(i) /\ Unshown(i)
    BY <1>3, <2>1, NoneHeld DEF Jobless, Unsaid, Unshown
  <2>3. QED
    BY <1>2, <2>2 DEF Traced
<1>7. nextId >= Running + 1
  BY DEF Init, PipeAssumption
<1>8. QED
  BY <1>1, <1>4, <1>5, <1>6, <1>7 DEF LineInv, CalmInv

\* Every step keeps the invariant: in a system that is calm, and in one that is not.
LEMMA LineStep ==
  ASSUME PipeAssumption, EventCalls = {}, LineInv, [Next]_vars
  PROVE  LineInv'
<1>1. TypeOK /\ EntryMeant /\ TypeOK' /\ EntryMeant'
  BY TypeStep, EntryStep DEF LineInv
<1>2. nextId' >= Running + 1 /\ (Calm' => Calm /\ nextId' = nextId /\ asked' = asked)
  BY <1>1, WasCalm DEF LineInv
<1>3. ASSUME Calm' PROVE CalmInv'
  <2>1. Calm /\ CalmInv /\ nextId' = nextId /\ asked = {} /\ asked' = {}
    BY <1>2, <1>3 DEF Calm, LineInv
  <2>2. CASE Next
    BY <1>1, <2>1, <2>2, CalmStep
  <2>3. CASE UNCHANGED vars
    <3>1. UNCHANGED <<cli, unblocks, inbox, screen, jobs, pending, loading, cache>>
      BY <2>3 DEF vars, threadVars
    <3>2. Quiet'
      BY <2>1, <3>1 DEF CalmInv, Quiet
    <3>3. Turn'
      BY <2>1, <3>1, TurnStays DEF TurnKept, CalmInv
    <3>4. ASSUME NEW i \in Instances PROVE Traced(i)'
      BY <2>1, <3>1, SameLess, TracedStays DEF CalmInv
    <3>5. QED
      BY <3>2, <3>3, <3>4 DEF CalmInv
  <2>4. QED
    BY <2>2, <2>3
<1>4. QED
  BY <1>1, <1>2, <1>3 DEF LineInv

\* As long as no plugin is loaded or unloaded for the pipe, the line that is about,
\* as a message or a job, is the one the CLI client sent last, and the client has
\* not been let go on: whatever plugins run the lines, in whichever order they
\* answer, through whichever channel, block the pipe, unblock it or crash.  Plugins
\* that answer for the pipe while they handle an event are left out: such an answer
\* counts for the line the plugin has yet to process.
THEOREM OneLineAtATime ==
  ASSUME EventCalls = {}
  PROVE  Spec => []LineByLine
<1>1. Init => LineInv
  BY PipeAssumption, LineInit
<1>2. LineInv /\ [Next]_vars => LineInv'
  BY PipeAssumption, LineStep
<1>3. LineInv => LineByLine
  <2>1. SUFFICES ASSUME LineInv, Calm, NEW line \in Lines, Held(line)
                 PROVE  cli.line = line /\ Active
    BY DEF LineByLine, Calm, Active
  <2>2. TypeOK /\ CalmInv
    BY <2>1 DEF LineInv
  <2>3. CASE Holds(inbox, CliPipe(line))
    <3>1. HoldsKind(inbox, "CliPipe")
      BY <2>3, KindHeld, Kinds
    <3>2. CliPipe(line).is = "CliPipe" /\ CliPipe(line).line = line
      BY Kinds
    <3>3. QED
      BY <2>2, <2>3, <3>1, <3>2 DEF CalmInv, Turn
  <2>4. ASSUME NEW p \in Ids, NEW c \in Clients, Holds(jobs[p], Job("pipe", c, line))
        PROVE  cli.line = line /\ Active
    <3>1. PICK x : x = Job("pipe", c, line)
      OBVIOUS
    <3>2. Holds(jobs[p], x) /\ x.is = "pipe" /\ x.line = line
      BY <2>4, <3>1 DEF Job
    <3>3. pending.by # {}
      BY <2>2, <3>2, NoPipeJobs
    <3>4. QED
      BY <2>2, <3>2, <3>3 DEF CalmInv, Turn
  <2>5. ASSUME NEW p \in Ids, Holds(cache[p], Cached("pipe", line)) PROVE FALSE
    BY <2>2, <2>5 DEF CalmInv, Quiet, Holds
  <2>6. QED
    BY <2>1, <2>3, <2>4, <2>5 DEF Held
<1>4. QED
  BY <1>1, <1>2, <1>3, PTL DEF Spec
=============================================================================
