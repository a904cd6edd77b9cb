---------------------------- MODULE SessionState ----------------------------
(***************************************************************************)
(* How a running session is saved for resurrection.                        *)
(*                                                                         *)
(* The Screen thread captures the session and reserves a generation for    *)
(* the capture.  A capture asked for by the timer travels Screen -> Plugin *)
(* -> Pty -> background jobs and is cached there; the metadata loop writes *)
(* the cached capture once a second.  A capture asked for by save-session  *)
(* goes straight to Pty, which writes it.  Both writers go through         *)
(* commit_if_current: it holds the mutex of the generation map while it    *)
(* writes and refuses a capture older than the newest reservation.         *)
(*                                                                         *)
(* A version numbers a state of the session; 0 stands for "none".  The     *)
(* content of a file is the version it was captured from.                  *)
(***************************************************************************)
EXTENDS Naturals, FiniteSets, SequencesExt

CONSTANTS
  Names,        \* the session names
  Home,         \* the name the session starts with
  Files,        \* the pane-content files a layout refers to: their names are
                \* initial_contents_1, initial_contents_2, ... in every save
  MaxVersion,   \* bound on the versions of the session
  MaxReserve,   \* bound on the generations reserved by one server process
  MaxTroubles   \* bound on renames (a former name is neither taken again nor
                \* renamed), ends of the process and failed writes, together

ASSUME HomeAssumption == Home \in Names

VARIABLES
  phase,     \* "run", "quit" (Exit was sent to the threads) or "down"
  gone,      \* the threads that have ended: Screen, background jobs
  name,      \* Screen: session_name
  version,   \* Screen: the state of the session
  clean,     \* the versions whose layout does not differ from the base layout
  next,      \* SessionStatePersistenceCoordinator.next_generation
  latest,    \* SessionStatePersistenceCoordinator.latest_generations
  toPlugin, toPty, toJobs,   \* the channels of the three threads
  job,       \* background jobs: current_session_name, _info and _layout
  loop,      \* the locals of the metadata loop and where it stands
  writer,    \* the persist closure that runs under the mutex
  disk,      \* the session_info folder of every name
  accepted,  \* the captures of this process whose save-session was
             \* acknowledged before Exit was sent
  former,    \* the names the session was renamed from
  ends, faults

screenVars == <<name, version, clean, accepted, former>>
coordVars == <<next, latest>>
budgets == <<ends, faults>>
vars == <<phase, gone, screenVars, coordVars, toPlugin, toPty, toJobs, job,
          loop, writer, disk, budgets>>

NoCapture == [name |-> Home, gen |-> 0, version |-> 0]
NoFolder == [info |-> 0, files |-> [f \in Files |-> 0], layout |-> 0]
IdleLoop == [at |-> "sleep", name |-> Home, info |-> 0, snap |-> NoCapture]
NoWriter == [by |-> "nobody", at |-> "none", snap |-> NoCapture, info |-> 0,
             left |-> {}]

Captures == [name : Names, gen : Nat, version : Nat]
PtyMessages == [kind : {"log", "save", "exit"}, snap : Captures, info : Nat]
JobMessages == [kind : {"info", "layout", "exit"}, snap : Captures]
Folders == [info : Nat, files : [Files -> Nat], layout : Nat]

TypeOK ==
  /\ phase \in {"run", "quit", "down"} /\ gone \subseteq {"screen", "jobs"}
  /\ name \in Names /\ version \in Nat /\ clean \subseteq Nat
  /\ next \in Nat /\ latest \in [Names -> Nat]
  /\ toPlugin \in Seq(Captures)
  /\ toPty \in Seq(PtyMessages)
  /\ toJobs \in Seq(JobMessages)
  /\ job \in [name : Names, info : Nat, snap : Captures]
  /\ loop \in [at : {"sleep", "info", "layout", "write"}, name : Names,
               info : Nat, snap : Captures]
  /\ writer \in [by : {"nobody", "pty", "loop"}, snap : Captures, info : Nat,
                 at : {"none", "info", "files"}, left : SUBSET Files]
  /\ disk \in [Names -> Folders]
  /\ accepted \subseteq Captures
  /\ former \subseteq Names /\ ends \in Nat /\ faults \in Nat

-----------------------------------------------------------------------------
(* What a process keeps only in memory is as in one that starts as n.      *)
Forget(n, v) ==
  /\ name' = n /\ accepted' = {} /\ gone' = {}
  /\ next' = 0 /\ latest' = [m \in Names |-> 0]
  /\ toPlugin' = <<>> /\ toPty' = <<>> /\ toJobs' = <<>>
  /\ job' = [name |-> n, info |-> v, snap |-> NoCapture]
  /\ loop' = IdleLoop /\ writer' = NoWriter

Init ==
  /\ phase = "run" /\ gone = {} /\ name = Home
  /\ version = 1 /\ clean = {1}
  /\ next = 0 /\ latest = [m \in Names |-> 0]
  /\ toPlugin = <<>> /\ toPty = <<>> /\ toJobs = <<>>
  /\ job = [name |-> Home, info |-> 1, snap |-> NoCapture]
  /\ loop = IdleLoop /\ writer = NoWriter
  /\ disk = [m \in Names |-> NoFolder]
  /\ accepted = {} /\ former = {} /\ ends = 0 /\ faults = 0

-----------------------------------------------------------------------------
(* The Screen thread.                                                      *)

Bounded == Cardinality(former) + ends + faults < MaxTroubles

Alive == phase # "down"
ScreenRuns == Alive /\ "screen" \notin gone

\* Mutant: the report is sent as a message background jobs does not know.
MutReport(n, v) ==
  toJobs' = Append(toJobs, [kind |-> "log",
                            snap |-> [name |-> n, gen |-> 0, version |-> v]])

\* log_and_report_session_state: background jobs learn the name and the state.
Report(n, v) ==
  toJobs' = Append(toJobs, [kind |-> "info",
                            snap |-> [name |-> n, gen |-> 0, version |-> v]])

\* The user changes the session; its layout may or may not be the base layout.
Edit(isClean) ==
  /\ ScreenRuns /\ version < MaxVersion
  /\ version' = version + 1
  /\ clean' = IF isClean THEN clean \cup {version + 1} ELSE clean
  /\ Report(name, version + 1)
  /\ UNCHANGED <<phase, gone, name, accepted, former, coordVars, toPlugin,
                 toPty, job, loop, writer, disk, budgets>>

\* reserve: the map's mutex is held by a writer while it writes.
Reserve ==
  /\ next < MaxReserve /\ writer.by = "nobody"
  /\ next' = next + 1
  /\ latest' = [latest EXCEPT ![name] = next + 1]

Capture == [name |-> name, gen |-> next + 1, version |-> version]

\* The capture is taken before its generation is reserved, on one thread.
SerializeLayoutForResurrection ==
  /\ ScreenRuns /\ Reserve
  /\ toPlugin' = Append(toPlugin, Capture)
  /\ UNCHANGED <<phase, gone, screenVars, toPty, toJobs, job, loop, writer,
                 disk, budgets>>

\* Acknowledged when Pty has been sent the capture.  What Screen still handles
\* when the session exits reaches Pty too late; accepted leaves it out.
SaveSession ==
  /\ ScreenRuns /\ Reserve
  /\ toPty' = Append(toPty, [kind |-> "save", snap |-> Capture,
                             info |-> version])
  /\ accepted' = IF phase = "run" THEN accepted \cup {Capture} ELSE accepted
  /\ UNCHANGED <<phase, gone, name, version, clean, former, toPlugin, toJobs,
                 job, loop, writer, disk, budgets>>

\* The folder moves under the new name, unless there is none to move.
RenameSession(n) ==
  /\ ScreenRuns /\ Bounded
  /\ n # name /\ former \cap {n, name} = {} /\ disk[n] = NoFolder
  /\ former' = former \cup {name} /\ name' = n
  /\ disk' = [disk EXCEPT ![n] = disk[name], ![name] = NoFolder]
  /\ Report(n, version)
  /\ UNCHANGED <<phase, gone, version, clean, accepted, coordVars, toPlugin,
                 toPty, job, loop, writer, budgets>>

-----------------------------------------------------------------------------
(* The mutex and the two writers.                                          *)

\* Mutant: the generation is not checked under the mutex.
MutIsCurrent(n, gen) == gen >= 0

\* commit_if_current: a capture older than the newest reservation is dropped.
IsCurrent(n, gen) == gen >= latest[n]

Persist(by, snap, info) ==
  [by |-> by, at |-> "info", snap |-> snap, info |-> info, left |-> Files]

\* write_session_state_to_disk: metadata, contents files, the layout last.
PutInfo ==
  /\ Alive /\ writer.at = "info"
  /\ disk' = [disk EXCEPT ![writer.snap.name].info = writer.info]
  /\ writer' = IF writer.snap.version = 0 THEN NoWriter
               ELSE [writer EXCEPT !.at = "files"]
  /\ UNCHANGED <<phase, gone, screenVars, coordVars, toPlugin, toPty, toJobs,
                 job, loop, budgets>>

PutFile(f) ==
  /\ Alive /\ writer.at = "files" /\ f \in writer.left
  /\ disk' = [disk EXCEPT ![writer.snap.name].files[f] = writer.snap.version]
  /\ writer' = [writer EXCEPT !.left = @ \ {f}]
  /\ UNCHANGED <<phase, gone, screenVars, coordVars, toPlugin, toPty, toJobs,
                 job, loop, budgets>>

\* Mutant: the layout is published before the files it refers to.
MutPutLayout ==
  /\ Alive /\ writer.at = "files"
  /\ disk' = [disk EXCEPT ![writer.snap.name].layout = writer.snap.version]
  /\ writer' = NoWriter
  /\ UNCHANGED <<phase, gone, screenVars, coordVars, toPlugin, toPty, toJobs, job,
                 loop, budgets>>

\* Only a save by Pty is reported: the loop wrote what is cached already.
PutLayout ==
  /\ Alive /\ writer.at = "files" /\ writer.left = {}
  /\ disk' = [disk EXCEPT ![writer.snap.name].layout = writer.snap.version]
  /\ writer' = NoWriter
  /\ toJobs' = IF writer.by = "pty"
               THEN Append(toJobs, [kind |-> "layout", snap |-> writer.snap])
               ELSE toJobs
  /\ UNCHANGED <<phase, gone, screenVars, coordVars, toPlugin, toPty, job,
                 loop, budgets>>

\* A write fails: the error is logged and the rest of the save is given up.
WriteFails ==
  /\ Alive /\ writer.by # "nobody" /\ Bounded
  /\ faults' = faults + 1 /\ writer' = NoWriter
  /\ UNCHANGED <<phase, gone, screenVars, coordVars, toPlugin, toPty, toJobs,
                 job, loop, disk, ends>>

-----------------------------------------------------------------------------
(* The Plugin, Pty and background-jobs threads.                            *)

PluginForwards ==
  /\ Alive /\ toPlugin # <<>>
  /\ toPlugin' = Tail(toPlugin)
  /\ toPty' = Append(toPty, [kind |-> "log", snap |-> Head(toPlugin),
                             info |-> 0])
  /\ UNCHANGED <<phase, gone, screenVars, coordVars, toJobs, job, loop,
                 writer, disk, budgets>>

PtyTakes(kind) ==
  /\ Alive /\ writer.by # "pty"
  /\ toPty # <<>> /\ Head(toPty).kind = kind
  /\ toPty' = Tail(toPty)

\* LogLayoutToHd: only a layout that differs from the base one is reported.
PtyLogs ==
  /\ PtyTakes("log")
  /\ LET snap == Head(toPty).snap IN
       toJobs' = IF snap.version \in clean THEN toJobs
                 ELSE Append(toJobs, [kind |-> "layout", snap |-> snap])
  /\ UNCHANGED <<phase, gone, screenVars, coordVars, toPlugin, job, loop,
                 writer, disk, budgets>>

\* SaveSessionToDisk: a superseded save is dropped.
PtySaves ==
  /\ PtyTakes("save") /\ writer.by = "nobody"
  /\ LET m == Head(toPty) IN
       writer' = IF IsCurrent(m.snap.name, m.snap.gen)
                 THEN Persist("pty", m.snap, m.info) ELSE writer
  /\ UNCHANGED <<phase, gone, screenVars, coordVars, toPlugin, toJobs, job,
                 loop, disk, budgets>>

JobsTakes(kind) ==
  /\ Alive /\ "jobs" \notin gone /\ toJobs # <<>> /\ Head(toJobs).kind = kind
  /\ toJobs' = Tail(toJobs)

ReportSessionInfo ==
  /\ JobsTakes("info")
  /\ LET s == Head(toJobs).snap IN
       job' = [job EXCEPT !.name = s.name, !.info = s.version]
  /\ UNCHANGED <<phase, gone, screenVars, coordVars, toPlugin, toPty, loop,
                 writer, disk, budgets>>

\* The cached capture is replaced by a newer one of the current session.
ReportLayoutInfo ==
  /\ JobsTakes("layout")
  /\ LET s == Head(toJobs).snap IN
       job' = IF s.name = job.name /\ s.gen >= job.snap.gen
              THEN [job EXCEPT !.snap = s] ELSE job
  /\ UNCHANGED <<phase, gone, screenVars, coordVars, toPlugin, toPty, loop,
                 writer, disk, budgets>>

-----------------------------------------------------------------------------
(* The metadata loop reads name, info and layout under three locks.        *)

LoopStep(from) ==
  /\ Alive /\ loop.at = from
  /\ UNCHANGED <<phase, gone, screenVars, coordVars, toPlugin, toPty, toJobs, job,
                 disk, budgets>>

LoopReadsName ==
  /\ LoopStep("sleep")
  /\ loop' = [loop EXCEPT !.at = "info", !.name = job.name]
  /\ UNCHANGED writer

LoopReadsInfo ==
  /\ LoopStep("info")
  /\ loop' = [loop EXCEPT !.at = "layout", !.info = job.info]
  /\ UNCHANGED writer

\* Mutant: the cached capture is written under the name only if it is not its.
MutLoopReadsLayout ==
  /\ LoopStep("layout")
  /\ loop' = [loop EXCEPT
                 !.at = "write",
                 !.snap = IF job.snap.name # loop.name THEN job.snap
                          ELSE [NoCapture EXCEPT !.name = loop.name]]
  /\ UNCHANGED writer

\* A capture of another session name is not written: only the metadata is.
LoopReadsLayout ==
  /\ LoopStep("layout")
  /\ loop' = [loop EXCEPT
                 !.at = "write",
                 !.snap = IF job.snap.name = loop.name THEN job.snap
                          ELSE [NoCapture EXCEPT !.name = loop.name]]
  /\ UNCHANGED writer

LoopWrites ==
  /\ LoopStep("write") /\ writer.by = "nobody"
  /\ writer' = IF IsCurrent(loop.snap.name, loop.snap.gen)
               THEN Persist("loop", loop.snap, loop.info) ELSE writer
  /\ loop' = IdleLoop

-----------------------------------------------------------------------------
(* The end of the process and its resurrection.                            *)

\* Exit is sent to Pty before it is sent to Screen, which goes on until then.
Quit ==
  /\ phase = "run" /\ Bounded
  /\ phase' = "quit" /\ ends' = ends + 1
  /\ toPty' = Append(toPty, [kind |-> "exit", snap |-> NoCapture, info |-> 0])
  /\ toJobs' = Append(toJobs, [kind |-> "exit", snap |-> NoCapture])
  /\ UNCHANGED <<gone, screenVars, coordVars, toPlugin, job, loop, writer,
                 disk, faults>>

ScreenExits ==
  /\ phase = "quit" /\ ScreenRuns
  /\ gone' = gone \cup {"screen"}
  /\ UNCHANGED <<phase, screenVars, coordVars, toPlugin, toPty, toJobs, job,
                 loop, writer, disk, budgets>>

\* Background jobs removes the metadata file and ends; the loop goes on.
JobsExit ==
  /\ JobsTakes("exit")
  /\ gone' = gone \cup {"jobs"}
  /\ disk' = [disk EXCEPT ![job.name].info = 0]
  /\ UNCHANGED <<phase, screenVars, coordVars, toPlugin, toPty, job, loop,
                 writer, budgets>>

\* Mutant: the process does not wait for the Pty thread.
MutProcessExits ==
  /\ phase = "quit" /\ gone = {"screen", "jobs"}
  /\ phase' = "down" /\ Forget(name, version)
  /\ UNCHANGED <<version, clean, former, disk, budgets>>

\* The process ends when its threads have ended, whatever the loop does.
ProcessExits ==
  /\ phase = "quit" /\ gone = {"screen", "jobs"} /\ writer.by # "pty"
  /\ toPty # <<>> /\ Head(toPty).kind = "exit"
  /\ phase' = "down" /\ Forget(name, version)
  /\ UNCHANGED <<version, clean, former, disk, budgets>>

\* Threads that have not ended in time are not waited for.
JoinTimesOut ==
  /\ phase = "quit" /\ phase' = "down" /\ Forget(name, version)
  /\ UNCHANGED <<version, clean, former, disk, budgets>>

Crash ==
  /\ Alive /\ Bounded
  /\ ends' = ends + 1 /\ phase' = "down" /\ Forget(name, version)
  /\ UNCHANGED <<version, clean, former, disk, faults>>

\* A folder with a layout can be resurrected: a new process, under its name.
Resurrect(n, isClean) ==
  /\ ~Alive /\ disk[n].layout # 0
  /\ version' = version + 1
  /\ clean' = IF isClean THEN clean \cup {version + 1} ELSE clean
  /\ phase' = "run" /\ Forget(n, version + 1)
  /\ UNCHANGED <<former, disk, budgets>>

-----------------------------------------------------------------------------
WriterStep == PutInfo \/ (\E f \in Files : PutFile(f)) \/ PutLayout
PtyStep == PtyLogs \/ PtySaves \/ ProcessExits
JobsStep == ReportSessionInfo \/ ReportLayoutInfo \/ JobsExit
LoopReads == LoopReadsName \/ LoopReadsInfo \/ LoopReadsLayout

Next ==
  \/ \E b \in BOOLEAN : Edit(b)
  \/ SerializeLayoutForResurrection
  \/ SaveSession
  \/ \E n \in Names : RenameSession(n)
  \/ PluginForwards
  \/ PtyStep
  \/ JobsStep
  \/ LoopReads
  \/ LoopWrites
  \/ WriterStep
  \/ WriteFails
  \/ Quit
  \/ ScreenExits
  \/ JoinTimesOut
  \/ Crash
  \/ \E n \in Names, b \in BOOLEAN : Resurrect(n, b)

Spec == Init /\ [][Next]_vars

(* Every thread handles its channel, a write that began goes on and the     *)
(* timer, which the loop drives, fires.  The                                *)
(* two users of the mutex get it in the end although the other takes it    *)
(* again and again: the loop sleeps a second or more between two writes.   *)
FairSpec ==
  /\ Spec
  /\ WF_vars(PluginForwards) /\ WF_vars(JobsStep) /\ WF_vars(LoopReads)
  /\ WF_vars(WriterStep) /\ WF_vars(SerializeLayoutForResurrection)
  /\ SF_vars(PtyStep) /\ SF_vars(LoopWrites)

-----------------------------------------------------------------------------
(* Properties.                                                             *)

(* Publish the layout only after every pane-content file it refers to: a    *)
(* layout on disk never refers to a file that is missing or older than it,  *)
(* whatever write failed and wherever the process died.  A folder that was  *)
(* renamed while a save was being written to it is the exception.           *)
NoStaleContents ==
  \A n \in Names \ former : disk[n].layout # 0 =>
    \A f \in Files : disk[n].files[f] >= disk[n].layout

(* A delayed save never replaces a newer one: while the session keeps its   *)
(* name, the layout in a folder is only replaced by a later capture,        *)
(* although the captures reach the two writers out of order.                *)
NewerOnly ==
  [][name' = name => \A n \in Names : disk'[n].layout >= disk[n].layout]_vars

(* An orderly exit keeps the last acknowledged save: if it was acknowledged  *)
(* before the exit, no generation was reserved after it and no write        *)
(* failed, it is on disk when all threads have ended, although save-session *)
(* was answered before anything was written.                                *)
ExitKeepsLastSave ==
  [][ProcessExits /\ faults = 0 =>
       \A c \in accepted : c.gen = latest[c.name] =>
         \E n \in Names : disk[n].layout >= c.version]_vars

(* The captures some thread still holds.                                   *)
Held == ToSet(toPlugin) \cup {m.snap : m \in ToSet(toPty)}
          \cup {m.snap : m \in ToSet(toJobs)}
          \cup {loop.snap, writer.snap}
          \cup (IF job.snap.name = job.name THEN {job.snap} ELSE {})

(* The newest generation of a name was reserved for a capture that nobody   *)
(* holds any more: until the next reservation every save of it is refused.  *)
Abandoned(n) ==
  /\ latest[n] # 0
  /\ \A c \in Held : ~(c.name = n /\ c.gen = latest[n])

(* An acknowledged save lands: it, or a later capture, reaches the disk,    *)
(* unless the process ends or the newest capture was given up.              *)
SaveLands ==
  \A v \in 1..MaxVersion :
    (\E c \in accepted : c.version = v) ~>
      \/ \E n \in Names : disk[n].layout >= v
      \/ ends > 0 \/ \E n \in Names : Abandoned(n)

(* "if disabled, other sessions might not know metadata about this          *)
(* session": when it is enabled they get to know it.                        *)
InfoAlwaysPublished ==
  \A v \in 1..MaxVersion : (version = v) ~> (\E n \in Names : disk[n].info >= v)

(* "The layout is the resurrection commit point": what is resurrected after *)
(* the process died is one save, layout and pane contents alike.            *)
ResurrectsOneSave ==
  ~Alive => \A n \in Names : disk[n].layout # 0 =>
              \A f \in Files : disk[n].files[f] = disk[n].layout

=============================================================================
