------------------------- MODULE SessionState_proofs -------------------------
(***************************************************************************)
(* Proofs about SessionState, for any names, contents files and bounds:    *)
(* type correctness, that a layout on disk never refers to contents older  *)
(* than itself, that a delayed save never replaces a newer one, and that   *)
(* an orderly exit keeps the last acknowledged save.                       *)
(***************************************************************************)
EXTENDS SessionState, TLAPS

-----------------------------------------------------------------------------
(* Channels. *)

\* What a channel holds after a message was sent or taken.
LEMMA ChannelHolds ==
  ASSUME NEW S, NEW s \in Seq(S)
  PROVE  /\ ToSet(s) \subseteq S
         /\ \A x \in S : ToSet(Append(s, x)) = ToSet(s) \cup {x}
         /\ s # <<>> => /\ Head(s) \in ToSet(s)
                        /\ ToSet(Tail(s)) \subseteq ToSet(s)
<1>1. ToSet(s) \subseteq S
  BY DEF ToSet
<1>2. ASSUME NEW x \in S
      PROVE  ToSet(Append(s, x)) = ToSet(s) \cup {x}
  <2>1. /\ Append(s, x) \in Seq(S)
        /\ Len(Append(s, x)) = Len(s) + 1
        /\ Append(s, x)[Len(s) + 1] = x
        /\ \A i \in 1 .. Len(s) : Append(s, x)[i] = s[i]
    BY <1>2
  <2>2. DOMAIN Append(s, x) = 1 .. Len(s) + 1 /\ DOMAIN s = 1 .. Len(s)
    BY <2>1
  <2>3. 1 .. Len(s) + 1 = (1 .. Len(s)) \cup {Len(s) + 1}
    OBVIOUS
  <2>4. QED
    BY <2>1, <2>2, <2>3 DEF ToSet
<1>3. ASSUME s # <<>>
      PROVE  Head(s) \in ToSet(s) /\ ToSet(Tail(s)) \subseteq ToSet(s)
  <2>1. Head(s) = s[1] /\ 1 \in DOMAIN s
    BY <1>3
  <2>2. \A i \in DOMAIN Tail(s) : Tail(s)[i] = s[i + 1] /\ i + 1 \in DOMAIN s
    BY <1>3
  <2>3. QED
    BY <2>1, <2>2 DEF ToSet
<1>4. QED
  BY <1>1, <1>2, <1>3

-----------------------------------------------------------------------------
(* Type correctness. *)

\* The constant records have their types.
LEMMA ConstantTypes ==
  /\ NoCapture \in Captures
  /\ NoFolder \in Folders
  /\ \A n \in Names : [NoCapture EXCEPT !.name = n] \in Captures
  BY HomeAssumption DEF NoCapture, NoFolder, Captures, Folders

\* What a process forgets is of its type.
LEMMA ForgetType ==
  ASSUME NEW n \in Names, NEW v \in Nat, Forget(n, v)
  PROVE  /\ name' \in Names /\ accepted' \subseteq Captures /\ gone' = {}
         /\ next' \in Nat /\ latest' \in [Names -> Nat]
         /\ toPlugin' \in Seq(Captures) /\ toPty' \in Seq(PtyMessages)
         /\ toJobs' \in Seq(JobMessages)
         /\ job' \in [name : Names, info : Nat, snap : Captures]
         /\ loop' \in [at : {"sleep", "info", "layout", "write"}, name : Names,
                       info : Nat, snap : Captures]
         /\ writer' \in [by : {"nobody", "pty", "loop"}, snap : Captures,
                         info : Nat, at : {"none", "info", "files"},
                         left : SUBSET Files]
  BY ConstantTypes, HomeAssumption DEF Forget, IdleLoop, NoWriter

\* What messages are made of, and what they hold.
LEMMA MessageTypes ==
  /\ \A n \in Names, v \in Nat :
        [kind |-> "info", snap |-> [name |-> n, gen |-> 0, version |-> v]]
          \in JobMessages
  /\ \A c \in Captures, k \in {"layout", "exit"} :
        [kind |-> k, snap |-> c] \in JobMessages
  /\ \A c \in Captures, k \in {"log", "save", "exit"}, i \in Nat :
        [kind |-> k, snap |-> c, info |-> i] \in PtyMessages
  /\ \A m \in PtyMessages : m.snap \in Captures /\ m.info \in Nat
  /\ \A m \in JobMessages : m.snap \in Captures
  /\ \A c \in Captures : c.name \in Names /\ c.gen \in Nat /\ c.version \in Nat
<1>1. \A n \in Names, v \in Nat :
        [kind |-> "info", snap |-> [name |-> n, gen |-> 0, version |-> v]]
          \in JobMessages
  BY DEF JobMessages, Captures
<1>2. \A c \in Captures, k \in {"layout", "exit"} :
        [kind |-> k, snap |-> c] \in JobMessages
  BY DEF JobMessages
<1>3. \A c \in Captures, k \in {"log", "save", "exit"}, i \in Nat :
        [kind |-> k, snap |-> c, info |-> i] \in PtyMessages
  BY DEF PtyMessages
<1>4. /\ \A m \in PtyMessages : m.snap \in Captures /\ m.info \in Nat
      /\ \A m \in JobMessages : m.snap \in Captures
  BY DEF PtyMessages, JobMessages
<1>5. \A c \in Captures : c.name \in Names /\ c.gen \in Nat /\ c.version \in Nat
  BY DEF Captures
<1>6. QED
  BY <1>1, <1>2, <1>3, <1>4, <1>5

LEMMA TypeInit == Init => TypeOK
  BY ConstantTypes, HomeAssumption DEF Init, TypeOK, IdleLoop, NoWriter

LEMMA TypeStep == TypeOK /\ [Next]_vars => TypeOK'
<1> SUFFICES ASSUME TypeOK, [Next]_vars PROVE TypeOK'
  OBVIOUS
<1> USE ConstantTypes
<1> USE DEF screenVars, coordVars, budgets
<1>0. Capture \in Captures
  <2>1. name \in Names /\ next + 1 \in Nat /\ version \in Nat
    BY DEF TypeOK
  <2>2. QED
    BY <2>1 DEF Captures, Capture
<1>1. ASSUME NEW b \in BOOLEAN, Edit(b) PROVE TypeOK'
  <2> DEFINE m == [kind |-> "info", snap |-> [name |-> name, gen |-> 0,
                                              version |-> version + 1]]
  <2>0. m \in JobMessages
    BY MessageTypes DEF TypeOK
  <2>1. toJobs' \in Seq(JobMessages)
    <3>1. toJobs' = Append(toJobs, m)
      BY <1>1 DEF Edit, Report
    <3> HIDE DEF m
    <3>2. QED
      BY <2>0, <3>1 DEF TypeOK
  <2>2. version' \in Nat /\ clean' \subseteq Nat
    BY <1>1 DEF Edit, TypeOK
  <2>3. QED
    BY <1>1, <2>1, <2>2 DEF Edit, TypeOK
<1>2. ASSUME SerializeLayoutForResurrection PROVE TypeOK'
  <2>1. toPlugin' \in Seq(Captures)
    BY MessageTypes, <1>0, <1>2 DEF SerializeLayoutForResurrection, TypeOK
  <2>2. next' \in Nat /\ latest' \in [Names -> Nat]
    BY <1>2, SMTT(30) DEF SerializeLayoutForResurrection, Reserve, TypeOK
  <2>3. QED
    BY <1>2, <2>1, <2>2 DEF SerializeLayoutForResurrection, TypeOK
<1>3. ASSUME SaveSession PROVE TypeOK'
  <2>1. toPty' \in Seq(PtyMessages) /\ accepted' \subseteq Captures
    BY MessageTypes, <1>0, <1>3 DEF SaveSession, TypeOK
  <2>2. next' \in Nat /\ latest' \in [Names -> Nat]
    BY <1>3, SMTT(30) DEF SaveSession, Reserve, TypeOK
  <2>3. QED
    BY <1>3, <2>1, <2>2 DEF SaveSession, TypeOK
<1>4. ASSUME NEW n \in Names, RenameSession(n) PROVE TypeOK'
  <2> DEFINE m == [kind |-> "info", snap |-> [name |-> n, gen |-> 0,
                                              version |-> version]]
  <2>0. m \in JobMessages
    BY MessageTypes DEF TypeOK
  <2>1. toJobs' \in Seq(JobMessages)
    <3>1. toJobs' = Append(toJobs, m)
      BY <1>4 DEF RenameSession, Report
    <3> HIDE DEF m
    <3>2. QED
      BY <2>0, <3>1 DEF TypeOK
  <2>2. disk' \in [Names -> Folders]
    BY <1>4 DEF RenameSession, TypeOK
  <2>3. QED
    BY <1>4, <2>1, <2>2 DEF RenameSession, TypeOK
<1>5. ASSUME PluginForwards PROVE TypeOK'
  <2>1. Head(toPlugin) \in Captures /\ toPlugin' \in Seq(Captures)
    BY <1>5, SMTT(30) DEF PluginForwards, TypeOK
  <2> DEFINE m == [kind |-> "log", snap |-> Head(toPlugin), info |-> 0]
  <2>2. toPty' \in Seq(PtyMessages)
    <3>1. toPty' = Append(toPty, m)
      BY <1>5 DEF PluginForwards
    <3>2. m \in PtyMessages
      BY <2>1, MessageTypes
    <3> HIDE DEF m
    <3>3. QED
      BY <3>1, <3>2 DEF TypeOK
  <2>3. QED
    BY <1>5, <2>1, <2>2 DEF PluginForwards, TypeOK
<1>6. ASSUME PtyLogs PROVE TypeOK'
  <2>1. Head(toPty) \in PtyMessages /\ toPty' \in Seq(PtyMessages)
    BY <1>6 DEF PtyLogs, PtyTakes, TypeOK
  <2>2. toJobs' \in Seq(JobMessages)
    <3> DEFINE m == [kind |-> "layout", snap |-> Head(toPty).snap]
    <3>1. toJobs' = toJobs \/ toJobs' = Append(toJobs, m)
      BY <1>6 DEF PtyLogs
    <3>2. m \in JobMessages
      BY <2>1, MessageTypes
    <3>3. toJobs \in Seq(JobMessages)
      BY DEF TypeOK
    <3> HIDE DEF m
    <3>4. QED
      BY <3>1, <3>2, <3>3
  <2>3. QED
    BY <1>6, <2>1, <2>2 DEF PtyLogs, TypeOK
<1>7. ASSUME PtySaves PROVE TypeOK'
  <2>1. Head(toPty) \in PtyMessages /\ toPty' \in Seq(PtyMessages)
    BY <1>7 DEF PtySaves, PtyTakes, TypeOK
  <2>2. \/ writer' = writer
        \/ writer' = Persist("pty", Head(toPty).snap, Head(toPty).info)
    BY <1>7 DEF PtySaves
  <2>3. writer' \in [by : {"nobody", "pty", "loop"}, snap : Captures,
                     info : Nat, at : {"none", "info", "files"},
                     left : SUBSET Files]
    BY MessageTypes, <1>0, <2>1, <2>2, SMTT(30) DEF Persist, TypeOK
  <2>4. QED
    BY <1>7, <2>1, <2>3 DEF PtySaves, TypeOK
<1>8. ASSUME ProcessExits PROVE TypeOK'
  <2>1. Forget(name, version)
    BY <1>8 DEF ProcessExits
  <2>2. QED
    BY <1>8, <2>1, ForgetType DEF TypeOK, ProcessExits
<1>9. ASSUME ReportSessionInfo PROVE TypeOK'
  <2>1. Head(toJobs) \in JobMessages /\ toJobs' \in Seq(JobMessages)
    BY <1>9 DEF ReportSessionInfo, JobsTakes, TypeOK
  <2>2. job' \in [name : Names, info : Nat, snap : Captures]
    BY MessageTypes, <1>0, <1>9, <2>1 DEF ReportSessionInfo, TypeOK
  <2>3. QED
    BY <1>9, <2>1, <2>2 DEF ReportSessionInfo, TypeOK
<1>10. ASSUME ReportLayoutInfo PROVE TypeOK'
  <2>1. Head(toJobs) \in JobMessages /\ toJobs' \in Seq(JobMessages)
    BY <1>10 DEF ReportLayoutInfo, JobsTakes, TypeOK
  <2>2. job' \in [name : Names, info : Nat, snap : Captures]
    BY MessageTypes, <1>0, <1>10, <2>1 DEF ReportLayoutInfo, TypeOK
  <2>3. QED
    BY <1>10, <2>1, <2>2 DEF ReportLayoutInfo, TypeOK
<1>11. ASSUME JobsExit PROVE TypeOK'
  <2>1. toJobs' \in Seq(JobMessages)
    BY <1>11 DEF JobsExit, JobsTakes, TypeOK
  <2>2. disk' \in [Names -> Folders]
    BY <1>11 DEF JobsExit, TypeOK, Folders
  <2>3. QED
    BY <1>11, <2>1, <2>2 DEF JobsExit, TypeOK
<1>12. ASSUME LoopReads PROVE TypeOK'
  <2>1. loop' \in [at : {"sleep", "info", "layout", "write"}, name : Names,
                   info : Nat, snap : Captures]
    BY <1>12, ZenonT(40) DEF LoopReads, LoopReadsName, LoopReadsInfo, LoopReadsLayout,
                 TypeOK
  <2>2. QED
    BY <1>12, <2>1 DEF LoopReads, LoopReadsName, LoopReadsInfo,
                       LoopReadsLayout, LoopStep, TypeOK
<1>13. ASSUME LoopWrites PROVE TypeOK'
  <2>1. loop' \in [at : {"sleep", "info", "layout", "write"}, name : Names,
                   info : Nat, snap : Captures]
    BY <1>13, HomeAssumption DEF LoopWrites, IdleLoop
  <2>2. writer' = writer \/ writer' = Persist("loop", loop.snap, loop.info)
    BY <1>13 DEF LoopWrites
  <2>3. writer' \in [by : {"nobody", "pty", "loop"}, snap : Captures,
                     info : Nat, at : {"none", "info", "files"},
                     left : SUBSET Files]
    BY <2>2 DEF Persist, TypeOK
  <2>4. QED
    BY <1>13, <2>1, <2>3 DEF LoopWrites, LoopStep, TypeOK
<1>14. ASSUME WriterStep PROVE TypeOK'
  <2> DEFINE WriterType == [by : {"nobody", "pty", "loop"}, snap : Captures,
                            info : Nat, at : {"none", "info", "files"},
                            left : SUBSET Files]
  <2>1. NoWriter \in WriterType /\ writer \in WriterType
    BY DEF NoWriter, TypeOK
  <2>2. ASSUME PutInfo PROVE TypeOK'
    <3>1. disk' \in [Names -> Folders]
      BY MessageTypes, <1>0, <2>2 DEF PutInfo, Folders, TypeOK
    <3>2. writer' \in WriterType
      BY <2>1, <2>2 DEF PutInfo
    <3>3. QED
      BY <2>2, <3>1, <3>2 DEF PutInfo, TypeOK
  <2>3. ASSUME NEW f \in Files, PutFile(f) PROVE TypeOK'
    <3>1. disk' \in [Names -> Folders]
      BY MessageTypes, <1>0, <2>3 DEF PutFile, Folders, TypeOK
    <3>2. writer' \in WriterType
      BY <2>1, <2>3 DEF PutFile
    <3>3. QED
      BY <2>3, <3>1, <3>2 DEF PutFile, TypeOK
  <2>4. ASSUME PutLayout PROVE TypeOK'
    <3>1. disk' \in [Names -> Folders]
      BY MessageTypes, <1>0, <2>4 DEF PutLayout, Folders, TypeOK
    <3>2. toJobs' \in Seq(JobMessages)
      <4> DEFINE m == [kind |-> "layout", snap |-> writer.snap]
      <4>1. toJobs' = toJobs \/ toJobs' = Append(toJobs, m)
        BY <2>4 DEF PutLayout
      <4>2. m \in JobMessages
        BY <2>1, MessageTypes
      <4>3. toJobs \in Seq(JobMessages)
        BY DEF TypeOK
      <4> HIDE DEF m
      <4>4. QED
        BY <4>1, <4>2, <4>3
    <3>3. QED
      BY <2>1, <2>4, <3>1, <3>2 DEF PutLayout, TypeOK
  <2>5. QED
    BY <1>14, <2>2, <2>3, <2>4 DEF WriterStep
<1>15. ASSUME WriteFails PROVE TypeOK'
  BY <1>15, SMTT(30) DEF TypeOK, WriteFails, NoWriter
<1>16. ASSUME Quit PROVE TypeOK'
  <2>1. toPty' \in Seq(PtyMessages) /\ toJobs' \in Seq(JobMessages)
    <3> DEFINE m == [kind |-> "exit", snap |-> NoCapture, info |-> 0]
               k == [kind |-> "exit", snap |-> NoCapture]
    <3>1. toPty' = Append(toPty, m) /\ toJobs' = Append(toJobs, k)
      BY <1>16 DEF Quit
    <3>2. m \in PtyMessages /\ k \in JobMessages
      BY MessageTypes
    <3> HIDE DEF m, k
    <3>3. QED
      BY <3>1, <3>2 DEF TypeOK
  <2>2. ends' \in Nat
    BY <1>16, SMTT(30) DEF Quit, TypeOK
  <2>3. QED
    BY <1>16, <2>1, <2>2 DEF Quit, TypeOK
<1>21. ASSUME ScreenExits PROVE TypeOK'
  BY <1>21 DEF ScreenExits, TypeOK
<1>22. ASSUME JoinTimesOut PROVE TypeOK'
  <2>1. Forget(name, version)
    BY <1>22 DEF JoinTimesOut
  <2>2. QED
    BY <1>22, <2>1, ForgetType DEF TypeOK, JoinTimesOut
<1>17. ASSUME Crash PROVE TypeOK'
  <2>1. Forget(name, version)
    BY <1>17 DEF Crash
  <2>2. ends' \in Nat /\ name \in Names /\ version \in Nat
    BY <1>17 DEF Crash, TypeOK
  <2>3. QED
    BY <1>17, <2>1, <2>2, ForgetType DEF TypeOK, Crash
<1>18. ASSUME NEW n \in Names, NEW b \in BOOLEAN, Resurrect(n, b)
       PROVE  TypeOK'
  <2>1. Forget(n, version + 1) /\ version + 1 \in Nat
    BY <1>18 DEF Resurrect, TypeOK
  <2>2. clean' \subseteq Nat
    BY <1>18, <2>1 DEF Resurrect, TypeOK
  <2>3. QED
    BY <1>18, <2>1, <2>2, ForgetType DEF TypeOK, Resurrect
<1>19. ASSUME UNCHANGED vars PROVE TypeOK'
  BY <1>19 DEF TypeOK, vars
<1>20. QED
  BY <1>1, <1>2, <1>3, <1>4, <1>5, <1>6, <1>7, <1>8, <1>9, <1>10, <1>11,
     <1>12, <1>13, <1>14, <1>15, <1>16, <1>17, <1>18, <1>19, <1>21, <1>22
     DEF Next, PtyStep, JobsStep

(* Every variable keeps its type, whatever the threads and the user do.    *)
THEOREM TypeCorrect == Spec => []TypeOK
  BY TypeInit, TypeStep, PTL DEF Spec

-----------------------------------------------------------------------------
(* The inductive invariant of the saves. *)

\* The captures a thread holds: a report of the session's state is not one.
Saves == ToSet(toPlugin) \cup {m.snap : m \in ToSet(toPty)}
           \cup {m.snap : m \in {k \in ToSet(toJobs) : k.kind = "layout"}}
           \cup {job.snap, loop.snap, writer.snap}

Blank(c) == c.gen = 0 /\ c.version = 0

\* A capture was reserved for a name of this process, and if no newer one was
\* reserved for that name, what is on disk is not newer either.
Tracked(c) ==
  /\ c.gen # 0
  /\ c.name \in former \cup {name}
  /\ c.gen <= latest[c.name] /\ c.version <= version
  /\ c.gen = latest[c.name] => c.version >= disk[c.name].layout

InOrder ==
  /\ \A n \in Names : latest[n] <= next /\ disk[n].layout <= version
  /\ \A c \in Saves : Blank(c) \/ Tracked(c)
  /\ \A c, d \in Saves : c.gen = d.gen => c.version = d.version

\* The capture that is being written is the newest one of its name.
WriterHolds ==
  /\ writer.by = "nobody" => writer.at = "none"
  /\ writer.at = "info" => writer.left = Files
  /\ writer.at = "files" => writer.snap.version # 0
  /\ writer.at # "none" /\ ~Blank(writer.snap) =>
       writer.snap.gen = latest[writer.snap.name]
  /\ writer.at = "files" /\ writer.snap.name \notin former =>
       \A f \in Files \ writer.left :
         disk[writer.snap.name].files[f] = writer.snap.version

IInv == TypeOK /\ InOrder /\ WriterHolds /\ NoStaleContents

\* What the folders say of layouts and contents.
SameFolders == \A n \in Names : /\ disk'[n].layout = disk[n].layout
                                /\ disk'[n].files = disk[n].files

\* Captures have their types, and so have the folders.
LEMMA SavesType ==
  ASSUME TypeOK
  PROVE  /\ Saves \subseteq Captures
         /\ \A c \in Saves : c.gen \in Nat /\ c.version \in Nat /\ c.name \in Names
         /\ \A n \in Names : disk[n].layout \in Nat
<1>1. /\ ToSet(toPlugin) \subseteq Captures
      /\ ToSet(toPty) \subseteq PtyMessages
      /\ ToSet(toJobs) \subseteq JobMessages
  BY ChannelHolds DEF TypeOK
<1>2. job.snap \in Captures /\ loop.snap \in Captures /\ writer.snap \in Captures
  BY DEF TypeOK
<1>3. Saves \subseteq Captures
  BY <1>1, <1>2, MessageTypes DEF Saves
<1>4. \A n \in Names : disk[n].layout \in Nat
  BY DEF TypeOK, Folders
<1>5. QED
  BY <1>3, <1>4, MessageTypes

\* A step that only passes captures on, or drops some, keeps the invariant.
LEMMA PassingOn ==
  ASSUME IInv, TypeOK', SameFolders, UNCHANGED <<name, former, latest, next>>,
         version' >= version,
         \A c \in Saves' : c \in Saves \/ Blank(c), WriterHolds'
  PROVE  IInv'
<1>1. \A n \in Names : latest'[n] <= next' /\ disk'[n].layout <= version'
  <2>1. /\ version \in Nat /\ version' \in Nat
        /\ \A n \in Names : disk[n].layout \in Nat
    BY SavesType DEF IInv, TypeOK
  <2>2. QED
    BY <2>1 DEF IInv, InOrder, SameFolders
<1>2. ASSUME NEW c \in Saves' PROVE (Blank(c) \/ Tracked(c))'
  <2>1. CASE Blank(c)
    BY <2>1 DEF Blank
  <2>2. CASE c \in Saves /\ ~Blank(c)
    <3>1. Tracked(c)
      BY <2>2 DEF IInv, InOrder
    <3>2. c.name \in Names
      BY <3>1 DEF Tracked, IInv, TypeOK
    <3>3. version \in Nat /\ version' \in Nat /\ c.version \in Nat
      BY <2>2, SavesType DEF IInv, TypeOK
    <3>4. Tracked(c)'
      BY <3>1, <3>2, <3>3 DEF Tracked, SameFolders
    <3>5. QED
      BY <3>4
  <2>3. QED
    BY <1>2, <2>1, <2>2
<1>3. \A c, d \in Saves' : c.gen = d.gen => c.version = d.version
  <2>1. \A c \in Saves : c.gen = 0 => c.version = 0
    BY DEF IInv, InOrder, Blank, Tracked
  <2>2. QED
    BY <2>1 DEF IInv, InOrder, Blank
<1>4. NoStaleContents'
  BY DEF IInv, NoStaleContents, SameFolders
<1>5. QED
  BY <1>1, <1>2, <1>3, <1>4 DEF IInv, InOrder

\* Every place a capture can be in.
LEMMA SavesAre ==
  /\ ToSet(toPlugin) \subseteq Saves
  /\ \A m \in ToSet(toPty) : m.snap \in Saves
  /\ \A m \in ToSet(toJobs) : m.kind = "layout" => m.snap \in Saves
  /\ job.snap \in Saves /\ loop.snap \in Saves /\ writer.snap \in Saves
  BY DEF Saves

\* Every place a capture can be in after a step.
LEMMA SavesWithin ==
  ASSUME NEW X,
         ToSet(toPlugin') \subseteq X,
         \A m \in ToSet(toPty') : m.snap \in X,
         \A m \in ToSet(toJobs') : m.kind = "layout" => m.snap \in X,
         job'.snap \in X, loop'.snap \in X, writer'.snap \in X
  PROVE  Saves' \subseteq X
  BY DEF Saves

\* A reservation is for a capture of the present.
LEMMA Reserving ==
  ASSUME IInv, TypeOK', Reserve, UNCHANGED <<name, version, former, disk, writer>>,
         Saves' \subseteq Saves \cup {Capture}
  PROVE  IInv'
<1>1. /\ next' = next + 1 /\ latest' = [latest EXCEPT ![name] = next + 1]
      /\ writer.at = "none" /\ writer.by = "nobody"
      /\ Capture = [name |-> name, gen |-> next + 1, version |-> version]
      /\ name \in Names /\ latest \in [Names -> Nat] /\ next \in Nat
  BY DEF Reserve, Capture, IInv, WriterHolds, TypeOK
<1>2. \A n \in Names : latest'[n] <= next' /\ disk'[n].layout <= version'
  BY <1>1 DEF IInv, InOrder
<1>3. ASSUME NEW c \in Saves' PROVE (Blank(c) \/ Tracked(c))'
  <2>1. CASE c = Capture
    <3>0. version \in Nat
      BY DEF IInv, TypeOK
    <3>1. version \in Nat /\ disk[name].layout <= version /\ next + 1 # 0
      BY <1>1, <3>0 DEF IInv, InOrder
    <3>2. latest'[name] = next + 1
      BY <1>1
    <3> HIDE DEF Capture
    <3>3. c.name = name /\ c.gen = next + 1 /\ c.version = version
      BY <1>1, <2>1
    <3>4. QED
      BY <1>1, <3>1, <3>2, <3>3 DEF Tracked
  <2>2. CASE c \in Saves /\ ~Blank(c)
    <3>1. Tracked(c)
      BY <2>2 DEF IInv, InOrder
    <3>2. c.name \in Names
      BY <3>1 DEF Tracked, IInv, TypeOK
    <3>3. latest[c.name] <= next
      BY <3>2 DEF IInv, InOrder
    <3>4. c.gen \in Nat
      BY <2>2, SavesType DEF IInv
    <3>5. QED
      BY <1>1, <3>1, <3>2, <3>3, <3>4 DEF Tracked
  <2>3. QED
    BY <1>3, <2>1, <2>2 DEF Blank
<1>4. ASSUME NEW c \in Saves PROVE c.gen # Capture.gen
  <2>1. CASE Blank(c)
    BY <1>1, <2>1 DEF Blank
  <2>2. CASE Tracked(c)
    <3>1. c.name \in Names /\ c.gen <= latest[c.name]
      BY <2>2 DEF Tracked, IInv, TypeOK
    <3>2. latest[c.name] <= next
      BY <3>1 DEF IInv, InOrder
    <3>3. c.gen \in Nat
      BY SavesType DEF IInv
    <3>4. QED
      BY <1>1, <3>1, <3>2, <3>3
  <2>3. QED
    BY <2>1, <2>2 DEF IInv, InOrder
<1>5. \A c, d \in Saves' : c.gen = d.gen => c.version = d.version
  BY <1>4 DEF IInv, InOrder
<1>6. WriterHolds' /\ NoStaleContents'
  BY <1>1 DEF WriterHolds, IInv, NoStaleContents
<1>7. QED
  BY <1>2, <1>3, <1>5, <1>6 DEF IInv, InOrder

\* A process that has forgotten everything holds only blank captures.
LEMMA Forgetting ==
  ASSUME IInv, TypeOK', NEW n \in Names, NEW v \in Nat, Forget(n, v),
         version' >= version, UNCHANGED <<former, disk>>
  PROVE  IInv'
<1>1. Blank(NoCapture)
  BY DEF Blank, NoCapture
<1>2. Saves' \subseteq {NoCapture}
  <2>1. ToSet(<<>>) = {}
    BY DEF ToSet
  <2>2. QED
    BY <2>1, SavesWithin DEF Forget, IdleLoop, NoWriter
<1>3. WriterHolds'
  BY <1>1 DEF Forget, NoWriter, WriterHolds
<1>4. \A m \in Names : latest'[m] <= next' /\ disk'[m].layout <= version'
  <2>1. /\ version \in Nat /\ version' \in Nat
        /\ \A m \in Names : disk[m].layout \in Nat
    BY SavesType DEF IInv, TypeOK
  <2>2. \A m \in Names : latest'[m] = 0 /\ next' = 0
    BY DEF Forget
  <2>3. QED
    BY <2>1, <2>2 DEF IInv, InOrder
<1>5. QED
  BY <1>1, <1>2, <1>3, <1>4 DEF IInv, InOrder, Blank, NoStaleContents

LEMMA InvInit == Init => IInv
<1> SUFFICES ASSUME Init PROVE IInv
  OBVIOUS
<1>1. Saves \subseteq {NoCapture}
  <2>1. ToSet(<<>>) = {}
    BY DEF ToSet
  <2>2. QED
    BY <2>1 DEF Init, IdleLoop, NoWriter, Saves
<1>2. Blank(NoCapture)
  BY DEF Blank, NoCapture
<1>3. WriterHolds /\ NoStaleContents
  BY DEF Init, NoWriter, WriterHolds, NoStaleContents, NoFolder
<1>4. \A m \in Names : latest[m] <= next /\ disk[m].layout <= version
  BY DEF Init, NoFolder
<1>5. QED
  BY <1>1, <1>2, <1>3, <1>4, TypeInit DEF IInv, InOrder, Blank

-----------------------------------------------------------------------------
(* The steps that write. *)

LEMMA InvPutFile ==
  ASSUME IInv, TypeOK', NEW f \in Files, PutFile(f) PROVE IInv'
<1> DEFINE n == writer.snap.name
           v == writer.snap.version
<1>1. /\ writer.at = "files" /\ f \in writer.left /\ v # 0
      /\ disk' = [disk EXCEPT ![n].files[f] = v]
      /\ writer' = [writer EXCEPT !.left = @ \ {f}]
      /\ n \in Names /\ disk \in [Names -> Folders]
      /\ writer.left \subseteq Files
  BY DEF PutFile, IInv, WriterHolds, TypeOK, Captures
<1>2. /\ \A m \in Names : disk'[m].layout = disk[m].layout
      /\ \A m \in Names \ {n} : disk'[m] = disk[m]
      /\ \A g \in Files \ {f} : disk'[n].files[g] = disk[n].files[g]
      /\ disk'[n].files[f] = v
  BY <1>1 DEF Folders
<1>3. writer'.snap = writer.snap /\ writer'.by = writer.by
      /\ writer'.at = writer.at /\ writer'.left = writer.left \ {f}
  BY <1>1 DEF IInv, TypeOK
<1>4. UNCHANGED <<name, former, latest, next, version, toPlugin, toPty, toJobs,
                  job, loop>>
  BY DEF PutFile, screenVars, coordVars
<1>5. Saves' = Saves
  BY <1>3, <1>4 DEF Saves
<1>6. \A c \in Saves : Tracked(c) => Tracked(c)'
  BY <1>2, <1>4, SavesType DEF IInv, Tracked
<1>7. InOrder'
  BY <1>2, <1>4, <1>5, <1>6 DEF IInv, InOrder, Blank
<1>8. writer.snap \in Saves /\ ~Blank(writer.snap)
  BY <1>1 DEF Saves, Blank
<1>9. v >= disk[n].layout
  BY <1>1, <1>8 DEF IInv, InOrder, WriterHolds, Tracked
<1>10. NoStaleContents'
  BY <1>1, <1>2, <1>4, <1>9 DEF IInv, NoStaleContents
<1>11. WriterHolds'
  BY <1>1, <1>2, <1>3, <1>4, <1>8 DEF IInv, WriterHolds
<1>12. QED
  BY <1>7, <1>10, <1>11 DEF IInv

\* The capture whose layout is published is the newest one of its name.
LEMMA PublishedIsNewest ==
  ASSUME IInv, PutLayout
  PROVE  /\ writer.snap.version >= disk[writer.snap.name].layout
         /\ writer.snap.gen = latest[writer.snap.name]
         /\ Tracked(writer.snap)
<1>1. writer.at = "files" /\ writer.snap.version # 0
  BY DEF PutLayout, IInv, WriterHolds
<1>2. writer.snap \in Saves /\ ~Blank(writer.snap)
  BY <1>1, SavesAre DEF Blank
<1>3. Tracked(writer.snap)
  BY <1>2 DEF IInv, InOrder
<1>4. writer.snap.gen = latest[writer.snap.name]
  BY <1>1, <1>2 DEF IInv, WriterHolds
<1>5. QED
  BY <1>3, <1>4 DEF Tracked

LEMMA InvPutLayout ==
  ASSUME IInv, TypeOK', PutLayout PROVE IInv'
<1> DEFINE n == writer.snap.name
           v == writer.snap.version
<1>1. /\ writer.at = "files" /\ writer.left = {} /\ v # 0
      /\ disk' = [disk EXCEPT ![n].layout = v]
      /\ writer' = NoWriter
      /\ n \in Names /\ disk \in [Names -> Folders]
      /\ writer.snap \in Captures
  BY DEF PutLayout, IInv, WriterHolds, TypeOK, Captures
<1>2. /\ \A m \in Names \ {n} : disk'[m] = disk[m]
      /\ disk'[n].layout = v /\ disk'[n].files = disk[n].files
  BY <1>1 DEF Folders
<1>3. UNCHANGED <<name, former, latest, next, version, toPlugin, toPty, job,
                  loop>>
  BY DEF PutLayout, screenVars, coordVars
<1>4. /\ v >= disk[n].layout /\ writer.snap.gen = latest[n]
      /\ Tracked(writer.snap) /\ writer.snap \in Saves
  BY PublishedIsNewest, SavesAre
<1>5. \A c \in Saves' : c \in Saves \/ Blank(c)
  <2>1. \A m \in ToSet(toJobs') : m.kind = "layout" => m.snap \in Saves
    <3> DEFINE k == [kind |-> "layout", snap |-> writer.snap]
    <3>1. toJobs' = toJobs \/ toJobs' = Append(toJobs, k)
      BY DEF PutLayout
    <3>2. k \in JobMessages /\ toJobs \in Seq(JobMessages)
      BY <1>1, MessageTypes DEF IInv, TypeOK
    <3>3. k.snap = writer.snap
      OBVIOUS
    <3> HIDE DEF k
    <3>4. ToSet(Append(toJobs, k)) = ToSet(toJobs) \cup {k}
      BY <3>2, ChannelHolds
    <3>5. QED
      BY <1>4, <3>1, <3>3, <3>4, SavesAre
  <2>2. writer'.snap = NoCapture /\ Blank(NoCapture)
    BY <1>1 DEF NoWriter, Blank, NoCapture
  <2> DEFINE X == Saves \cup {NoCapture}
  <2>3. Saves' \subseteq X
    BY <1>3, <2>1, <2>2, SavesAre, SavesWithin
  <2>4. QED
    BY <2>2, <2>3
<1>6. v <= version
  BY <1>4 DEF Tracked
<1>7. \A m \in Names : latest'[m] <= next' /\ disk'[m].layout <= version'
  BY <1>2, <1>3, <1>6 DEF IInv, InOrder
<1>8. ASSUME NEW c \in Saves, Tracked(c) PROVE Tracked(c)'
  <2>1. CASE c.name # n
    BY <1>2, <1>3, <1>8, <2>1, SavesType DEF IInv, Tracked
  <2>2. CASE c.name = n
    <3>1. c.gen = latest[n] => c.version = v
      BY <1>4, <1>8 DEF IInv, InOrder
    <3>2. c.version \in Nat
      BY <1>8, SavesType DEF IInv
    <3>3. QED
      BY <1>2, <1>3, <1>8, <2>2, <3>1, <3>2 DEF Tracked
  <2>3. QED
    BY <2>1, <2>2
<1>9. InOrder'
  <2>1. \A c \in Saves' : Blank(c) \/ Tracked(c)'
    BY <1>5, <1>8 DEF IInv, InOrder
  <2>2. \A c, d \in Saves' : c.gen = d.gen => c.version = d.version
    <3>1. \A c \in Saves : c.gen = 0 => c.version = 0
      BY DEF IInv, InOrder, Blank, Tracked
    <3>2. QED
      BY <1>5, <3>1 DEF IInv, InOrder, Blank
  <2>3. QED
    BY <1>7, <2>1, <2>2 DEF InOrder, Blank
<1>10. NoStaleContents'
  <2>1. ASSUME n \notin former PROVE \A f \in Files : disk[n].files[f] = v
    BY <1>1, <2>1 DEF IInv, WriterHolds
  <2>2. QED
    BY <1>1, <1>2, <1>3, <2>1, MessageTypes DEF IInv, NoStaleContents
<1>11. WriterHolds'
  BY <1>1, <1>3 DEF WriterHolds, NoWriter
<1>12. QED
  BY <1>9, <1>10, <1>11 DEF IInv

-----------------------------------------------------------------------------
(* Every step. *)

LEMMA InvStep == IInv /\ [Next]_vars => IInv'
<1> SUFFICES ASSUME IInv, [Next]_vars PROVE IInv'
  OBVIOUS
<1>0. /\ TypeOK /\ TypeOK' /\ Blank(NoCapture) /\ version \in Nat
      /\ toPlugin \in Seq(Captures) /\ toPty \in Seq(PtyMessages)
      /\ toJobs \in Seq(JobMessages)
  BY TypeStep DEF IInv, TypeOK, Blank, NoCapture
<1> USE DEF screenVars, coordVars, budgets
<1>1. ASSUME NEW b \in BOOLEAN, Edit(b) PROVE IInv'
  <2> DEFINE m == [kind |-> "info", snap |-> [name |-> name, gen |-> 0,
                                              version |-> version + 1]]
  <2>1. toJobs' = Append(toJobs, m) /\ m.kind # "layout"
    BY <1>1 DEF Edit, Report
  <2>2. m \in JobMessages
    <3>1. name \in Names /\ version + 1 \in Nat
      BY <1>0 DEF TypeOK
    <3>2. QED
      BY <3>1, MessageTypes
  <2> HIDE DEF m
  <2>3. ToSet(toJobs') = ToSet(toJobs) \cup {m}
    BY <1>0, <2>1, <2>2, ChannelHolds
  <2>4. Saves' \subseteq Saves
    BY <1>1, <2>1, <2>3, SavesAre, SavesWithin DEF Edit
  <2>5. QED
    BY <1>0, <1>1, <2>4, PassingOn DEF Edit, SameFolders, WriterHolds, IInv
<1>2. ASSUME SerializeLayoutForResurrection PROVE IInv'
  <2>1. Capture \in Captures
    BY <1>0 DEF Capture, Captures, TypeOK
  <2>2. ToSet(toPlugin') = ToSet(toPlugin) \cup {Capture}
    BY <1>0, <1>2, <2>1, ChannelHolds DEF SerializeLayoutForResurrection
  <2> DEFINE X == Saves \cup {Capture}
  <2>3. Saves' \subseteq X
    <3>1. /\ ToSet(toPlugin') \subseteq X
          /\ \A p \in ToSet(toPty') : p.snap \in X
          /\ \A p \in ToSet(toJobs') : p.kind = "layout" => p.snap \in X
          /\ job'.snap \in X /\ loop'.snap \in X /\ writer'.snap \in X
      BY <1>2, <2>2, SavesAre DEF SerializeLayoutForResurrection
    <3> HIDE DEF X
    <3>2. QED
      BY <3>1, SavesWithin
  <2>4. QED
    BY <1>0, <1>2, <2>3, Reserving DEF SerializeLayoutForResurrection
<1>3. ASSUME SaveSession PROVE IInv'
  <2> DEFINE m == [kind |-> "save", snap |-> Capture, info |-> version]
  <2>1. Capture \in Captures
    BY <1>0 DEF Capture, Captures, TypeOK
  <2>2. m \in PtyMessages /\ m.snap = Capture /\ toPty' = Append(toPty, m)
    BY <1>0, <1>3, <2>1, MessageTypes DEF SaveSession
  <2> HIDE DEF m
  <2>3. ToSet(toPty') = ToSet(toPty) \cup {m}
    BY <1>0, <2>2, ChannelHolds
  <2> DEFINE X == Saves \cup {Capture}
  <2>4. Saves' \subseteq X
    <3>1. /\ ToSet(toPlugin') \subseteq X
          /\ \A p \in ToSet(toPty') : p.snap \in X
          /\ \A p \in ToSet(toJobs') : p.kind = "layout" => p.snap \in X
          /\ job'.snap \in X /\ loop'.snap \in X /\ writer'.snap \in X
      BY <1>3, <2>2, <2>3, SavesAre DEF SaveSession
    <3> HIDE DEF X
    <3>2. QED
      BY <3>1, SavesWithin
  <2>5. QED
    BY <1>0, <1>3, <2>4, Reserving DEF SaveSession
<1>4. ASSUME NEW n \in Names, RenameSession(n) PROVE IInv'
  <2> DEFINE m == [kind |-> "info", snap |-> [name |-> n, gen |-> 0,
                                              version |-> version]]
  <2>1. toJobs' = Append(toJobs, m) /\ m.kind # "layout"
    BY <1>4 DEF RenameSession, Report
  <2>2. m \in JobMessages
    BY MessageTypes, <1>0 DEF TypeOK
  <2> HIDE DEF m
  <2>3. ToSet(toJobs') = ToSet(toJobs) \cup {m}
    BY <1>0, <2>1, <2>2, ChannelHolds
  <2>4. Saves' \subseteq Saves
    BY <1>4, <2>1, <2>3, SavesAre, SavesWithin DEF RenameSession
  <2>5. /\ n \notin former \cup {name} /\ name \notin former /\ name \in Names
        /\ former' = former \cup {name} /\ name' = n
        /\ disk' = [disk EXCEPT ![n] = disk[name], ![name] = NoFolder]
        /\ disk \in [Names -> Folders]
        /\ UNCHANGED <<version, next, latest, writer>>
    BY <1>0, <1>4 DEF RenameSession, TypeOK
  <2>6. /\ disk'[n] = disk[name] /\ disk'[name] = NoFolder
        /\ \A k \in Names \ {n, name} : disk'[k] = disk[k]
    BY <2>5
  <2>7. ASSUME NEW c \in Saves, Tracked(c) PROVE Tracked(c)'
    <3>1. c.name # n /\ c.version \in Nat /\ c.name \in Names
      BY <1>0, <2>5, <2>7, SavesType DEF Tracked
    <3>2. disk'[c.name].layout \in {0, disk[c.name].layout}
      BY <2>6, <3>1 DEF NoFolder
    <3>3. QED
      BY <2>5, <2>7, <3>1, <3>2 DEF Tracked
  <2>8. \A k \in Names : disk'[k].layout <= version
    <3>1. \A k \in Names : disk[k].layout <= version
      BY DEF IInv, InOrder
    <3>2. disk'[name].layout = 0
      BY <2>6 DEF NoFolder
    <3>3. QED
      BY <1>0, <2>5, <2>6, <3>1, <3>2
  <2>9. InOrder'
    BY <2>4, <2>5, <2>7, <2>8 DEF IInv, InOrder, Blank
  <2>10. NoStaleContents'
    BY <2>5, <2>6 DEF IInv, NoStaleContents
  <2>11. WriterHolds'
    <3>1. writer.at = "files" => Tracked(writer.snap)
      BY SavesAre DEF IInv, InOrder, WriterHolds, Blank
    <3>2. writer.at = "files" => writer.snap.name \in former'
      BY <2>5, <3>1 DEF Tracked
    <3>3. QED
      BY <2>5, <3>2 DEF IInv, WriterHolds
  <2>12. QED
    BY <1>0, <2>9, <2>10, <2>11 DEF IInv
<1>5. ASSUME PluginForwards PROVE IInv'
  <2> DEFINE m == [kind |-> "log", snap |-> Head(toPlugin), info |-> 0]
  <2>1. /\ Head(toPlugin) \in ToSet(toPlugin)
        /\ ToSet(toPlugin') \subseteq ToSet(toPlugin)
    BY <1>0, <1>5, ChannelHolds DEF PluginForwards
  <2>2. Head(toPlugin) \in Captures
    BY <1>0, <2>1, ChannelHolds
  <2>3. m \in PtyMessages /\ m.snap = Head(toPlugin) /\ toPty' = Append(toPty, m)
    BY <1>5, <2>2, MessageTypes DEF PluginForwards
  <2> HIDE DEF m
  <2>4. ToSet(toPty') = ToSet(toPty) \cup {m}
    BY <1>0, <2>3, ChannelHolds
  <2>5. Saves' \subseteq Saves
    BY <1>5, <2>1, <2>3, <2>4, SavesAre, SavesWithin DEF PluginForwards
  <2>6. QED
    BY <1>0, <1>5, <2>5, PassingOn
       DEF PluginForwards, SameFolders, WriterHolds, IInv
<1>6. ASSUME PtyLogs PROVE IInv'
  <2>1. Head(toPty) \in ToSet(toPty) /\ ToSet(toPty') \subseteq ToSet(toPty)
    BY <1>0, <1>6, ChannelHolds DEF PtyLogs, PtyTakes
  <2> DEFINE m == [kind |-> "layout", snap |-> Head(toPty).snap]
  <2>2. m \in JobMessages /\ m.snap \in Saves
    BY <1>0, <2>1, ChannelHolds, MessageTypes, SavesAre
  <2>3. toJobs' = toJobs \/ toJobs' = Append(toJobs, m)
    BY <1>6 DEF PtyLogs
  <2> HIDE DEF m
  <2>4. ToSet(toJobs') \subseteq ToSet(toJobs) \cup {m}
    BY <1>0, <2>2, <2>3, ChannelHolds
  <2>5. Saves' \subseteq Saves
    BY <1>6, <2>1, <2>2, <2>4, SavesAre, SavesWithin DEF PtyLogs
  <2>6. QED
    BY <1>0, <1>6, <2>5, PassingOn DEF PtyLogs, SameFolders, WriterHolds, IInv
<1>7. ASSUME PtySaves PROVE IInv'
  <2>1. Head(toPty) \in ToSet(toPty) /\ ToSet(toPty') \subseteq ToSet(toPty)
    BY <1>0, <1>7, ChannelHolds DEF PtySaves, PtyTakes
  <2> DEFINE c == Head(toPty).snap
  <2>2. c \in Saves
    BY <2>1, SavesAre
  <2>3. /\ writer.by = "nobody"
        /\ \/ writer' = writer
           \/ /\ c.gen >= latest[c.name]
              /\ writer' = Persist("pty", c, Head(toPty).info)
    BY <1>7 DEF PtySaves, IsCurrent
  <2>4. writer'.snap \in Saves
    BY <2>2, <2>3, SavesAre DEF Persist
  <2>5. Saves' \subseteq Saves
    BY <1>7, <2>1, <2>4, SavesAre, SavesWithin DEF PtySaves
  <2>6. ~Blank(c) => /\ c.gen <= latest[c.name]
                     /\ c.gen \in Nat /\ latest[c.name] \in Nat
    BY <1>0, <2>2, SavesType DEF IInv, InOrder, Tracked, TypeOK
  <2>7. latest' = latest /\ disk' = disk /\ former' = former
    BY <1>7 DEF PtySaves
  <2> HIDE DEF c
  <2>8. WriterHolds'
    BY <2>3, <2>6, <2>7 DEF IInv, WriterHolds, Persist
  <2>9. QED
    BY <1>0, <1>7, <2>5, <2>8, PassingOn DEF PtySaves, SameFolders
<1>8. ASSUME ProcessExits PROVE IInv'
  <2>1. Forget(name, version) /\ UNCHANGED <<version, former, disk>>
    BY <1>8 DEF ProcessExits
  <2>2. name \in Names /\ version' >= version
    BY <1>0, <2>1 DEF TypeOK
  <2>3. QED
    BY <1>0, <2>1, <2>2, Forgetting
<1>9. ASSUME ReportSessionInfo PROVE IInv'
  <2>1. ToSet(toJobs') \subseteq ToSet(toJobs)
    BY <1>0, <1>9, ChannelHolds DEF ReportSessionInfo, JobsTakes
  <2>2. job'.snap = job.snap
    BY <1>0, <1>9 DEF ReportSessionInfo, TypeOK
  <2>3. Saves' \subseteq Saves
    BY <1>9, <2>1, <2>2, SavesAre, SavesWithin DEF ReportSessionInfo
  <2>4. QED
    BY <1>0, <1>9, <2>3, PassingOn
       DEF ReportSessionInfo, SameFolders, WriterHolds, IInv
<1>10. ASSUME ReportLayoutInfo PROVE IInv'
  <2>1. Head(toJobs) \in ToSet(toJobs) /\ ToSet(toJobs') \subseteq ToSet(toJobs)
    BY <1>0, <1>10, ChannelHolds DEF ReportLayoutInfo, JobsTakes
  <2>2. Head(toJobs).kind = "layout"
    BY <1>10 DEF ReportLayoutInfo, JobsTakes
  <2>3. job'.snap \in {job.snap, Head(toJobs).snap}
    BY <1>0, <1>10 DEF ReportLayoutInfo, TypeOK
  <2>4. Saves' \subseteq Saves
    BY <1>10, <2>1, <2>2, <2>3, SavesAre, SavesWithin DEF ReportLayoutInfo
  <2>5. QED
    BY <1>0, <1>10, <2>4, PassingOn
       DEF ReportLayoutInfo, SameFolders, WriterHolds, IInv
<1>11. ASSUME JobsExit PROVE IInv'
  <2>1. ToSet(toJobs') \subseteq ToSet(toJobs)
    BY <1>0, <1>11, ChannelHolds DEF JobsExit, JobsTakes
  <2>2. Saves' \subseteq Saves
    BY <1>11, <2>1, SavesAre, SavesWithin DEF JobsExit
  <2>3. SameFolders
    BY <1>0, <1>11, SMTT(30) DEF JobsExit, SameFolders, TypeOK, Folders
  <2>4. writer.snap.name \in Names
    BY <1>0, SavesAre, SavesType
  <2>5. WriterHolds'
    BY <1>11, <2>3, <2>4 DEF JobsExit, IInv, WriterHolds, SameFolders
  <2>6. QED
    BY <1>0, <1>11, <2>2, <2>3, <2>5, PassingOn DEF JobsExit
<1>12. ASSUME LoopReads PROVE IInv'
  <2>1. \/ loop'.snap \in {loop.snap, job.snap}
        \/ Blank(loop'.snap)
    <3>1. loop \in [at : {"sleep", "info", "layout", "write"}, name : Names,
                     info : Nat, snap : Captures]
      BY <1>0 DEF TypeOK
    <3>2. CASE LoopReadsName \/ LoopReadsInfo
      BY <3>1, <3>2 DEF LoopReadsName, LoopReadsInfo
    <3>3. CASE LoopReadsLayout
      <4>1. \/ loop'.snap = job.snap
            \/ loop'.snap = [NoCapture EXCEPT !.name = loop.name]
        BY <3>1, <3>3 DEF LoopReadsLayout
      <4>2. Blank([NoCapture EXCEPT !.name = loop.name])
        BY DEF Blank, NoCapture
      <4>3. QED
        BY <4>1, <4>2
    <3>4. QED
      BY <1>12, <3>2, <3>3 DEF LoopReads
  <2>2. UNCHANGED <<phase, name, version, clean, accepted, former, next, latest,
                    toPlugin, toPty, toJobs, job, writer, disk>>
    BY <1>12 DEF LoopReads, LoopReadsName, LoopReadsInfo, LoopReadsLayout,
                 LoopStep
  <2> DEFINE X == Saves \cup {loop'.snap}
  <2>3. Saves' \subseteq X
    BY <2>2, SavesAre, SavesWithin
  <2>4. \A c \in Saves' : c \in Saves \/ Blank(c)
    BY <2>1, <2>3, SavesAre
  <2>5. QED
    BY <1>0, <2>2, <2>4, PassingOn DEF SameFolders, WriterHolds, IInv
<1>13. ASSUME LoopWrites PROVE IInv'
  <2> DEFINE c == loop.snap
  <2>1. c \in Saves
    BY SavesAre
  <2>2. /\ writer.by = "nobody"
        /\ \/ writer' = writer
           \/ /\ c.gen >= latest[c.name]
              /\ writer' = Persist("loop", c, loop.info)
        /\ loop'.snap = NoCapture
    BY <1>13 DEF LoopWrites, IsCurrent, IdleLoop
  <2>3. writer'.snap \in Saves
    BY <2>1, <2>2, SavesAre DEF Persist
  <2> DEFINE X == Saves \cup {NoCapture}
  <2>4. Saves' \subseteq X
    BY <1>13, <2>2, <2>3, SavesAre, SavesWithin DEF LoopWrites, LoopStep
  <2>5. ~Blank(c) => /\ c.gen <= latest[c.name]
                     /\ c.gen \in Nat /\ latest[c.name] \in Nat
    BY <1>0, <2>1, SavesType DEF IInv, InOrder, Tracked, TypeOK
  <2>6. latest' = latest /\ disk' = disk /\ former' = former
    BY <1>13 DEF LoopWrites, LoopStep
  <2> HIDE DEF c
  <2>7. WriterHolds'
    BY <2>2, <2>5, <2>6 DEF IInv, WriterHolds, Persist
  <2>8. QED
    BY <1>0, <1>13, <2>4, <2>7, PassingOn DEF LoopWrites, LoopStep, SameFolders
<1>14. ASSUME WriterStep PROVE IInv'
  <2>1. ASSUME PutInfo PROVE IInv'
    <3>1. /\ writer'.snap = writer.snap \/ writer'.snap = NoCapture
          /\ SameFolders
      <4>1. disk' = [disk EXCEPT ![writer.snap.name].info = writer.info]
        BY <2>1 DEF PutInfo
      <4>2. SameFolders
        BY <1>0, <4>1, ZenonT(40) DEF SameFolders, TypeOK, Folders
      <4>3. writer' = NoWriter \/ writer' = [writer EXCEPT !.at = "files"]
        BY <2>1 DEF PutInfo
      <4>4. QED
        BY <1>0, <4>2, <4>3 DEF NoWriter, TypeOK
    <3>2. UNCHANGED <<name, version, former, next, latest, toPlugin, toPty,
                      toJobs, job, loop>>
      BY <2>1 DEF PutInfo
    <3> DEFINE X == Saves \cup {NoCapture}
    <3>3. Saves' \subseteq X
      BY <3>1, <3>2, SavesAre, SavesWithin
    <3>4. writer.snap.name \in Names
      BY <1>0, SavesAre, SavesType
    <3>5. WriterHolds'
      BY <1>0, <2>1, <3>1, <3>2, <3>4
         DEF PutInfo, IInv, WriterHolds, NoWriter, SameFolders, TypeOK
    <3>6. QED
      BY <1>0, <3>1, <3>2, <3>3, <3>5, PassingOn
  <2>2. QED
    BY <1>0, <1>14, <2>1, InvPutFile, InvPutLayout DEF WriterStep
<1>15. ASSUME WriteFails PROVE IInv'
  <2>1. writer'.snap = NoCapture
    BY <1>15 DEF WriteFails, NoWriter
  <2> DEFINE X == Saves \cup {NoCapture}
  <2>2. Saves' \subseteq X
    BY <1>15, <2>1, SavesAre, SavesWithin DEF WriteFails
  <2>3. WriterHolds'
    BY <1>0, <1>15 DEF WriteFails, WriterHolds, NoWriter
  <2>4. QED
    BY <1>0, <1>15, <2>2, <2>3, PassingOn DEF WriteFails, SameFolders
<1>16. ASSUME Quit PROVE IInv'
  <2> DEFINE m == [kind |-> "exit", snap |-> NoCapture, info |-> 0]
             k == [kind |-> "exit", snap |-> NoCapture]
  <2>1. /\ toPty' = Append(toPty, m) /\ toJobs' = Append(toJobs, k)
        /\ m.snap = NoCapture /\ k.kind # "layout"
    BY <1>16 DEF Quit
  <2>2. m \in PtyMessages /\ k \in JobMessages
    BY ConstantTypes, MessageTypes
  <2> HIDE DEF m, k
  <2>3. /\ ToSet(toPty') = ToSet(toPty) \cup {m}
        /\ ToSet(toJobs') = ToSet(toJobs) \cup {k}
    BY <1>0, <2>1, <2>2, ChannelHolds
  <2> DEFINE X == Saves \cup {NoCapture}
  <2>4. Saves' \subseteq X
    <3>1. /\ ToSet(toPlugin') \subseteq X
          /\ \A p \in ToSet(toPty') : p.snap \in X
          /\ \A p \in ToSet(toJobs') : p.kind = "layout" => p.snap \in X
          /\ job'.snap \in X /\ loop'.snap \in X /\ writer'.snap \in X
      BY <1>16, <2>1, <2>3, SavesAre DEF Quit
    <3> HIDE DEF X
    <3>2. QED
      BY <3>1, SavesWithin
  <2>5. QED
    BY <1>0, <1>16, <2>4, PassingOn DEF Quit, SameFolders, WriterHolds, IInv
<1>21. ASSUME ScreenExits PROVE IInv'
  <2>1. Saves' = Saves
    BY <1>21 DEF ScreenExits, Saves
  <2>2. QED
    BY <1>0, <1>21, <2>1, PassingOn
       DEF ScreenExits, SameFolders, WriterHolds, IInv
<1>22. ASSUME JoinTimesOut PROVE IInv'
  <2>1. Forget(name, version) /\ UNCHANGED <<version, former, disk>>
    BY <1>22 DEF JoinTimesOut
  <2>2. name \in Names /\ version' >= version
    BY <1>0, <2>1 DEF TypeOK
  <2>3. QED
    BY <1>0, <2>1, <2>2, Forgetting
<1>17. ASSUME Crash PROVE IInv'
  <2>1. Forget(name, version) /\ UNCHANGED <<version, former, disk>>
    BY <1>17 DEF Crash
  <2>2. name \in Names /\ version' >= version
    BY <1>0, <2>1 DEF TypeOK
  <2>3. QED
    BY <1>0, <2>1, <2>2, Forgetting
<1>18. ASSUME NEW n \in Names, NEW b \in BOOLEAN, Resurrect(n, b)
       PROVE  IInv'
  BY <1>0, <1>18, Forgetting DEF Resurrect
<1>19. ASSUME UNCHANGED vars PROVE IInv'
  <2>1. Saves' = Saves
    BY <1>19 DEF vars, Saves
  <2>2. QED
    BY <1>0, <1>19, <2>1, PassingOn DEF vars, SameFolders, WriterHolds, IInv
<1>20. QED
  BY <1>1, <1>2, <1>3, <1>4, <1>5, <1>6, <1>7, <1>8, <1>9, <1>10, <1>11,
     <1>12, <1>13, <1>14, <1>15, <1>16, <1>17, <1>18, <1>19, <1>21, <1>22
     DEF Next, PtyStep, JobsStep

(* A layout on disk never refers to a contents file that is missing or      *)
(* older than it: write_session_state_to_disk publishes the layout last,    *)
(* and two saves of one session are never written at the same time.         *)
THEOREM ContentsNeverStale == Spec => []NoStaleContents
<1>1. Spec => []IInv
  BY InvInit, InvStep, PTL DEF Spec
<1>2. IInv => NoStaleContents
  BY DEF IInv
<1>3. QED
  BY <1>1, <1>2, PTL

\* No step but a renaming writes an older layout over a newer one.
LEMMA LayoutsKept ==
  ASSUME IInv, Next, NEW n \in Names, \A m \in Names : ~RenameSession(m)
  PROVE  disk'[n].layout >= disk[n].layout
<1>0. disk \in [Names -> Folders] /\ disk[n].layout \in Nat
  BY SavesType DEF IInv, TypeOK
<1> USE DEF screenVars, coordVars, budgets
<1>1. CASE disk' = disk
  BY <1>0, <1>1
<1>2. CASE PutInfo \/ JobsExit \/ \E f \in Files : PutFile(f)
  <2>1. \/ \E m \in Names, i \in Nat : disk' = [disk EXCEPT ![m].info = i]
        \/ \E m \in Names, f \in Files, v \in Nat :
              disk' = [disk EXCEPT ![m].files[f] = v]
    <3>1. /\ writer.snap.name \in Names /\ job.name \in Names
          /\ writer.info \in Nat /\ writer.snap.version \in Nat
      BY SavesAre, SavesType DEF IInv, TypeOK
    <3>2. QED
      BY <1>2, <3>1 DEF PutInfo, JobsExit, PutFile
  <2>2. ASSUME NEW m \in Names, NEW i \in Nat,
               disk' = [disk EXCEPT ![m].info = i]
        PROVE  disk'[n].layout = disk[n].layout
    BY <1>0, <2>2 DEF Folders
  <2>3. ASSUME NEW m \in Names, NEW f \in Files, NEW v \in Nat,
               disk' = [disk EXCEPT ![m].files[f] = v]
        PROVE  disk'[n].layout = disk[n].layout
    BY <1>0, <2>3 DEF Folders
  <2>4. QED
    BY <1>0, <2>1, <2>2, <2>3
<1>3. CASE PutLayout
  <2>1. disk' = [disk EXCEPT ![writer.snap.name].layout = writer.snap.version]
    BY <1>3 DEF PutLayout
  <2>2. writer.snap.version >= disk[writer.snap.name].layout
    BY <1>3, PublishedIsNewest
  <2>3. QED
    BY <1>0, <2>1, <2>2 DEF Folders
<1>4. \/ disk' = disk \/ PutLayout
      \/ PutInfo \/ JobsExit \/ \E f \in Files : PutFile(f)
  BY DEF Next, Edit, SerializeLayoutForResurrection, SaveSession,
       PluginForwards, PtyStep, PtyLogs, PtySaves, ProcessExits, JobsStep,
       ReportSessionInfo, ReportLayoutInfo, LoopReads, LoopReadsName,
       LoopReadsInfo, LoopReadsLayout, LoopWrites, LoopStep, WriterStep,
       WriteFails, Quit, ScreenExits, JoinTimesOut, Crash, Resurrect
<1>5. QED
  BY <1>1, <1>2, <1>3, <1>4

LEMMA NewerStep ==
  IInv /\ [Next]_vars
    => [name' = name => \A n \in Names : disk'[n].layout >= disk[n].layout]_vars
<1> SUFFICES ASSUME IInv, Next, name' = name, NEW n \in Names
             PROVE  disk'[n].layout >= disk[n].layout
  BY DEF vars
<1>1. \A m \in Names : ~RenameSession(m)
  BY DEF RenameSession
<1>2. QED
  BY <1>1, LayoutsKept

(* A delayed save never replaces a newer one: commit_if_current, the mutex  *)
(* it holds while it writes, and the order of the reservations together.    *)
THEOREM SavesInOrder == Spec => NewerOnly
<1>1. Spec => []IInv
  BY InvInit, InvStep, PTL DEF Spec
<1>2. QED
  BY <1>1, NewerStep, PTL DEF Spec, NewerOnly
-----------------------------------------------------------------------------
(* The last acknowledged save. *)

NoExit(s) == \A i \in 1 .. Len(s) : s[i].kind # "exit"

\* A save that is still in the channel of Pty, before Exit.
Queued(s, c) ==
  \E i \in 1 .. Len(s) : /\ s[i].kind = "save" /\ s[i].snap = c
                         /\ \A j \in 1 .. i : s[j].kind # "exit"

Landed(c) == \E n \in Names : disk[n].layout >= c.version

OnItsWay(c) ==
  \/ Queued(toPty, c)
  \/ writer.by = "pty" /\ writer.snap = c
  \/ Landed(c)

\* An acknowledged save that is the newest of its name is in the channel of
\* Pty, before Exit, or Pty writes it, or it is on disk.
ExitInv ==
  /\ version >= 1
  /\ phase = "run" => NoExit(toPty)
  /\ \A c \in accepted : c.version >= 1 /\ c.gen <= latest[c.name]
  /\ faults = 0 =>
       \A c \in accepted : c.gen = latest[c.name] => OnItsWay(c)

\* A message that was sent leaves those before it in their places.
LEMMA SendingKeeps ==
  ASSUME NEW S, NEW s \in Seq(S), NEW m \in S
  PROVE  /\ \A c : Queued(s, c) => Queued(Append(s, m), c)
         /\ NoExit(s) /\ m.kind # "exit" => NoExit(Append(s, m))
         /\ NoExit(s) /\ m.kind = "save" => Queued(Append(s, m), m.snap)
<1>1. /\ Len(Append(s, m)) = Len(s) + 1 /\ Len(s) \in Nat
      /\ Append(s, m)[Len(s) + 1] = m
      /\ \A i \in 1 .. Len(s) : Append(s, m)[i] = s[i]
  OBVIOUS
<1> DEFINE t == Append(s, m)
           k == Len(s)
<1>2. Len(t) = k + 1 /\ k \in Nat /\ t[k + 1] = m /\ \A i \in 1 .. k : t[i] = s[i]
  BY <1>1
<1> HIDE DEF t
<1>3. ASSUME NEW c, Queued(s, c) PROVE Queued(t, c)
  <2>1. PICK i \in 1 .. k : /\ s[i].kind = "save" /\ s[i].snap = c
                            /\ \A j \in 1 .. i : s[j].kind # "exit"
    BY <1>3 DEF Queued
  <2>2. i \in 1 .. k + 1 /\ \A j \in 1 .. i : j \in 1 .. k
    BY <1>2
  <2>3. QED
    BY <1>2, <2>1, <2>2 DEF Queued
<1>4. \A i \in 1 .. k + 1 : i \in 1 .. k \/ i = k + 1
  BY <1>2
<1>5. ASSUME NoExit(s), m.kind # "exit" PROVE NoExit(t)
  BY <1>2, <1>4, <1>5 DEF NoExit
<1>6. ASSUME NoExit(s), m.kind = "save" PROVE Queued(t, m.snap)
  <2>1. k + 1 \in 1 .. Len(t)
    BY <1>2
  <2>2. \A j \in 1 .. k + 1 : t[j].kind # "exit"
    BY <1>2, <1>4, <1>6 DEF NoExit
  <2>3. QED
    BY <1>2, <1>6, <2>1, <2>2 DEF Queued
<1>7. QED
  BY <1>3, <1>5, <1>6 DEF t

\* A message that was taken was the save, or leaves it where it is.
LEMMA TakingKeeps ==
  ASSUME NEW S, NEW s \in Seq(S), s # <<>>
  PROVE  /\ NoExit(s) => NoExit(Tail(s))
         /\ \A c : Queued(s, c) =>
              /\ Head(s).kind # "exit"
              /\ \/ Queued(Tail(s), c)
                 \/ Head(s).kind = "save" /\ Head(s).snap = c
<1>1. /\ Len(s) \in Nat \ {0} /\ Len(Tail(s)) = Len(s) - 1 /\ Head(s) = s[1]
      /\ \A i \in 1 .. Len(Tail(s)) : Tail(s)[i] = s[i + 1]
  OBVIOUS
<1> DEFINE t == Tail(s)
           k == Len(s)
<1>2. /\ k \in Nat \ {0} /\ Len(t) = k - 1 /\ Head(s) = s[1]
      /\ \A i \in 1 .. k - 1 : t[i] = s[i + 1]
  BY <1>1
<1> HIDE DEF t
<1>3. \A i \in 1 .. k - 1 : i + 1 \in 1 .. k
  BY <1>2
<1>4. NoExit(s) => NoExit(t)
  BY <1>2, <1>3 DEF NoExit
<1>5. ASSUME NEW c, Queued(s, c)
      PROVE  /\ Head(s).kind # "exit"
             /\ \/ Queued(t, c)
                \/ Head(s).kind = "save" /\ Head(s).snap = c
  <2>1. PICK i \in 1 .. k : /\ s[i].kind = "save" /\ s[i].snap = c
                            /\ \A j \in 1 .. i : s[j].kind # "exit"
    BY <1>5 DEF Queued
  <2>2. 1 \in 1 .. i
    BY <2>1
  <2>3. CASE i = 1
    BY <1>2, <2>1, <2>2, <2>3
  <2>4. CASE i # 1
    <3>1. i - 1 \in 1 .. k - 1 /\ (i - 1) + 1 = i
      BY <1>2, <2>4
    <3>2. \A j \in 1 .. i - 1 : j \in 1 .. k - 1 /\ j + 1 \in 1 .. i
      BY <1>2
    <3>3. t[i - 1] = s[i] /\ \A j \in 1 .. i - 1 : t[j].kind # "exit"
      BY <1>2, <2>1, <3>1, <3>2
    <3>4. Queued(t, c)
      BY <1>2, <2>1, <3>1, <3>3 DEF Queued
    <3>5. QED
      BY <1>2, <2>1, <2>2, <3>4
  <2>5. QED
    BY <2>3, <2>4
<1>6. QED
  BY <1>4, <1>5 DEF t

\* What is on disk is not lost: a folder that is renamed keeps its layout.
LEMMA LandedStays ==
  ASSUME IInv, Next, NEW c \in Captures, Landed(c)
  PROVE  Landed(c)'
<1>1. PICK n \in Names : disk[n].layout >= c.version
  BY DEF Landed
<1>2. /\ c.version \in Nat /\ TypeOK'
      /\ \A m \in Names : disk[m].layout \in Nat /\ disk'[m].layout \in Nat
  BY SavesType, TypeStep, MessageTypes DEF IInv, TypeOK, Folders
<1>3. CASE \A m \in Names : ~RenameSession(m)
  <2>1. disk'[n].layout >= disk[n].layout
    BY <1>3, LayoutsKept
  <2>2. QED
    BY <1>1, <1>2, <2>1 DEF Landed
<1>4. ASSUME NEW m \in Names, RenameSession(m) PROVE Landed(c)'
  <2>1. /\ disk' = [disk EXCEPT ![m] = disk[name], ![name] = NoFolder]
        /\ disk \in [Names -> Folders] /\ name \in Names /\ m # name
        /\ disk[m] = NoFolder
    BY <1>4 DEF RenameSession, IInv, TypeOK
  <2>2. /\ disk'[m] = disk[name] /\ disk[m].layout = 0
        /\ \A k \in Names \ {m, name} : disk'[k] = disk[k]
    BY <2>1 DEF NoFolder
  <2>3. \E k \in Names : disk'[k].layout >= disk[n].layout
    <3>1. CASE n = name
      BY <1>2, <2>2, <3>1
    <3>2. CASE n = m
      BY <1>2, <2>2, <3>2
    <3>3. CASE n \notin {m, name}
      BY <1>2, <2>2, <3>3
    <3>4. QED
      BY <3>1, <3>2, <3>3
  <2>4. QED
    BY <1>1, <1>2, <2>3 DEF Landed
<1>5. QED
  BY <1>3, <1>4

\* A process that has forgotten everything has acknowledged nothing.
LEMMA ExitForgets ==
  ASSUME ExitInv, TypeOK, TypeOK', version' >= version, accepted' = {}, toPty' = <<>>
  PROVE  ExitInv'
  BY DEF ExitInv, NoExit, TypeOK

\* A step that reserves nothing and acknowledges nothing, and loses no save.
Onward ==
  /\ version' >= version
  /\ accepted' = accepted /\ latest' = latest /\ faults' = faults
  /\ phase' = "run" => phase = "run" /\ (NoExit(toPty) => NoExit(toPty'))
  /\ \A c \in accepted :
       c.gen = latest[c.name] /\ Queued(toPty, c) => OnItsWay(c)'
  /\ \A c \in accepted :
       c.version >= 1 /\ writer.by = "pty" /\ writer.snap = c => OnItsWay(c)'

LEMMA ExitPasses ==
  ASSUME IInv, TypeOK', Next, ExitInv, Onward
  PROVE  ExitInv'
<1>1. version' >= 1
  BY DEF ExitInv, IInv, TypeOK, Onward
<1>2. phase' = "run" => NoExit(toPty')
  BY DEF ExitInv, Onward
<1>3. ASSUME NEW c \in accepted, c.gen = latest[c.name], faults = 0
      PROVE  OnItsWay(c)'
  <2>1. OnItsWay(c) /\ c.version >= 1
    BY <1>3 DEF ExitInv
  <2>2. c \in Captures
    BY DEF IInv, TypeOK
  <2>3. CASE Landed(c)
    BY <2>2, <2>3, LandedStays DEF OnItsWay
  <2>4. QED
    BY <1>3, <2>1, <2>3 DEF OnItsWay, Onward
<1>4. QED
  BY <1>1, <1>2, <1>3 DEF ExitInv, Onward
LEMMA ExitInit == Init => ExitInv
<1>1. Init => NoExit(toPty)
  BY DEF Init, NoExit
<1>2. QED
  BY <1>1 DEF Init, ExitInv

\* The capture that is acknowledged is the newest of its name, and the older
\* ones of that name are not any more.
LEMMA ExitSaves == IInv /\ TypeOK' /\ ExitInv /\ Next /\ SaveSession => ExitInv'
<1> SUFFICES ASSUME IInv, TypeOK', ExitInv, Next, SaveSession PROVE ExitInv'
  OBVIOUS
<1> DEFINE m == [kind |-> "save", snap |-> Capture, info |-> version]
<1>1. /\ toPty' = Append(toPty, m) /\ m.kind = "save" /\ m.snap = Capture
      /\ UNCHANGED <<phase, version, faults, writer>>
      /\ accepted' = IF phase = "run" THEN accepted \cup {Capture} ELSE accepted
      /\ latest' = [latest EXCEPT ![name] = next + 1]
  BY DEF SaveSession, Reserve, screenVars, budgets
<1>2. /\ name \in Names /\ latest \in [Names -> Nat] /\ next \in Nat
      /\ version \in Nat /\ toPty \in Seq(PtyMessages) /\ accepted \subseteq Captures
  BY DEF IInv, TypeOK
<1>3. Capture \in Captures /\ Capture.name = name /\ Capture.gen = next + 1
      /\ Capture.version = version
  BY <1>2 DEF Capture, Captures
<1>4. m \in PtyMessages
  BY <1>2, <1>3, MessageTypes
<1> HIDE DEF m
<1>5. /\ \A c : Queued(toPty, c) => Queued(toPty', c)
      /\ NoExit(toPty) => NoExit(toPty') /\ Queued(toPty', Capture)
  BY <1>1, <1>2, <1>4, SendingKeeps
<1>6. /\ \A n \in Names : latest[n] <= next
      /\ latest'[name] = next + 1
      /\ \A n \in Names \ {name} : latest'[n] = latest[n]
  BY <1>1, <1>2 DEF IInv, InOrder
<1>7. ASSUME NEW c \in accepted
      PROVE  /\ c.version >= 1 /\ c.gen <= latest'[c.name]
             /\ c.gen = latest'[c.name] => c.gen = latest[c.name]
  <2>1. c.name \in Names /\ c.gen \in Nat
    BY <1>2, MessageTypes
  <2>2. c.version >= 1 /\ c.gen <= latest[c.name]
    BY DEF ExitInv
  <2>3. latest[c.name] <= next /\ latest[c.name] \in Nat
    BY <1>2, <1>6, <2>1
  <2>4. CASE c.name = name
    BY <1>2, <1>6, <2>1, <2>2, <2>3, <2>4
  <2>5. CASE c.name # name
    BY <1>6, <2>1, <2>2, <2>5
  <2>6. QED
    BY <2>4, <2>5
<1>8. ASSUME NEW c \in accepted, faults = 0, c.gen = latest'[c.name]
      PROVE  OnItsWay(c)'
  <2>1. OnItsWay(c) /\ c \in Captures
    BY <1>2, <1>7, <1>8 DEF ExitInv
  <2>2. CASE Landed(c)
    BY <2>1, <2>2, LandedStays DEF OnItsWay
  <2>3. QED
    BY <1>1, <1>5, <2>1, <2>2 DEF OnItsWay
<1>9. version >= 1 /\ (phase = "run" => NoExit(toPty))
  BY DEF ExitInv
<1>10. PICK k : k = Capture
  OBVIOUS
<1>11. phase = "run" => OnItsWay(k)'
  BY <1>5, <1>9, <1>10 DEF OnItsWay
<1>12. /\ version' >= 1
       /\ phase' = "run" => NoExit(toPty')
  BY <1>1, <1>5, <1>9
<1>13. ASSUME NEW c \in accepted'
       PROVE  /\ c.version >= 1 /\ c.gen <= latest'[c.name]
              /\ faults' = 0 /\ c.gen = latest'[c.name] => OnItsWay(c)'
  <2>1. CASE c \in accepted
    BY <1>1, <1>7, <1>8, <2>1
  <2>2. CASE c = k /\ phase = "run"
    <3>1. c.version = version /\ c.gen = next + 1 /\ latest'[c.name] = next + 1
      BY <1>3, <1>6, <1>10, <2>2
    <3>2. QED
      BY <1>2, <1>9, <1>11, <2>2, <3>1
  <2>3. QED
    BY <1>1, <1>10, <2>1, <2>2
<1>14. QED
  BY <1>12, <1>13 DEF ExitInv
LEMMA ExitStep == IInv /\ ExitInv /\ [Next]_vars => ExitInv'
<1> SUFFICES ASSUME IInv, ExitInv, [Next]_vars PROVE ExitInv'
  OBVIOUS
<1>0. /\ TypeOK /\ TypeOK' /\ version \in Nat
      /\ toPlugin \in Seq(Captures) /\ toPty \in Seq(PtyMessages)
  BY TypeStep DEF IInv, TypeOK
<1> USE DEF screenVars, coordVars, budgets
<1>1. CASE UNCHANGED vars
  <2>1. \A c : OnItsWay(c) => OnItsWay(c)'
    BY <1>1 DEF vars, OnItsWay, Landed
  <2>2. QED
    BY <1>1, <2>1 DEF vars, ExitInv
<1>2. SUFFICES ASSUME Next PROVE ExitInv'
  BY <1>1
<1>3. CASE SaveSession
  BY <1>0, <1>2, <1>3, ExitSaves
<1>4. CASE \/ ProcessExits \/ JoinTimesOut \/ Crash
           \/ \E n \in Names, b \in BOOLEAN : Resurrect(n, b)
  <2>1. accepted' = {} /\ toPty' = <<>> /\ version' >= version
    BY <1>0, <1>4 DEF ProcessExits, JoinTimesOut, Crash, Resurrect, Forget
  <2>2. QED
    BY <1>0, <2>1, ExitForgets
<1>5. CASE SerializeLayoutForResurrection
  <2>1. /\ UNCHANGED <<phase, version, accepted, toPty, writer, disk, faults>>
        /\ latest' = [latest EXCEPT ![name] = next + 1]
    BY <1>5 DEF SerializeLayoutForResurrection, Reserve
  <2>2. /\ name \in Names /\ latest \in [Names -> Nat] /\ next \in Nat
        /\ \A n \in Names : latest[n] <= next
    BY <1>0 DEF TypeOK, IInv, InOrder
  <2>3. \A c : OnItsWay(c) => OnItsWay(c)'
    BY <2>1 DEF OnItsWay, Landed
  <2>4. ASSUME NEW c \in accepted
        PROVE  /\ c.gen <= latest'[c.name]
               /\ c.gen = latest'[c.name] => c.gen = latest[c.name]
    <3>1. c.name \in Names /\ c.gen \in Nat /\ c.gen <= latest[c.name]
      BY <1>0, MessageTypes DEF TypeOK, ExitInv
    <3>2. latest[c.name] \in Nat /\ latest[c.name] <= next
      BY <2>2, <3>1
    <3>3. CASE c.name = name
      BY <2>1, <2>2, <3>1, <3>2, <3>3
    <3>4. CASE c.name # name
      BY <2>1, <2>2, <3>1, <3>4
    <3>5. QED
      BY <3>3, <3>4
  <2>5. QED
    BY <2>1, <2>3, <2>4 DEF ExitInv
<1>6. CASE \/ \E b \in BOOLEAN : Edit(b)
           \/ \E n \in Names : RenameSession(n)
           \/ ReportSessionInfo \/ ReportLayoutInfo \/ JobsExit \/ LoopReads
           \/ ScreenExits \/ \E f \in Files : PutFile(f)
  <2>1. UNCHANGED <<phase, accepted, latest, toPty, faults>>
    BY <1>6
       DEF Edit, RenameSession, ReportSessionInfo, ReportLayoutInfo, JobsExit,
           LoopReads, LoopReadsName, LoopReadsInfo, LoopReadsLayout, LoopStep,
           ScreenExits, PutFile
  <2>2. version' = version \/ version' = version + 1
    BY <1>6
       DEF Edit, RenameSession, ReportSessionInfo, ReportLayoutInfo, JobsExit,
           LoopReads, LoopReadsName, LoopReadsInfo, LoopReadsLayout, LoopStep,
           ScreenExits, PutFile
  <2>3. \/ writer' = writer
        \/ \E f \in Files : writer' = [writer EXCEPT !.left = @ \ {f}]
    BY <1>6
       DEF Edit, RenameSession, ReportSessionInfo, ReportLayoutInfo, JobsExit,
           LoopReads, LoopReadsName, LoopReadsInfo, LoopReadsLayout, LoopStep,
           ScreenExits, PutFile
  <2>4. writer'.by = writer.by /\ writer'.snap = writer.snap
    BY <1>0, <2>3 DEF TypeOK
  <2>5. version' >= version
    BY <1>0, <2>2
  <2>6. Onward
    BY <2>1, <2>4, <2>5 DEF Onward, OnItsWay
  <2>7. QED
    BY <1>0, <1>2, <2>6, ExitPasses
<1>7. CASE PluginForwards \/ Quit
  <2>1. /\ UNCHANGED <<version, accepted, latest, writer, faults>>
        /\ phase' = "run" => phase = "run" /\ PluginForwards
        /\ \E m \in PtyMessages : /\ toPty' = Append(toPty, m)
                                  /\ PluginForwards => m.kind # "exit"
    <3>1. CASE PluginForwards
      <4> DEFINE m == [kind |-> "log", snap |-> Head(toPlugin), info |-> 0]
      <4>1. Head(toPlugin) \in Captures
        BY <1>0, <3>1, ChannelHolds DEF PluginForwards
      <4>2. m \in PtyMessages /\ m.kind # "exit"
        BY <4>1, MessageTypes
      <4>3. QED
        BY <3>1, <4>2 DEF PluginForwards
    <3>2. CASE Quit
      <4>1. [kind |-> "exit", snap |-> NoCapture, info |-> 0] \in PtyMessages
        BY ConstantTypes, MessageTypes
      <4>2. ~PluginForwards
        BY <3>2 DEF PluginForwards, Quit
      <4>3. QED
        BY <3>2, <4>1, <4>2 DEF Quit
    <3>3. QED
      BY <1>7, <3>1, <3>2
  <2>2. PICK m \in PtyMessages : /\ toPty' = Append(toPty, m)
                                 /\ PluginForwards => m.kind # "exit"
    BY <2>1
  <2>3. /\ \A c : Queued(toPty, c) => Queued(toPty', c)
        /\ NoExit(toPty) /\ PluginForwards => NoExit(toPty')
    BY <1>0, <2>2, SendingKeeps
  <2>6. version' >= version
    BY <1>0, <2>1
  <2>7. Onward
    BY <2>1, <2>3, <2>6 DEF Onward, OnItsWay
  <2>8. QED
    BY <1>0, <1>2, <2>7, ExitPasses
<1>8. CASE PtyLogs \/ PtySaves
  <2>1. /\ UNCHANGED <<phase, version, accepted, latest, faults>>
        /\ toPty # <<>> /\ toPty' = Tail(toPty) /\ writer.by # "pty"
    BY <1>8 DEF PtyLogs, PtySaves, PtyTakes
  <2>2. NoExit(toPty) => NoExit(toPty')
    BY <1>0, <2>1, TakingKeeps
  <2>3. ASSUME NEW c \in accepted, c.gen = latest[c.name], Queued(toPty, c)
        PROVE  OnItsWay(c)'
    <3>1. \/ Queued(toPty', c)
          \/ Head(toPty).kind = "save" /\ Head(toPty).snap = c
      BY <1>0, <2>1, <2>3, TakingKeeps
    <3>2. CASE Queued(toPty', c)
      BY <3>2 DEF OnItsWay
    <3>3. CASE Head(toPty).kind = "save" /\ Head(toPty).snap = c
      <4>1. PtySaves
        BY <1>8, <3>3 DEF PtyLogs, PtyTakes
      <4>2. c.gen >= latest[c.name]
        <5>1. c.gen \in Nat
          BY <1>0, MessageTypes DEF TypeOK
        <5>2. QED
          BY <2>3, <5>1
      <4>3. writer'.by = "pty" /\ writer'.snap = c
        BY <3>3, <4>1, <4>2 DEF PtySaves, IsCurrent, Persist
      <4>4. QED
        BY <4>3 DEF OnItsWay
    <3>4. QED
      BY <3>1, <3>2, <3>3
  <2>4. version' >= version
    BY <1>0, <2>1
  <2>5. Onward
    BY <2>1, <2>2, <2>3, <2>4 DEF Onward, OnItsWay
  <2>6. QED
    BY <1>0, <1>2, <2>5, ExitPasses
<1>9. CASE LoopWrites
  <2>1. /\ UNCHANGED <<phase, version, accepted, latest, toPty, faults>>
        /\ writer.by # "pty"
    BY <1>9 DEF LoopWrites, LoopStep
  <2>2. version' >= version
    BY <1>0, <2>1
  <2>3. Onward
    BY <2>1, <2>2 DEF Onward, OnItsWay
  <2>4. QED
    BY <1>0, <1>2, <2>3, ExitPasses
<1>10. CASE PutInfo
  <2>1. /\ UNCHANGED <<phase, version, accepted, latest, toPty, faults>>
        /\ writer.snap.version # 0 =>
             writer'.by = writer.by /\ writer'.snap = writer.snap
    BY <1>0, <1>10 DEF PutInfo, TypeOK
  <2>2. version' >= version
    BY <1>0, <2>1
  <2>3. Onward
    BY <2>1, <2>2 DEF Onward, OnItsWay
  <2>4. QED
    BY <1>0, <1>2, <2>3, ExitPasses
<1>11. CASE PutLayout
  <2>1. UNCHANGED <<phase, version, accepted, latest, toPty, faults>>
    BY <1>11 DEF PutLayout
  <2>2. disk' = [disk EXCEPT ![writer.snap.name].layout = writer.snap.version]
    BY <1>11 DEF PutLayout
  <2>3. /\ writer.snap.name \in Names /\ writer.snap.version \in Nat
        /\ disk \in [Names -> Folders]
    BY <1>0, MessageTypes DEF TypeOK
  <2>4. disk'[writer.snap.name].layout = writer.snap.version
    BY <2>2, <2>3 DEF Folders
  <2>5. ASSUME NEW c, writer.snap = c PROVE OnItsWay(c)'
    <3>1. c.name \in Names /\ c.version \in Nat /\ disk'[c.name].layout = c.version
      BY <2>3, <2>4, <2>5
    <3>2. QED
      BY <3>1 DEF OnItsWay, Landed
  <2>6. version' >= version
    BY <1>0, <2>1
  <2>7. Onward
    BY <2>1, <2>5, <2>6 DEF Onward, OnItsWay
  <2>8. QED
    BY <1>0, <1>2, <2>7, ExitPasses
<1>12. CASE WriteFails
  <2>1. /\ UNCHANGED <<phase, version, accepted, latest, toPty>>
        /\ faults' = faults + 1 /\ faults \in Nat
    BY <1>0, <1>12 DEF WriteFails, TypeOK
  <2>2. QED
    BY <2>1 DEF ExitInv
<1>13. QED
  BY <1>2, <1>3, <1>4, <1>5, <1>6, <1>7, <1>8, <1>9, <1>10, <1>11, <1>12
     DEF Next, PtyStep, JobsStep, WriterStep

\* When the threads have ended, Pty has nothing queued and writes nothing.
LEMMA ExitKeeps ==
  ASSUME IInv, ExitInv, ProcessExits, faults = 0, NEW c \in accepted,
         c.gen = latest[c.name]
  PROVE  Landed(c)
<1>1. OnItsWay(c)
  BY DEF ExitInv
<1>2. toPty \in Seq(PtyMessages) /\ toPty # <<>> /\ Head(toPty).kind = "exit"
  BY DEF ProcessExits, IInv, TypeOK
<1>3. ~Queued(toPty, c)
  BY <1>2, TakingKeeps
<1>4. QED
  BY <1>1, <1>3 DEF ProcessExits, OnItsWay

(* An orderly exit keeps the last acknowledged save: save-session is         *)
(* answered when Pty has been sent the capture, and the process waits for   *)
(* Pty, whose channel holds the capture before Exit.                        *)
THEOREM ExitKeepsSave == Spec => ExitKeepsLastSave
<1>1. Spec => [](IInv /\ ExitInv)
  BY InvInit, InvStep, ExitInit, ExitStep, PTL DEF Spec
<1>2. IInv /\ ExitInv /\ [Next]_vars =>
        [ProcessExits /\ faults = 0 =>
           \A c \in accepted : c.gen = latest[c.name] =>
             \E n \in Names : disk[n].layout >= c.version]_vars
  BY ExitKeeps DEF Landed
<1>3. QED
  BY <1>1, <1>2, PTL DEF Spec, ExitKeepsLastSave

=============================================================================
