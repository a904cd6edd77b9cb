----------------------------- MODULE RunTransfer -----------------------------
(***************************************************************************)
(* The transfer of a finished run into the drawer of its outcome:          *)
(* transfer_finished_run, run by the command line under the run's lock.    *)
(*                                                                         *)
(* The scrollback of the run's tab is captured into a file, its metadata   *)
(* written, a viewer tab opened in the drawer and confirmed, the viewers   *)
(* of earlier outcomes retired, and the run's own tab closed, in this      *)
(* order.  A receipt on disk records how far it got.  The process may die  *)
(* or give up anywhere; whoever settles the run calls it again.            *)
(*                                                                         *)
(* "r" is the receipt in memory.  A file is a set: {} when it is missing,  *)
(* {0} when it was damaged, {n} when it holds the n-th capture; a staging   *)
(* file has the number of its capture as its name.                         *)
(***************************************************************************)
EXTENDS ViewerDrawer

CONSTANTS
  Outcomes,       \* what a run settles with: an exit code, and the drawer its
                  \* caller asks for or "none", which leaves it to the code
  FirstOutcome,   \* the first of them
  MaxSettled,     \* bound on how often it settles
  OriginTabs,     \* instances of tabs that have the run's name
  First,          \* the run's own tab
  HasTranscript   \* is there a runtime transcript to fall back to

ASSUME OutcomesAssumption ==
  /\ Outcomes \subseteq [code : Nat, verdict : Buckets \cup {"none"}]
  /\ FirstOutcome \in Outcomes
ASSUME FirstAssumption == First \in OriginTabs
ASSUME NoTabAssumption == "no tab" \notin OriginTabs
ASSUME SettledAssumption ==
  MaxSettled \in Nat \ {0} /\ 1..MaxSettled \subseteq Tokens

VARIABLES
  settled,    \* the outcomes of the run, by settlement revision
  cli,        \* the transferring process: where it is, its receipt, the
              \* drawer's incarnation it saw, the capture it makes, and
              \* whether it is recovering a pending viewer
  dest, staged, manifest, metaFile,   \* the files of the capture
  dumps,      \* captures made so far
  origin,     \* the live tabs with the run's name
  originLife, \* the incarnation of the run's session
  damaged,    \* a capture file was damaged
  done        \* the revision of the last transfer that succeeded

fileVars == <<dest, staged, manifest, metaFile, dumps>>
worldVars == <<settled, origin, originLife, damaged>>
vars == <<receipt, serverVars, faults, cli, fileVars, worldVars, done>>

\* Who knows nothing but the exit code cannot tell a clean failure.
ForExitCode(code) == IF code = 0 THEN "Finalized runs" ELSE "Needs attention"

\* The caller's verdict wins.
Bucket(o) == IF o.verdict = "none" THEN ForExitCode(o.code) ELSE o.verdict
ASSUME BucketsAssumption == \A o \in Outcomes : Bucket(o) \in Buckets

NoEvidence == [data |-> 0, tab |-> "no tab", life |-> 0]
Evidence == [data : Nat, tab : OriginTabs \cup {"no tab"}, life : Nat]
Metas == [code : Nat, bucket : Buckets, data : Nat]
Receipts == [rev : Nat, code : Nat, bucket : Buckets, evidence : Evidence,
             captured : BOOLEAN, meta : BOOLEAN, confirmed : BOOLEAN,
             identity : Nat, pending : BOOLEAN, gen : Nat, token : Tokens,
             superseded : Seq([bucket : Buckets, token : Tokens])]

\* The steps of the transfer.
Steps == {"idle", "adopt", "dump", "transcript", "manifest", "rename", "mismatch",
          "record", "meta", "recordMeta", "ensure", "lookup", "reserve",
          "open", "await", "ready", "reserveAgain", "reopen", "confirm",
          "retire", "close", "save", "prove", "drop", "rebind",
          "closeOrigin", "finish"}

Transfers == [at : Steps, r : Receipts, life : Nat, dump : Evidence,
              terminal : BOOLEAN, again : BOOLEAN]

TypeOK ==
  /\ DrawerTypeOK
  /\ receipt \in Receipts
  /\ settled \in Seq(Outcomes)
  /\ cli \in Transfers
  /\ dest \subseteq Nat /\ staged \subseteq [file : Nat, data : Nat]
  /\ manifest \subseteq Evidence /\ metaFile \subseteq Metas /\ dumps \in Nat
  /\ origin \subseteq OriginTabs /\ originLife \in Nat
  /\ damaged \in BOOLEAN /\ done \in Nat

\* TransferReceipt::new, also what stands for a receipt that is not there
New(rev, o) ==
  [rev |-> rev, code |-> o.code, bucket |-> Bucket(o),
   evidence |-> NoEvidence, captured |-> FALSE, meta |-> FALSE,
   confirmed |-> FALSE, identity |-> 0, pending |-> FALSE, gen |-> 0,
   token |-> 1, superseded |-> <<>>]

NoReceipt == New(0, FirstOutcome)
Idle == [at |-> "idle", r |-> NoReceipt, life |-> 0, dump |-> NoEvidence,
         terminal |-> FALSE, again |-> FALSE]

Init ==
  /\ DrawerInit
  /\ receipt = NoReceipt /\ cli = Idle
  /\ settled = <<FirstOutcome>>
  /\ dest = {} /\ staged = {} /\ manifest = {} /\ metaFile = {} /\ dumps = 0
  /\ origin = {First} /\ originLife = 1
  /\ damaged = FALSE /\ done = 0

-----------------------------------------------------------------------------
\* One step: from one place to the next with this receipt in memory.
Step(from, to, r) == cli.at = from /\ cli' = [cli EXCEPT !.at = to, !.r = r]
Go(from, to) == Step(from, to, cli.r)

\* persist_receipt: the receipt in memory is changed and written.
Persist(from, to, r) == Step(from, to, r) /\ receipt' = r

KeepServer == UNCHANGED <<serverVars, faults>>
KeepFiles == UNCHANGED fileVars
KeepWorld == UNCHANGED <<worldVars, done>>

MetaOf(r) == [code |-> r.code, bucket |-> r.bucket, data |-> r.evidence.data]

-----------------------------------------------------------------------------
(* The receipt is loaded and brought up to the settlement.                 *)

\* The viewer of the old outcome, if there may be one, is to be retired.
Tombstone(r) ==
  IF r.identity # 0 \/ r.pending \/ r.confirmed
  THEN Append(r.superseded, [bucket |-> r.bucket, token |-> r.token])
  ELSE r.superseded

\* Mutant: a verdict that was revised for the same exit code is not noticed.
MutChanged(r, o) == r.code # o.code

\* classification_changed
Changed(r, o) == r.bucket # Bucket(o) \/ r.code # o.code

\* A changed outcome gets a viewer, and a token, of its own.
Reclassified(r, rev, o) ==
  [r EXCEPT !.rev = rev, !.code = o.code, !.bucket = Bucket(o),
            !.meta = FALSE, !.confirmed = FALSE, !.identity = 0,
            !.pending = FALSE, !.gen = @ + 1, !.token = @ + 1,
            !.superseded = Tombstone(r)]

\* A capture file that does not match the evidence any more is captured again.
CheckCapture(r) ==
  IF r.captured /\ dest # {r.evidence.data}
  THEN [r EXCEPT !.captured = FALSE, !.meta = FALSE, !.evidence = NoEvidence]
  ELSE r

\* The settlement of an older revision is refused.
Begin(rev) ==
  /\ cli.at = "idle" /\ rev \in 1..Len(settled) /\ receipt.rev <= rev
  /\ LET o == settled[rev]
         base == IF receipt.rev = 0 THEN New(rev, o) ELSE receipt
         r == IF rev = base.rev THEN base
              ELSE IF Changed(base, o) THEN Reclassified(base, rev, o)
              ELSE [base EXCEPT !.rev = rev]
         c == CheckCapture(r)
     IN /\ receipt' = IF rev > base.rev THEN r ELSE receipt
        /\ cli' = [Idle EXCEPT !.at = IF c.captured THEN "meta" ELSE "adopt",
                               !.r = c]
  /\ KeepServer /\ KeepFiles /\ KeepWorld

-----------------------------------------------------------------------------
(* The capture: dump, manifest, rename; a crash in between is resumed.     *)

IsStaged(n) == \E f \in staged : f.file = n
Intact(n) == [file |-> n, data |-> n] \in staged

\* The staging file is renamed to its destination.
MoveStaged(n) ==
  /\ dest' = {f.data : f \in {g \in staged : g.file = n}}
  /\ staged' = {f \in staged : f.file # n}

\* adopt_capture_commit: what the manifest promises is in place, or in its
\* staging file still, which is renamed now.
AdoptCapture ==
  /\ cli.at = "adopt"
  /\ \E e \in manifest :
       /\ cli' = [cli EXCEPT !.at = "record", !.dump = e]
       /\ \/ dest = {e.data} /\ UNCHANGED <<dest, staged>>
          \/ dest # {e.data} /\ Intact(e.data) /\ MoveStaged(e.data)
  /\ UNCHANGED <<receipt, manifest, metaFile, dumps>>
  /\ KeepServer /\ KeepWorld

\* Mutant: a manifest without files is not retired.
MutStartCapture ==
  /\ Go("adopt", "dump") /\ manifest = {}
  /\ UNCHANGED receipt /\ KeepServer /\ KeepFiles /\ KeepWorld

\* There is no manifest, or retire_stale_capture_manifest: neither file is.
StartCapture ==
  /\ Go("adopt", "dump")
  /\ \A e \in manifest : dest # {e.data} /\ ~IsStaged(e.data)
  /\ manifest' = {}
  /\ UNCHANGED <<receipt, dest, staged, metaFile, dumps>>
  /\ KeepServer /\ KeepWorld

\* The tab that is captured is the only one of the run's name.
OriginIdentity ==
  IF \E t \in origin : origin = {t}
  THEN [tab |-> CHOOSE t \in origin : TRUE, life |-> originLife]
  ELSE [tab |-> "no tab", life |-> 0]

\* A capture goes to a staging file of its own; what is put there before its
\* digest is taken is what was captured.
Dump(from, terminal, identity) ==
  /\ cli.at = from
  /\ dumps' = dumps + 1
  /\ staged' = staged \cup {[file |-> dumps', data |-> dumps']}
  /\ cli' = [cli EXCEPT !.at = "manifest", !.terminal = terminal,
               !.dump = [data |-> dumps', tab |-> identity.tab,
                         life |-> identity.life]]
  /\ UNCHANGED <<receipt, dest, manifest, metaFile>>
  /\ KeepServer /\ KeepWorld

CaptureTerminal ==
  OriginIdentity.tab # "no tab" /\ Dump("dump", TRUE, OriginIdentity)

\* capture_runtime_transcript, with the identity that was looked up before
CaptureTranscript == Dump("transcript", FALSE, cli.dump)

PutManifest ==
  /\ Go("manifest", "rename")
  /\ manifest' = {cli.dump}
  /\ UNCHANGED <<receipt, dest, staged, metaFile, dumps>>
  /\ KeepServer /\ KeepWorld

\* Mutant: the receipt is written before the capture is renamed.
MutCommitCapture ==
  /\ Go("rename", "record") /\ Intact(cli.dump.data)
  /\ UNCHANGED <<receipt, dest, staged, manifest, metaFile, dumps>>
  /\ KeepServer /\ KeepWorld

\* commit_scrollback_capture: renamed, then compared with the evidence.
CommitCapture ==
  /\ cli.at = "rename" /\ IsStaged(cli.dump.data)
  /\ MoveStaged(cli.dump.data)
  /\ cli' = [cli EXCEPT !.at = IF dest' = {cli.dump.data} THEN "record"
                               ELSE "mismatch"]
  /\ UNCHANGED <<receipt, manifest, metaFile, dumps>>
  /\ KeepServer /\ KeepWorld

CaptureIsLost ==
  \/ cli.at = "dump" /\ OriginIdentity.tab = "no tab"
  \/ cli.at = "rename" /\ ~IsStaged(cli.dump.data)
  \/ cli.at = "mismatch"

\* Any failure of the terminal capture falls back to the transcript.
TerminalFails ==
  /\ HasTranscript
  /\ \/ cli.at = "dump"
     \/ cli.at \in {"manifest", "rename", "mismatch"} /\ cli.terminal
  /\ \/ CaptureIsLost /\ UNCHANGED faults
     \/ Bounded /\ faults' = faults + 1
  /\ cli' = [cli EXCEPT !.at = "transcript",
       !.dump = IF cli.at = "dump"
                THEN [data |-> 0, tab |-> OriginIdentity.tab,
                      life |-> OriginIdentity.life]
                ELSE @]
  /\ UNCHANGED <<receipt, serverVars>> /\ KeepFiles /\ KeepWorld

RecordCapture ==
  /\ Persist("record", "meta",
       [cli.r EXCEPT !.evidence = cli.dump, !.captured = TRUE, !.meta = FALSE])
  /\ KeepServer /\ KeepFiles /\ KeepWorld

MetaIsWritten(r) == r.meta /\ metaFile = {MetaOf(r)}

PutMeta ==
  /\ ~MetaIsWritten(cli.r) /\ Step("meta", "recordMeta",
                                   [cli.r EXCEPT !.meta = FALSE])
  /\ metaFile' = {MetaOf(cli.r)}
  /\ UNCHANGED <<receipt, dest, staged, manifest, dumps>>
  /\ KeepServer /\ KeepWorld

RecordMeta ==
  /\ Persist("recordMeta", "ensure", [cli.r EXCEPT !.meta = TRUE])
  /\ KeepServer /\ KeepFiles /\ KeepWorld

KeepMeta ==
  /\ MetaIsWritten(cli.r) /\ Go("meta", "ensure")
  /\ UNCHANGED receipt
  /\ KeepServer /\ KeepFiles /\ KeepWorld

-----------------------------------------------------------------------------
(* The viewer is looked up, opened or recovered, and confirmed.            *)

Here == drawer[cli.r.bucket]
Tab == Here.tab[cli.r.token]
Shown == Tab \in {"blank", "viewer"}

\* ensure_bucket_session: a drawer that is not there is brought up.
Ensure(b) ==
  \/ drawer[b].up /\ UNCHANGED serverVars
  \/ Start(b)

EnsureDrawer ==
  /\ Step("ensure", "lookup", [cli.r EXCEPT !.confirmed = FALSE])
  /\ Ensure(cli.r.bucket)
  /\ UNCHANGED <<receipt, faults>> /\ KeepFiles /\ KeepWorld

\* bucket_tab_identity
Lookup ==
  /\ cli.at = "lookup" /\ Serves(cli.r.bucket)
  /\ cli' = [cli EXCEPT !.at = IF Tab = "none" THEN "reserve" ELSE "ready",
                        !.life = Here.life]
  /\ UNCHANGED receipt /\ KeepServer /\ KeepFiles /\ KeepWorld

\* The reservation is durable before the request is sent.
Reserve ==
  /\ Persist("reserve", "open",
       [cli.r EXCEPT !.identity = 0, !.pending = TRUE, !.gen = @ + 1])
  /\ KeepServer /\ KeepFiles /\ KeepWorld

Request == [bucket |-> cli.r.bucket, token |-> cli.r.token, gen |-> cli.r.gen]

SendRequest(from) ==
  /\ Go(from, "await") /\ Here.up
  /\ requests' = requests \cup {Request}
  /\ UNCHANGED <<receipt, drawer, writers, busy, faults>>
  /\ KeepFiles /\ KeepWorld

OpenTab == SendRequest("open")

\* reconcile_reserved_bucket_tab, also of a request that was acknowledged; a
\* recovered tab is the one that was pending.
AwaitTab ==
  /\ cli.at = "await" /\ Serves(cli.r.bucket) /\ Shown
  /\ (cli.again => Here.life = cli.life)
  /\ cli' = [cli EXCEPT !.at = "ready", !.life = Here.life]
  /\ UNCHANGED receipt /\ KeepServer /\ KeepFiles /\ KeepWorld

\* bucket_tab_ready: the tab is found by its number in this incarnation; in
\* another one the number may be any tab's.
TabIsReady(answer) ==
  /\ cli.at = "ready" /\ Serves(cli.r.bucket)
  /\ (Here.life = cli.life => answer = Shown)

FindReady ==
  /\ TabIsReady(TRUE)
  /\ Go("ready", "confirm")
  /\ UNCHANGED receipt /\ KeepServer /\ KeepFiles /\ KeepWorld

FindPending ==
  /\ TabIsReady(FALSE) /\ ~cli.again
  /\ Go("ready", "reserveAgain")
  /\ UNCHANGED receipt /\ KeepServer /\ KeepFiles /\ KeepWorld

ReserveAgain ==
  /\ cli.at = "reserveAgain"
  /\ receipt' = [cli.r EXCEPT !.identity = cli.life, !.pending = TRUE,
                              !.gen = @ + 1]
  /\ cli' = [cli EXCEPT !.at = "reopen", !.r = receipt', !.again = TRUE]
  /\ KeepServer /\ KeepFiles /\ KeepWorld

\* recover_bucket_tab: only of the very tab that was found pending.
RecoverTab ==
  /\ SendRequest("reopen")
  /\ Serves(cli.r.bucket) /\ Tab # "none" /\ Here.life = cli.life

Confirm ==
  /\ Persist("confirm", "retire",
       [cli.r EXCEPT !.identity = cli.life, !.pending = FALSE,
                     !.confirmed = TRUE])
  /\ KeepServer /\ KeepFiles /\ KeepWorld

-----------------------------------------------------------------------------
(* The viewers of earlier outcomes are retired one by one.                 *)

Old == Head(cli.r.superseded)
OldDrawer == drawer[Old.bucket]

NoneToRetire ==
  /\ cli.r.superseded = <<>> /\ Go("retire", "rebind")
  /\ UNCHANGED receipt /\ KeepServer /\ KeepFiles /\ KeepWorld

EnsureOldDrawer ==
  /\ cli.r.superseded # <<>> /\ Go("retire", "close")
  /\ Ensure(Old.bucket)
  /\ UNCHANGED <<receipt, faults>> /\ KeepFiles /\ KeepWorld

CloseOldViewer ==
  /\ Go("close", "save") /\ Serves(Old.bucket)
  /\ drawer' = WithTab(Old.bucket, Old.token, "none")
  /\ UNCHANGED <<receipt, requests, writers, busy, faults>>
  /\ KeepFiles /\ KeepWorld

\* save-session is answered before the layout is written.
SaveOldDrawer ==
  /\ Go("save", "prove") /\ Serves(Old.bucket)
  /\ drawer' = Capture(Old.bucket)
  /\ UNCHANGED <<receipt, requests, writers, busy, faults>>
  /\ KeepFiles /\ KeepWorld

\* Mutant: the saved layout is not read.
MutSavedWithout(d, t) == d.up

\* verify_saved_layout_excludes_viewer, of the layout that is on disk
SavedWithout(d, t) == \E f \in d.saved : f[t] = "none"

\* ... and the tab is still not there.
ProveRetired ==
  /\ Go("prove", "drop")
  /\ SavedWithout(OldDrawer, Old.token)
  /\ Serves(Old.bucket) /\ OldDrawer.tab[Old.token] = "none"
  /\ UNCHANGED receipt /\ KeepServer /\ KeepFiles /\ KeepWorld

DropTombstone ==
  /\ Persist("drop", "retire",
             [cli.r EXCEPT !.superseded = Tail(@)])
  /\ KeepServer /\ KeepFiles /\ KeepWorld

-----------------------------------------------------------------------------
(* The run's own tab is closed.                                            *)

Captured == cli.r.evidence

\* validated_origin_tab_id: gone, or the only tab of its name
OriginIsSafe == Captured.tab \notin origin \/ origin = {Captured.tab}

\* rebind_origin_tab_identity: the session may have been restarted.
Rebind ==
  /\ Captured.tab = "no tab" \/ OriginIsSafe
  /\ IF Captured.tab \in origin /\ Captured.life # originLife
     THEN Persist("rebind", "closeOrigin",
                  [cli.r EXCEPT !.evidence.life = originLife])
     ELSE Go("rebind", "closeOrigin") /\ UNCHANGED receipt
  /\ KeepServer /\ KeepFiles /\ KeepWorld

\* Mutant: the tab is closed by its name.
MutCloseOrigin ==
  /\ Go("closeOrigin", "finish") /\ Cardinality(origin) <= 1
  /\ origin' = {}
  /\ UNCHANGED <<receipt, settled, originLife, damaged, done>>
  /\ KeepServer /\ KeepFiles

\* close_origin_tab: without a captured identity no tab may have the name.
CloseOrigin ==
  /\ Go("closeOrigin", "finish")
  /\ IF Captured.tab = "no tab" THEN origin = {}
     ELSE OriginIsSafe /\ (Captured.tab \in origin =>
                             Captured.life = originLife)
  /\ origin' = origin \ {Captured.tab}
  /\ UNCHANGED <<receipt, settled, originLife, damaged, done>>
  /\ KeepServer /\ KeepFiles

Finish ==
  /\ cli.at = "finish"
  /\ receipt' = cli.r /\ cli' = Idle /\ done' = cli.r.rev
  /\ UNCHANGED worldVars /\ KeepServer /\ KeepFiles

-----------------------------------------------------------------------------
(* Failures.                                                               *)

\* What makes a step fail for good, so that the transfer gives up.
Unreachable ==
  \/ cli.at \in {"lookup", "open", "await", "ready", "reopen"} /\ ~Here.up
  \/ cli.at \in {"close", "save", "prove"} /\ ~OldDrawer.up

\* Nobody is going to show the tab: the command was refused or rolled back.
Hopeless ==
  /\ cli.at = "await" /\ ~Shown /\ Request \notin requests
  /\ \A w \in writers : w.bucket # cli.r.bucket \/ w.token # cli.r.token

Fails ==
  \/ Unreachable \/ Hopeless
  \/ cli.at = "adopt" /\ \E e \in manifest :
       dest # {e.data} /\ IsStaged(e.data) /\ ~Intact(e.data)
  \/ CaptureIsLost /\ ~(HasTranscript /\ (cli.at = "dump" \/ cli.terminal))
  \/ cli.at = "await" /\ cli.again /\ Here.life # cli.life
  \/ cli.at = "ready" /\ cli.again /\ TabIsReady(FALSE)
  \/ cli.at = "reopen" /\ (Tab = "none" \/ Here.life # cli.life)
  \/ cli.at = "prove" /\ ~(SavedWithout(OldDrawer, Old.token)
                             /\ OldDrawer.tab[Old.token] = "none")
  \/ cli.at = "rebind" /\ Captured.tab # "no tab" /\ ~OriginIsSafe
  \/ cli.at = "closeOrigin" /\
       IF Captured.tab = "no tab" THEN origin # {}
       ELSE ~OriginIsSafe \/ (Captured.tab \in origin
                                /\ Captured.life # originLife)

\* fail_transfer: the receipt in memory is written with the fault.
FailTransfer ==
  /\ cli.at # "idle" /\ receipt' = cli.r /\ cli' = Idle
  /\ \/ Fails /\ UNCHANGED faults
     \/ ~Fails /\ Bounded /\ faults' = faults + 1
  /\ UNCHANGED serverVars /\ KeepFiles /\ KeepWorld

\* The process dies; the run's lock is released with it.
Crash ==
  /\ cli.at # "idle" /\ Bounded
  /\ cli' = Idle /\ faults' = faults + 1
  /\ UNCHANGED <<receipt, serverVars>> /\ KeepFiles /\ KeepWorld

-----------------------------------------------------------------------------
(* The rest of the world.                                                  *)

Settle(o) ==
  /\ Len(settled) < MaxSettled
  /\ settled' = Append(settled, o)
  /\ UNCHANGED <<receipt, cli, origin, originLife, damaged, done>>
  /\ KeepServer /\ KeepFiles

\* A file of the capture is lost or changed.
Damage ==
  /\ Bounded /\ faults' = faults + 1 /\ damaged' = TRUE
  /\ \/ dest # {} /\ dest' \in {{}, {0}} /\ UNCHANGED staged
     \/ \E f \in staged, e \in manifest :
          f.file = e.data /\ UNCHANGED dest /\
            (staged' = staged \ {f}
               \/ staged' = (staged \ {f}) \cup {[f EXCEPT !.data = 0]})
  /\ UNCHANGED <<receipt, serverVars, cli, manifest, metaFile, dumps,
                 settled, origin, originLife, done>>

\* Tabs of the run's name are closed and opened, or come back with a restart
\* of its session, which gives them a new incarnation.
OriginChanges ==
  /\ Bounded /\ faults' = faults + 1
  /\ \/ \E t \in origin : origin' = origin \ {t} /\ UNCHANGED originLife
     \/ \E t \in OriginTabs \ (origin \cup {First}) :
          origin' = origin \cup {t} /\ UNCHANGED originLife
     \/ origin' \in {origin, origin \cup {First}}
          /\ originLife' = originLife + 1
  /\ UNCHANGED <<receipt, serverVars, cli, settled, damaged, done>>
  /\ KeepFiles

-----------------------------------------------------------------------------
CaptureStep == AdoptCapture \/ StartCapture \/ CaptureTerminal
                 \/ CaptureTranscript \/ PutManifest \/ CommitCapture
                 \/ TerminalFails \/ RecordCapture
MetaStep == PutMeta \/ RecordMeta \/ KeepMeta
ViewerStep == EnsureDrawer \/ Lookup \/ Reserve \/ OpenTab \/ AwaitTab
                \/ FindReady \/ FindPending \/ ReserveAgain \/ RecoverTab
                \/ Confirm
RetireStep == NoneToRetire \/ EnsureOldDrawer \/ CloseOldViewer
                \/ SaveOldDrawer \/ ProveRetired \/ DropTombstone
OriginStep == Rebind \/ CloseOrigin \/ Finish
TransferStep == CaptureStep \/ MetaStep \/ ViewerStep \/ RetireStep
                  \/ OriginStep \/ FailTransfer

Others == UNCHANGED <<cli, fileVars, worldVars, done>>

Next ==
  \/ \E rev \in 1..MaxSettled : Begin(rev)
  \/ TransferStep
  \/ Crash
  \/ DrawerStep /\ Others
  \/ \E o \in Outcomes : Settle(o)
  \/ Damage
  \/ OriginChanges

Spec == Init /\ [][Next]_vars

(* The process goes on, whoever settled the run calls the transfer again    *)
(* until it succeeds, the server's threads handle their channels and a save *)
(* under way is written.                                                    *)
FairSpec ==
  /\ Spec
  /\ WF_vars(TransferStep)
  /\ SF_vars(done < Len(settled) /\ Begin(Len(settled)))
  /\ WF_vars((\E f \in requests : NewTab(f)) /\ Others)
  /\ WF_vars(WriterStep /\ Others)
  /\ \A b \in Buckets : WF_vars(SaveLands(b) /\ Others)

-----------------------------------------------------------------------------
(* Properties.                                                             *)

(* What the receipt says was captured is in the file, wherever the process  *)
(* died, unless somebody else changed the file.                             *)
CaptureKept ==
  receipt.captured /\ ~damaged => dest = {receipt.evidence.data}

\* A viewer tab is open, saved for resurrection or about to be saved.
Live(b, t) ==
  \/ drawer[b].tab[t] # "none"
  \/ \E f \in drawer[b].saved \cup drawer[b].saving : f[t] # "none"

\* It is the receipt's viewer, or has a tombstone in it.
Known(r, b, t) ==
  \/ b = r.bucket /\ t = r.token
  \/ \E i \in 1..Len(r.superseded) :
       r.superseded[i] = [bucket |-> b, token |-> t]

(* No viewer is forgotten: a viewer tab that is open, that is saved for     *)
(* resurrection or that is about to be saved is the one of the receipt or   *)
(* has a tombstone in it, whatever request, layout or save arrives late.    *)
NoOrphanViewer ==
  \A b \in Buckets, t \in Tokens : Live(b, t) => Known(receipt, b, t)

(* "the origin tab is closed only after the target tab has been read back   *)
(* and confirmed", and after the scrollback and the metadata of the outcome *)
(* are on disk; and only the captured tab is closed, never another one of   *)
(* the same name.                                                           *)
OriginClosedLast ==
  [][cli'.at # cli.at /\ origin' # origin =>
       /\ receipt.captured /\ receipt.meta /\ receipt.confirmed
       /\ receipt.superseded = <<>>
       /\ metaFile = {MetaOf(receipt)}
       /\ damaged \/ dest = {receipt.evidence.data}
       /\ origin \ origin' = {receipt.evidence.tab}]_vars

(* A transfer that succeeds leaves the run in one place: its metadata tells *)
(* the outcome of the revision, and no drawer has, or will restore, a viewer *)
(* other than the one in the drawer of that outcome: the caller's, if it gave *)
(* a verdict, and never "Failed runs" if it did not.                        *)
SuccessIsWhole ==
  [][done' # done \/ (cli.at = "finish" /\ cli'.at = "idle") =>
       LET o == settled[receipt'.rev]
       IN  /\ metaFile = {[code |-> o.code, bucket |-> Bucket(o),
                            data |-> receipt'.evidence.data]}
           /\ \A b \in Buckets, t \in Tokens :
                Live(b, t) => b = Bucket(o) /\ t = receipt'.token]_vars

(* A transfer that is called again and again succeeds for the newest        *)
(* outcome, through a crash, a restart or a failure anywhere, unless a tab  *)
(* that is not the captured one has the run's name, a capture that was not  *)
(* committed is damaged, or there is nothing left to capture.               *)
TransferSucceeds ==
  []<>(\/ done = Len(settled)
       \/ ~(origin \subseteq {First})
       \/ receipt.captured /\ receipt.evidence.tab = "no tab" /\ origin # {}
       \/ \E f \in staged : f.data = 0
       \/ origin = {} /\ ~receipt.captured /\ ~HasTranscript)

(* "Prove the reserved viewer has materialized its runtime layout, not only *)
(* its empty preallocated tab identity": what is confirmed shows the run.   *)
ConfirmedIsShown ==
  [][Confirm /\ Here.life = cli.life => Tab # "blank"]_vars

(* "A newer generation of the same durable viewer will reuse and heal this  *)
(* empty tab. Keep it pending so render GC cannot delete the stable         *)
(* identity between the two writers."                                       *)
HealedTabIsKept ==
  [][\A w \in writers : RejectLayout(w) =>
       \A v \in writers \ {w} :
         v.kind = "recovery" /\ IsCurrentWriter(v) /\ Verified(v) =>
           drawer'[v.bucket].tab[v.token] # "none"]_vars

=============================================================================
