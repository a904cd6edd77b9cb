-------------------------- MODULE RunTransfer_proofs --------------------------
(***************************************************************************)
(* Proofs about the transfer of a finished run and the drawers it writes.  *)
(***************************************************************************)
EXTENDS RunTransfer, TLAPS

LOCAL INSTANCE SequenceTheorems

-----------------------------------------------------------------------------
(* Types.                                                                  *)

(* The initial state has the declared types: nothing is open, saved or      *)
(* captured.                                                               *)
LEMMA InitTypes == Init => TypeOK
  <1>1. 1 \in Tokens
    BY SettledAssumption
  <1>2. NoReceipt \in Receipts
    <2>1. /\ FirstOutcome.code \in Nat /\ Bucket(FirstOutcome) \in Buckets
          /\ NoEvidence \in Evidence
      BY OutcomesAssumption, BucketsAssumption DEF NoEvidence, Evidence
    <2>2. <<>> \in Seq([bucket : Buckets, token : Tokens])
      OBVIOUS
    <2>q. QED
      BY <1>1, <2>1, <2>2 DEF NoReceipt, New, Receipts
  <1>3. NoTabs \in [Tokens -> TabStates]
    BY DEF NoTabs, TabStates
  <1> SUFFICES ASSUME Init PROVE TypeOK
    OBVIOUS
  <1>4. DrawerTypeOK
    BY <1>3 DEF Init, DrawerInit, DrawerTypeOK, Drawers
  <1>5. cli \in Transfers
    BY <1>2 DEF Init, Idle, Steps, NoEvidence, Evidence, Transfers
  <1>6. settled \in Seq(Outcomes)
    BY OutcomesAssumption DEF Init
  <1>7. receipt \in Receipts
    BY <1>2 DEF Init
  <1>8. /\ dest \subseteq Nat /\ staged \subseteq [file : Nat, data : Nat]
        /\ manifest \subseteq Evidence /\ metaFile \subseteq Metas
        /\ dumps \in Nat /\ originLife \in Nat /\ damaged \in BOOLEAN
        /\ done \in Nat /\ origin \subseteq OriginTabs
    BY FirstAssumption DEF Init
  <1>q. QED
    BY <1>4, <1>5, <1>6, <1>7, <1>8 DEF TypeOK

(* An outcome's receipt, a new one or one that is brought up to a changed   *)
(* outcome, is a receipt.                                                   *)
LEMMA NewType ==
  ASSUME NEW rev \in Nat, NEW o \in Outcomes
  PROVE  New(rev, o) \in Receipts
  <1>1. /\ 1 \in Tokens /\ o.code \in Nat /\ Bucket(o) \in Buckets
        /\ NoEvidence \in Evidence
    BY SettledAssumption, OutcomesAssumption, BucketsAssumption DEF NoEvidence, Evidence
  <1>2. <<>> \in Seq([bucket : Buckets, token : Tokens])
    OBVIOUS
  <1>q. QED
    BY <1>1, <1>2 DEF New, Receipts

\* A reclassified receipt is a receipt, if there is a token left for it.
LEMMA ReclassifiedType ==
  ASSUME NEW r \in Receipts, NEW rev \in Nat, NEW o \in Outcomes,
         r.token + 1 \in Tokens
  PROVE  Reclassified(r, rev, o) \in Receipts
  <1> DEFINE S == [bucket : Buckets, token : Tokens]
             new == [bucket |-> r.bucket, token |-> r.token]
  <1>1. new \in S /\ r.superseded \in Seq(S)
    BY DEF Receipts
  <1>2. Append(r.superseded, new) \in Seq(S)
    <2> HIDE DEF S, new
    <2>q. QED
      BY <1>1
  <1>3. Tombstone(r) \in Seq(S)
    BY <1>1, <1>2 DEF Tombstone
  <1>4. o.code \in Nat /\ Bucket(o) \in Buckets
    BY OutcomesAssumption, BucketsAssumption
  <1> HIDE DEF S, new
  <1> DEFINE q1 == [r EXCEPT !.rev = rev, !.code = o.code, !.bucket = Bucket(o)]
             q2 == [q1 EXCEPT !.meta = FALSE, !.confirmed = FALSE,
                              !.identity = 0, !.pending = FALSE]
             q3 == [q2 EXCEPT !.gen = @ + 1, !.token = @ + 1]
             q4 == [q3 EXCEPT !.superseded = Tombstone(r)]
  <1>5. q1 \in Receipts /\ q1.token = r.token
    BY <1>4 DEF Receipts
  <1> HIDE DEF q1
  <1>6. q2 \in Receipts /\ q2.token = r.token
    BY <1>5 DEF Receipts
  <1> HIDE DEF q2
  <1>7. q3 \in Receipts
    <2>1. q2.gen + 1 \in Nat /\ q2.token + 1 \in Tokens
      BY <1>6 DEF Receipts
    <2>2. q3 = [[q2 EXCEPT !.gen = q2.gen + 1] EXCEPT !.token = q2.token + 1]
      BY <1>6 DEF Receipts
    <2>q. QED
      BY <1>6, <2>1, <2>2 DEF Receipts
  <1> HIDE DEF q3
  <1>8. q4 \in Receipts
    BY <1>3, <1>7 DEF Receipts, S
  <1>9. q4 = Reclassified(r, rev, o)
    BY DEF Reclassified, q1, q2, q3
  <1>q. QED
    BY <1>8, <1>9

\* Checking the capture leaves a receipt.
LEMMA CheckCaptureType ==
  ASSUME NEW r \in Receipts
  PROVE  CheckCapture(r) \in Receipts
  BY DEF CheckCapture, Receipts, NoEvidence, Evidence

(* What the server does keeps the types of the drawers: a commit is of a    *)
(* writer that is still there, a restored tab has a state and a writer.     *)
LEMMA StartTypes ==
  ASSUME DrawerTypeOK, NEW b \in Buckets, Start(b)
  PROVE  /\ drawer' \in [Buckets -> Drawers]
         /\ writers' \subseteq Writers /\ busy' \subseteq writers'
  <1> DEFINE f == Restored(drawer[b])
             back == {t \in Tokens : f[t] # "none"}
             tabs == [t \in Tokens |-> IF t \in back THEN "pending" ELSE "none"]
             gens == [t \in Tokens |-> IF t \in back THEN 1 ELSE 0]
  <1>1. drawer[b] \in Drawers
    BY DEF DrawerTypeOK
  <1>2. f \in Layouts
    BY <1>1 DEF Restored, Drawers, NoTabs, Layouts
  <1>3. tabs \in [Tokens -> TabStates] /\ gens \in [Tokens -> Nat]
    BY DEF TabStates
  <1>4. drawer' = [drawer EXCEPT ![b] =
                    [up |-> TRUE, life |-> drawer[b].life + 1, tab |-> tabs,
                     local |-> gens, saved |-> drawer[b].saved, saving |-> {}]]
    BY DEF Start
  <1>5. drawer' \in [Buckets -> Drawers]
    <2> HIDE DEF tabs, gens
    <2>q. QED
      BY <1>1, <1>3, <1>4 DEF DrawerTypeOK, Drawers
  <1>6. writers' = writers \cup
          {[bucket |-> b, token |-> t, local |-> 1, gen |-> 0,
            kind |-> "new", makes |-> f[t]] : t \in back}
    BY DEF Start
  <1>7. \A t \in back : f[t] \in {"blank", "viewer"}
    BY <1>2 DEF Layouts
  <1>8. writers' \subseteq Writers
    BY <1>6, <1>7 DEF DrawerTypeOK, Writers
  <1>q. QED
    BY <1>5, <1>6, <1>8 DEF DrawerTypeOK, Start

\* A drawer whose tab changes stays one.
LEMMA WithTabType ==
  ASSUME drawer \in [Buckets -> Drawers],
         NEW b \in Buckets, NEW t \in Tokens, NEW state \in TabStates
  PROVE  WithTab(b, t, state) \in [Buckets -> Drawers]
  BY DEF WithTab, Drawers

\* A capture of a drawer's layout leaves a drawer.
LEMMA CaptureType ==
  ASSUME drawer \in [Buckets -> Drawers], NEW b \in Buckets
  PROVE  Capture(b) \in [Buckets -> Drawers]
  <1>1. drawer[b] \in Drawers
    OBVIOUS
  <1>2. Snapshot(drawer[b]) \in Layouts
    BY <1>1 DEF Snapshot, Layouts, Drawers, TabStates
  <1>q. QED
    BY <1>1, <1>2 DEF Capture, Drawers

\* The drawers' own steps keep the drawers' types and leave the receipt.
LEMMA DrawerStepTypes ==
  ASSUME DrawerTypeOK, DrawerStep
  PROVE  DrawerTypeOK' /\ receipt' = receipt
  <1> USE DEF DrawerTypeOK
  <1>0. \A w \in writers : w \in Writers
    OBVIOUS
  <1>1. ASSUME NEW f \in requests, NewTab(f) PROVE DrawerTypeOK' /\ receipt' = receipt
    <2>1. f.bucket \in Buckets /\ f.token \in Tokens /\ f.gen \in Nat
      BY DEF Requests
    <2>2. CASE ~Verified(f)
      BY <1>1, <2>2 DEF NewTab
    <2>3. CASE Verified(f)
      <3> DEFINE found == drawer[f.bucket].tab[f.token] # "none"
                 next == drawer[f.bucket].local[f.token] + 1
                 new == [bucket |-> f.bucket, token |-> f.token, local |-> next,
                         gen |-> f.gen, makes |-> "viewer",
                         kind |-> IF found THEN "recovery" ELSE "new"]
      <3>1. drawer[f.bucket] \in Drawers
        BY <2>1
      <3>2. next \in Nat
        BY <2>1, <3>1 DEF Drawers
      <3>3. new \in Writers
        BY <2>1, <3>2 DEF Writers
      <3>4. /\ drawer' = [drawer EXCEPT
                  ![f.bucket].local[f.token] = next,
                  ![f.bucket].tab[f.token] = IF found THEN @ ELSE "pending"]
            /\ writers' = writers \cup {new}
        BY <1>1, <2>3 DEF NewTab
      <3>5. drawer' \in [Buckets -> Drawers]
        <4> HIDE DEF next, found
        <4>1. [drawer EXCEPT ![f.bucket].local[f.token] = next]
                \in [Buckets -> Drawers]
          BY <2>1, <3>1, <3>2 DEF Drawers
        <4> DEFINE d1 == [drawer EXCEPT ![f.bucket].local[f.token] = next]
        <4>2. drawer' = [d1 EXCEPT ![f.bucket].tab[f.token] =
                                       IF found THEN @ ELSE "pending"]
          BY <3>4, <2>1, <3>1 DEF Drawers
        <4>3. d1 \in [Buckets -> Drawers]
          BY <4>1
        <4> HIDE DEF d1
        <4>4. d1[f.bucket] \in Drawers
          BY <4>3, <2>1
        <4>q. QED
          BY <2>1, <4>2, <4>3, <4>4 DEF Drawers, TabStates
      <3>q. QED
        BY <1>1, <3>3, <3>4, <3>5 DEF NewTab
    <2>q. QED
      BY <2>2, <2>3
  <1>2. ASSUME NEW w \in writers, ApplyLayout(w) PROVE DrawerTypeOK' /\ receipt' = receipt
    BY <1>2 DEF ApplyLayout
  <1>3. ASSUME NEW w \in writers, CommitLayout(w) PROVE DrawerTypeOK' /\ receipt' = receipt
    <2>1. drawer' \in [Buckets -> Drawers]
      BY <1>0, <1>3, WithTabType DEF CommitLayout, Writers, TabStates
    <2>q. QED
      BY <1>3, <2>1 DEF CommitLayout
  <1>4. ASSUME NEW w \in writers
        PROVE  /\ Discarded(w) \in [Buckets -> Drawers]
               /\ WithTab(w.bucket, w.token, "none") \in [Buckets -> Drawers]
    BY <1>0, WithTabType DEF Discarded, Writers, TabStates
  <1>5. ASSUME NEW w \in writers, RejectLayout(w) PROVE DrawerTypeOK' /\ receipt' = receipt
    BY <1>4, <1>5 DEF RejectLayout
  <1>6. ASSUME NEW w \in writers, PreparationFails(w) PROVE DrawerTypeOK' /\ receipt' = receipt
    BY <1>4, <1>6 DEF PreparationFails
  <1>7. ASSUME NEW w \in writers, ActivationFails(w) PROVE DrawerTypeOK' /\ receipt' = receipt
    BY <1>4, <1>7 DEF ActivationFails
  <1>8. ASSUME NEW b \in Buckets, OthersStart(b) PROVE DrawerTypeOK' /\ receipt' = receipt
    BY <1>8, StartTypes DEF OthersStart, Start
  <1>9. ASSUME NEW b \in Buckets, ServerCrash(b) PROVE DrawerTypeOK' /\ receipt' = receipt
    <2>1. NoTabs \in [Tokens -> TabStates] /\ [t \in Tokens |-> 0] \in [Tokens -> Nat]
      BY DEF NoTabs, TabStates
    <2> DEFINE none == [t \in Tokens |-> 0]
               d == [drawer[b] EXCEPT !.up = FALSE, !.tab = NoTabs,
                                      !.local = none, !.saving = {}]
    <2>3. drawer' = [drawer EXCEPT ![b] = d]
      BY <1>9 DEF ServerCrash
    <2>4. d \in Drawers
      <3> HIDE DEF none
      <3>1. drawer[b] \in Drawers
        OBVIOUS
      <3>q. QED
        BY <2>1, <3>1 DEF Drawers, none
    <2>2. drawer' \in [Buckets -> Drawers]
      <3> HIDE DEF d
      <3>q. QED
        BY <2>3, <2>4
    <2>q. QED
      BY <1>9, <2>2 DEF ServerCrash
  <1>10. ASSUME NEW b \in Buckets, TimerSave(b) PROVE DrawerTypeOK' /\ receipt' = receipt
    BY <1>10, CaptureType DEF TimerSave
  <1>11. ASSUME NEW b \in Buckets, SaveLands(b) PROVE DrawerTypeOK' /\ receipt' = receipt
    <2>1. drawer' \in [Buckets -> Drawers]
      BY <1>11 DEF SaveLands, Drawers
    <2>q. QED
      BY <1>11, <2>1 DEF SaveLands
  <1>12. ASSUME NEW b \in Buckets, NEW t \in Tokens, UserClosesViewer(b, t)
         PROVE  DrawerTypeOK' /\ receipt' = receipt
    BY <1>12, WithTabType DEF UserClosesViewer, TabStates
  <1>q. QED
    BY <1>1, <1>2, <1>3, <1>5, <1>6, <1>7, <1>8, <1>9, <1>10, <1>11, <1>12
       DEF DrawerStep, WriterStep

(* The receipt counts: a viewer token is drawn for a later settlement only, *)
(* so that tokens never run out before settlements do.                      *)
Numbered(r) == r.rev <= Len(settled) /\ (r.token = 1 \/ r.token <= r.rev)

\* Where a transfer is when it has a viewer to retire.
Retiring == {"close", "save", "prove", "drop"}

TypeInv ==
  /\ TypeOK
  /\ Len(settled) <= MaxSettled
  /\ Numbered(receipt) /\ Numbered(cli.r)
  /\ cli.at \in Retiring => cli.r.superseded # <<>>

(* Beginning a transfer keeps the types: the token of a changed outcome is  *)
(* one of the tokens.                                                       *)
LEMMA BeginTypes ==
  ASSUME TypeInv, NEW rev \in Nat, Begin(rev)
  PROVE  /\ receipt' \in Receipts /\ cli' \in Transfers
         /\ Numbered(receipt') /\ Numbered(cli'.r)
         /\ cli'.at \notin Retiring
  <1> DEFINE o == settled[rev]
             base == IF receipt.rev = 0 THEN New(rev, o) ELSE receipt
             r == IF rev = base.rev THEN base
                  ELSE IF Changed(base, o) THEN Reclassified(base, rev, o)
                  ELSE [base EXCEPT !.rev = rev]
             c == CheckCapture(r)
  <1>1. /\ rev \in 1..Len(settled) /\ receipt.rev <= rev /\ o \in Outcomes
        /\ receipt \in Receipts /\ Len(settled) \in Nat
    BY DEF Begin, TypeInv, TypeOK
  <1>2. base \in Receipts /\ base.rev <= rev /\ base.rev \in Nat \ {0}
        /\ (base.token = 1 \/ base.token <= base.rev)
    <2>1. CASE receipt.rev = 0
      BY <1>1, <2>1, NewType DEF New
    <2>2. CASE receipt.rev # 0
      BY <1>1, <2>2 DEF TypeInv, Numbered, Receipts
    <2>q. QED
      BY <2>1, <2>2
  <1>3. r \in Receipts /\ r.rev = rev /\ (r.token = 1 \/ r.token <= rev)
    <2> HIDE DEF base, o
    <2>0. base.token \in Nat
      BY <1>2, TokensAssumption DEF Receipts
    <2>1. CASE rev = base.rev
      BY <1>2, <2>1
    <2>2. CASE rev # base.rev /\ ~Changed(base, o)
      <3>1. r = [base EXCEPT !.rev = rev]
        BY <2>2
      <3>2. [base EXCEPT !.rev = rev] \in Receipts
        BY <1>1, <1>2 DEF Receipts
      <3>3. /\ [base EXCEPT !.rev = rev].rev = rev
            /\ [base EXCEPT !.rev = rev].token = base.token
        BY <1>2 DEF Receipts
      <3> HIDE DEF r
      <3>q. QED
        BY <1>1, <1>2, <2>0, <3>1, <3>2, <3>3
    <2>3. CASE rev # base.rev /\ Changed(base, o)
      <3>1. r = Reclassified(base, rev, o)
        BY <2>3
      <3>2. base.token + 1 <= rev /\ base.token + 1 >= 1
        BY <1>1, <1>2, <2>0, <2>3
      <3>3. base.token + 1 \in Tokens
        BY <1>1, <2>0, <3>2, SettledAssumption DEF TypeInv
      <3>4. r \in Receipts
        BY <1>1, <1>2, <3>1, <3>3, ReclassifiedType
      <3>5. r.rev = rev /\ r.token = base.token + 1
        BY <1>2, <3>1 DEF Reclassified, Receipts
      <3>q. QED
        BY <3>2, <3>4, <3>5
    <2>q. QED
      BY <2>1, <2>2, <2>3
  <1>4. c \in Receipts /\ c.rev = rev /\ (c.token = 1 \/ c.token <= rev)
    <2> HIDE DEF r
    <2>q. QED
      BY <1>3, CheckCaptureType DEF CheckCapture, Receipts
  <1>5. receipt' = (IF rev > base.rev THEN r ELSE receipt)
        /\ cli' = [Idle EXCEPT !.at = IF c.captured THEN "meta" ELSE "adopt",
                               !.r = c]
    BY DEF Begin
  <1>6. settled' = settled
    BY DEF Begin, KeepWorld, worldVars
  <1> HIDE DEF r, c, base
  <1>7. receipt' \in Receipts /\ Numbered(receipt')
    BY <1>1, <1>3, <1>5 DEF TypeInv, Numbered
  <1>8. cli'.r = c /\ cli' \in Transfers /\ cli'.at \notin Retiring
    BY <1>4, <1>5 DEF Idle, Transfers, NoEvidence, Evidence, Steps, Retiring
  <1>q. QED
    BY <1>1, <1>4, <1>7, <1>8 DEF Numbered

(* A step that writes the receipt, or changes it in memory, keeps its type  *)
(* when the new receipt is one.                                             *)
LEMMA StepTypes ==
  ASSUME cli \in Transfers, NEW from, NEW to \in Steps, NEW r \in Receipts,
         Step(from, to, r)
  PROVE  cli' \in Transfers /\ cli'.r = r /\ cli'.at = to
  BY DEF Step, Transfers

\* The parts of a step's types that most steps leave alone.
SameDrawers == UNCHANGED <<drawer, requests, writers, busy, faults>>
SameFiles == UNCHANGED <<dest, staged, manifest, metaFile, dumps>>
SameWorld == UNCHANGED <<settled, origin, originLife, damaged, done>>

\* What a step leaves alone, variable by variable.
LEMMA KeepAll ==
  /\ KeepServer <=> SameDrawers
  /\ KeepFiles <=> SameFiles
  /\ KeepWorld <=> SameWorld
  BY DEF KeepServer, KeepFiles, KeepWorld, SameDrawers, SameFiles, SameWorld,
         serverVars, fileVars, worldVars

\* A step of the transfer that leaves the drawers to the server.
LEMMA QuietTypes ==
  ASSUME TypeInv, SameDrawers, SameWorld,
         receipt' \in Receipts, cli' \in Transfers,
         Numbered(receipt'), Numbered(cli'.r),
         cli'.at \in Retiring => cli'.r.superseded # <<>>,
         dest' \subseteq Nat, staged' \subseteq [file : Nat, data : Nat],
         manifest' \subseteq Evidence, metaFile' \subseteq Metas,
         dumps' \in Nat
  PROVE  TypeInv'
  BY DEF TypeInv, TypeOK, DrawerTypeOK, SameDrawers, SameWorld, Numbered

\* A renamed staging file leaves files.
LEMMA MoveStagedTypes ==
  ASSUME staged \subseteq [file : Nat, data : Nat], NEW n \in Nat, MoveStaged(n)
  PROVE  dest' \subseteq Nat /\ staged' \subseteq [file : Nat, data : Nat]
  BY DEF MoveStaged

\* The steps of the capture keep the types.
LEMMA CaptureStepTypes ==
  ASSUME TypeInv, CaptureStep
  PROVE  TypeInv'
  <1> USE KeepAll
  <1>0. /\ cli \in Transfers /\ receipt \in Receipts /\ cli.r \in Receipts
        /\ cli.dump \in Evidence /\ manifest \subseteq Evidence
        /\ dest \subseteq Nat /\ staged \subseteq [file : Nat, data : Nat]
        /\ metaFile \subseteq Metas /\ dumps \in Nat /\ cli.dump.data \in Nat
        /\ Numbered(receipt) /\ Numbered(cli.r)
    BY DEF TypeInv, TypeOK, Transfers, Evidence
  <1>n. ASSUME SameWorld PROVE \A r : Numbered(r)' <=> Numbered(r)
    BY <1>n DEF SameWorld, Numbered
  <1>1. CASE AdoptCapture
    <2>1. PICK e \in manifest : AdoptCapture!2!(e)
      BY <1>1 DEF AdoptCapture
    <2>2. cli' \in Transfers /\ cli'.r = cli.r /\ cli'.at \notin Retiring
      BY <1>0, <2>1 DEF Transfers, Steps, Retiring
    <2>3. e.data \in Nat
      BY <1>0 DEF Evidence
    <2>4. dest' \subseteq Nat /\ staged' \subseteq [file : Nat, data : Nat]
      BY <1>0, <2>1, <2>3, MoveStagedTypes
    <2>q. QED
      BY <1>0, <1>1, <1>n, <2>2, <2>4, QuietTypes DEF AdoptCapture
  <1>2. CASE StartCapture
    <2>1. cli' \in Transfers /\ cli'.r = cli.r /\ cli'.at \notin Retiring
      BY <1>0, <1>2 DEF StartCapture, Go, Step, Transfers, Steps, Retiring
    <2>q. QED
      BY <1>0, <1>2, <1>n, <2>1, QuietTypes DEF StartCapture
  <1>3. ASSUME NEW from, NEW terminal \in BOOLEAN, NEW identity,
               identity.tab \in OriginTabs \cup {"no tab"}, identity.life \in Nat,
               Dump(from, terminal, identity)
        PROVE  TypeInv'
    <2>0. dumps' = dumps + 1
      BY <1>3 DEF Dump
    <2>1. dumps' \in Nat
      BY <1>0, <2>0
    <2> DEFINE e == [data |-> dumps', tab |-> identity.tab,
                     life |-> identity.life]
               f == [file |-> dumps', data |-> dumps']
    <2>2. e \in Evidence /\ f \in [file : Nat, data : Nat]
      BY <1>3, <2>1 DEF Evidence
    <2>5. /\ cli' = [cli EXCEPT !.at = "manifest", !.terminal = terminal,
                                !.dump = e]
          /\ staged' = staged \cup {f}
      BY <1>3 DEF Dump
    <2> HIDE DEF e, f
    <2>3. cli' \in Transfers /\ cli'.r = cli.r /\ cli'.at \notin Retiring
      BY <1>0, <2>2, <2>5 DEF Transfers, Steps, Retiring
    <2>4. staged' \subseteq [file : Nat, data : Nat]
      BY <1>0, <2>2, <2>5
    <2>q. QED
      BY <1>0, <1>3, <1>n, <2>1, <2>3, <2>4, QuietTypes DEF Dump
  <1>4. /\ OriginIdentity.tab \in OriginTabs \cup {"no tab"}
        /\ OriginIdentity.life \in Nat
    BY DEF OriginIdentity, TypeInv, TypeOK
  <1>5. CASE CaptureTerminal
    BY <1>3, <1>4, <1>5 DEF CaptureTerminal
  <1>6. CASE CaptureTranscript
    BY <1>0, <1>3, <1>6 DEF CaptureTranscript, Evidence
  <1>7. CASE PutManifest
    <2>1. cli' \in Transfers /\ cli'.r = cli.r /\ cli'.at \notin Retiring
      BY <1>0, <1>7 DEF PutManifest, Go, Step, Transfers, Steps, Retiring
    <2>q. QED
      BY <1>0, <1>7, <1>n, <2>1, QuietTypes DEF PutManifest
  <1>8. CASE CommitCapture
    <2>1. cli' \in Transfers /\ cli'.r = cli.r /\ cli'.at \notin Retiring
      BY <1>0, <1>8 DEF CommitCapture, Transfers, Steps, Retiring
    <2>2. dest' \subseteq Nat /\ staged' \subseteq [file : Nat, data : Nat]
      BY <1>0, <1>8, MoveStagedTypes DEF CommitCapture
    <2>q. QED
      BY <1>0, <1>8, <1>n, <2>1, <2>2, QuietTypes DEF CommitCapture
  <1>9. CASE TerminalFails
    <2>1. cli' \in Transfers /\ cli'.r = cli.r /\ cli'.at \notin Retiring
      <3> DEFINE e == IF cli.at = "dump"
                      THEN [data |-> 0, tab |-> OriginIdentity.tab,
                            life |-> OriginIdentity.life]
                      ELSE cli.dump
      <3>1. e \in Evidence
        BY <1>0, <1>4 DEF Evidence
      <3>2. cli' = [cli EXCEPT !.at = "transcript", !.dump = e]
        BY <1>0, <1>9 DEF TerminalFails, Transfers
      <3> HIDE DEF e
      <3>q. QED
        BY <1>0, <3>1, <3>2 DEF Transfers, Steps, Retiring
    <2>2. /\ UNCHANGED <<receipt, drawer, requests, writers, busy>>
          /\ SameFiles /\ SameWorld /\ faults' \in Nat
      BY <1>9 DEF TerminalFails, serverVars, TypeInv, TypeOK, DrawerTypeOK
    <2>q. QED
      BY <1>0, <1>n, <2>1, <2>2
         DEF TypeInv, TypeOK, DrawerTypeOK, SameFiles, SameWorld
  <1>10. CASE RecordCapture
    <2> DEFINE r == [cli.r EXCEPT !.evidence = cli.dump, !.captured = TRUE,
                                  !.meta = FALSE]
    <2>1. r \in Receipts /\ (Numbered(cli.r) => Numbered(r))
      BY <1>0 DEF Receipts, Numbered
    <2>2. Step("record", "meta", r) /\ receipt' = r
      BY <1>10 DEF RecordCapture, Persist
    <2> HIDE DEF r
    <2>3. cli' \in Transfers /\ cli'.r = r /\ cli'.at \notin Retiring
      BY <1>0, <2>1, <2>2, StepTypes DEF Steps, Retiring
    <2>q. QED
      BY <1>0, <1>10, <1>n, <2>1, <2>2, <2>3, QuietTypes DEF RecordCapture, SameFiles
  <1>q. QED
    BY <1>1, <1>2, <1>5, <1>6, <1>7, <1>8, <1>9, <1>10 DEF CaptureStep

\* A step that changes the receipt in memory only, or writes it too.
LEMMA ReceiptStepTypes ==
  ASSUME TypeInv, SameDrawers, SameFiles, SameWorld,
         NEW from, NEW to \in Steps, NEW r \in Receipts, Numbered(r),
         Step(from, to, r), receipt' = receipt \/ receipt' = r,
         to \in Retiring => r.superseded # <<>>
  PROVE  TypeInv'
  <1>1. cli' \in Transfers /\ cli'.r = r /\ cli'.at = to
    BY StepTypes DEF TypeInv, TypeOK
  <1>q. QED
    BY <1>1, QuietTypes DEF TypeInv, TypeOK, SameFiles, SameWorld, Numbered

\* The steps of the metadata keep the types.
LEMMA MetaStepTypes ==
  ASSUME TypeInv, MetaStep
  PROVE  TypeInv'
  <1> USE KeepAll
  <1>0. /\ cli \in Transfers /\ cli.r \in Receipts /\ Numbered(cli.r)
        /\ metaFile \subseteq Metas /\ dest \subseteq Nat
        /\ staged \subseteq [file : Nat, data : Nat]
        /\ manifest \subseteq Evidence /\ dumps \in Nat /\ receipt \in Receipts
        /\ Numbered(receipt)
    BY DEF TypeInv, TypeOK, Transfers
  <1>1. CASE PutMeta
    <2> DEFINE r == [cli.r EXCEPT !.meta = FALSE]
    <2>1. r \in Receipts /\ Numbered(r)
      BY <1>0 DEF Receipts, Numbered
    <2>2. Step("meta", "recordMeta", r)
      BY <1>1 DEF PutMeta
    <2> HIDE DEF r
    <2>3. cli' \in Transfers /\ cli'.r = r /\ cli'.at \notin Retiring
      BY <1>0, <2>1, <2>2, StepTypes DEF Steps, Retiring
    <2>4. MetaOf(cli.r) \in Metas
      BY <1>0 DEF MetaOf, Metas, Receipts, Evidence
    <2>5. Numbered(receipt') /\ Numbered(cli'.r)
      BY <1>0, <1>1, <2>1, <2>3 DEF PutMeta, SameWorld, Numbered
    <2>q. QED
      BY <1>0, <1>1, <2>3, <2>4, <2>5, QuietTypes DEF PutMeta
  <1>2. CASE RecordMeta
    <2>1. [cli.r EXCEPT !.meta = TRUE] \in Receipts
          /\ Numbered([cli.r EXCEPT !.meta = TRUE])
      BY <1>0 DEF Receipts, Numbered
    <2>q. QED
      BY <1>2, <2>1, ReceiptStepTypes DEF RecordMeta, Persist, Steps, Retiring
  <1>3. CASE KeepMeta
    BY <1>0, <1>3, ReceiptStepTypes DEF KeepMeta, Go, Steps, Retiring
  <1>q. QED
    BY <1>1, <1>2, <1>3 DEF MetaStep

\* A step of the transfer that acts on the drawers.
LEMMA ServerStepTypes ==
  ASSUME TypeInv, DrawerTypeOK', SameFiles, SameWorld,
         receipt' = receipt, cli' \in Transfers, Numbered(cli'.r),
         cli'.at \in Retiring => cli'.r.superseded # <<>>
  PROVE  TypeInv'
  BY DEF TypeInv, TypeOK, SameFiles, SameWorld, Numbered

\* A drawer that is brought up has its type.
LEMMA EnsureTypes ==
  ASSUME DrawerTypeOK, NEW b \in Buckets, Ensure(b), faults' = faults
  PROVE  DrawerTypeOK'
  <1>1. CASE Start(b)
    BY <1>1, StartTypes DEF Start, DrawerTypeOK
  <1>2. CASE UNCHANGED serverVars
    BY <1>2 DEF serverVars, DrawerTypeOK
  <1>q. QED
    BY <1>1, <1>2 DEF Ensure

\* The steps of the viewer keep the types.
LEMMA ViewerStepTypes ==
  ASSUME TypeInv, ViewerStep
  PROVE  TypeInv'
  <1> USE KeepAll
  <1>00. /\ cli \in Transfers /\ cli.r \in Receipts /\ Numbered(cli.r)
         /\ DrawerTypeOK /\ drawer \in [Buckets -> Drawers]
    BY DEF TypeInv, TypeOK, Transfers, DrawerTypeOK
  <1>01. /\ cli.life \in Nat /\ cli.r.bucket \in Buckets
         /\ cli.r.token \in Tokens /\ cli.r.gen \in Nat
    BY <1>00 DEF Transfers, Receipts
  <1>0. /\ cli \in Transfers /\ cli.r \in Receipts /\ Numbered(cli.r)
        /\ cli.life \in Nat /\ DrawerTypeOK /\ cli.r.bucket \in Buckets
        /\ cli.r.token \in Tokens /\ cli.r.gen \in Nat
        /\ cli.r.gen + 1 \in Nat /\ Here.life \in Nat
    BY <1>00, <1>01 DEF Here, Drawers
  <1>n. ASSUME SameWorld PROVE \A r : Numbered(r)' <=> Numbered(r)
    BY <1>n DEF SameWorld, Numbered
  <1>1. CASE EnsureDrawer
    <2> DEFINE r == [cli.r EXCEPT !.confirmed = FALSE]
    <2>1. r \in Receipts /\ Numbered(r)
      BY <1>0 DEF Receipts, Numbered
    <2>2. Step("ensure", "lookup", r)
      BY <1>1 DEF EnsureDrawer
    <2> HIDE DEF r
    <2>3. cli' \in Transfers /\ cli'.r = r /\ cli'.at \notin Retiring
      BY <1>0, <2>1, <2>2, StepTypes DEF Steps, Retiring
    <2>4. DrawerTypeOK'
      BY <1>0, <1>1, EnsureTypes DEF EnsureDrawer
    <2>q. QED
      BY <1>1, <2>1, <2>3, <2>4, ServerStepTypes DEF EnsureDrawer
  <1>2. CASE Lookup \/ AwaitTab
    <2>1. cli' \in Transfers /\ cli'.r = cli.r /\ cli'.at \notin Retiring
      BY <1>0, <1>2 DEF Lookup, AwaitTab, Transfers, Steps, Retiring
    <2>2. SameDrawers /\ SameFiles /\ SameWorld /\ receipt' = receipt
      BY <1>2 DEF Lookup, AwaitTab
    <2>q. QED
      BY <1>0, <2>1, <2>2, ServerStepTypes DEF SameDrawers, DrawerTypeOK
  <1>3. CASE Reserve
    <2> DEFINE r == [cli.r EXCEPT !.identity = 0, !.pending = TRUE, !.gen = @ + 1]
    <2>1. r \in Receipts /\ Numbered(r)
      BY <1>0 DEF Receipts, Numbered
    <2>2. Step("reserve", "open", r) /\ receipt' = r
      BY <1>3 DEF Reserve, Persist
    <2> HIDE DEF r
    <2>q. QED
      BY <1>3, <2>1, <2>2, ReceiptStepTypes DEF Reserve, Steps, Retiring
  <1>4. CASE OpenTab \/ RecoverTab
    <2>1. PICK from : SendRequest(from)
      BY <1>4 DEF OpenTab, RecoverTab
    <2>2. cli' \in Transfers /\ cli'.r = cli.r /\ cli'.at \notin Retiring
      BY <1>0, <2>1 DEF SendRequest, Go, Step, Transfers, Steps, Retiring
    <2>3. DrawerTypeOK'
      BY <1>0, <2>1 DEF SendRequest, DrawerTypeOK, Requests, Request
    <2>q. QED
      BY <1>0, <2>1, <2>2, <2>3, ServerStepTypes DEF SendRequest
  <1>5. CASE FindReady \/ FindPending
    BY <1>0, <1>5, ReceiptStepTypes DEF FindReady, FindPending, Go, Steps, Retiring
  <1>6. CASE ReserveAgain
    <2> DEFINE r == [cli.r EXCEPT !.identity = cli.life, !.pending = TRUE,
                                  !.gen = @ + 1]
    <2>1. r \in Receipts /\ Numbered(r)
      BY <1>0 DEF Receipts, Numbered
    <2>2. receipt' = r /\ cli' = [cli EXCEPT !.at = "reopen", !.r = receipt',
                                             !.again = TRUE]
      BY <1>6 DEF ReserveAgain
    <2> HIDE DEF r
    <2>3. cli' \in Transfers /\ cli'.r = r /\ cli'.at \notin Retiring
      BY <1>0, <2>1, <2>2 DEF Transfers, Steps, Retiring
    <2>4. SameDrawers /\ SameFiles /\ SameWorld
      BY <1>6 DEF ReserveAgain
    <2>q. QED
      BY <1>n, <2>1, <2>2, <2>3, <2>4, QuietTypes DEF SameFiles, TypeInv, TypeOK
  <1>7. CASE Confirm
    <2> DEFINE r == [cli.r EXCEPT !.identity = cli.life, !.pending = FALSE,
                                  !.confirmed = TRUE]
    <2>1. r \in Receipts /\ Numbered(r)
      BY <1>0 DEF Receipts, Numbered
    <2>2. Step("confirm", "retire", r) /\ receipt' = r
      BY <1>7 DEF Confirm, Persist
    <2> HIDE DEF r
    <2>q. QED
      BY <1>7, <2>1, <2>2, ReceiptStepTypes DEF Confirm, Steps, Retiring
  <1>q. QED
    BY <1>1, <1>2, <1>3, <1>4, <1>5, <1>6, <1>7 DEF ViewerStep

\* The steps of a retirement keep the types; there is a viewer to retire.
LEMMA RetireStepTypes ==
  ASSUME TypeInv, RetireStep
  PROVE  TypeInv'
  <1> USE KeepAll
  <1> DEFINE V == [bucket : Buckets, token : Tokens]
  <1>0. /\ cli \in Transfers /\ cli.r \in Receipts /\ Numbered(cli.r)
        /\ DrawerTypeOK /\ cli.r.superseded \in Seq(V)
    BY DEF TypeInv, TypeOK, Transfers, Receipts
  <1>n. ASSUME SameWorld PROVE \A r : Numbered(r)' <=> Numbered(r)
    BY <1>n DEF SameWorld, Numbered
  <1>o. ASSUME cli.r.superseded # <<>> PROVE Old \in V
    <2> HIDE DEF V
    <2>q. QED
      BY <1>0, <1>o DEF Old
  <1>s. cli.at \in Retiring => cli.r.superseded # <<>>
    BY DEF TypeInv
  <1>1. CASE NoneToRetire
    BY <1>0, <1>1, ReceiptStepTypes DEF NoneToRetire, Go, Steps, Retiring
  <1>2. CASE EnsureOldDrawer
    <2>1. cli' \in Transfers /\ cli'.r = cli.r
      BY <1>0, <1>2 DEF EnsureOldDrawer, Go, Step, Transfers, Steps
    <2>2. DrawerTypeOK'
      BY <1>0, <1>2, <1>o, EnsureTypes DEF EnsureOldDrawer
    <2>q. QED
      BY <1>0, <1>2, <1>n, <2>1, <2>2, ServerStepTypes DEF EnsureOldDrawer
  <1>3. CASE CloseOldViewer \/ SaveOldDrawer
    <2>0. cli.at \in {"close", "save"} /\ Old \in V
      BY <1>3, <1>o, <1>s DEF CloseOldViewer, SaveOldDrawer, Go, Step, Retiring
    <2>1. cli' \in Transfers /\ cli'.r = cli.r
      BY <1>0, <1>3 DEF CloseOldViewer, SaveOldDrawer, Go, Step, Transfers, Steps
    <2>2. drawer' \in [Buckets -> Drawers]
      BY <1>0, <1>3, <2>0, WithTabType, CaptureType
         DEF CloseOldViewer, SaveOldDrawer, DrawerTypeOK, TabStates
    <2>3. DrawerTypeOK'
      BY <1>0, <1>3, <2>2 DEF CloseOldViewer, SaveOldDrawer, DrawerTypeOK
    <2>4. SameFiles /\ SameWorld /\ receipt' = receipt
      BY <1>3 DEF CloseOldViewer, SaveOldDrawer
    <2>q. QED
      BY <1>0, <1>n, <1>s, <2>0, <2>1, <2>3, <2>4, ServerStepTypes DEF Retiring
  <1>4. CASE ProveRetired
    <2>1. Step("prove", "drop", cli.r) /\ cli.at = "prove"
      BY <1>4 DEF ProveRetired, Go, Step
    <2>q. QED
      BY <1>0, <1>4, <1>s, <2>1, ReceiptStepTypes DEF ProveRetired, Steps, Retiring
  <1>5. CASE DropTombstone
    <2> DEFINE r == [cli.r EXCEPT !.superseded = Tail(@)]
    <2>1. Step("drop", "retire", r) /\ receipt' = r /\ cli.at = "drop"
      BY <1>5 DEF DropTombstone, Persist, Step
    <2>2. Tail(cli.r.superseded) \in Seq(V)
      <3> HIDE DEF V
      <3>q. QED
        BY <1>0, <1>s, <2>1 DEF Retiring
    <2>3. r \in Receipts /\ Numbered(r)
      BY <1>0, <2>2 DEF Receipts, Numbered
    <2> HIDE DEF r
    <2>q. QED
      BY <1>5, <2>1, <2>3, ReceiptStepTypes DEF DropTombstone, Steps, Retiring
  <1>q. QED
    BY <1>1, <1>2, <1>3, <1>4, <1>5 DEF RetireStep

\* A process that ended keeps the types.
LEMMA IdleTypes ==
  /\ Idle \in Transfers /\ Idle.r \in Receipts /\ Idle.at \notin Retiring
  /\ Idle.r.rev = 0 /\ Idle.r.token = 1
  <1>1. NoReceipt \in Receipts /\ NoReceipt.rev = 0 /\ NoReceipt.token = 1
    BY NewType, OutcomesAssumption DEF NoReceipt, New
  <1>q. QED
    BY <1>1 DEF Idle, Transfers, Steps, NoEvidence, Evidence, Retiring

\* The last steps keep the types.
LEMMA OriginStepTypes ==
  ASSUME TypeInv, OriginStep
  PROVE  TypeInv'
  <1> USE KeepAll
  <1>0. /\ cli \in Transfers /\ cli.r \in Receipts /\ Numbered(cli.r)
        /\ DrawerTypeOK /\ cli.r.evidence \in Evidence /\ originLife \in Nat
    BY DEF TypeInv, TypeOK, Transfers, Receipts
  <1>1. CASE Rebind
    <2> DEFINE r == [cli.r EXCEPT !.evidence.life = originLife]
    <2>1. r \in Receipts /\ Numbered(r)
      <3>1. r = [cli.r EXCEPT !.evidence = [cli.r.evidence EXCEPT !.life = originLife]]
        BY <1>0 DEF Receipts
      <3>2. [cli.r.evidence EXCEPT !.life = originLife] \in Evidence
        BY <1>0 DEF Evidence
      <3> HIDE DEF r
      <3>q. QED
        BY <1>0, <3>1, <3>2 DEF Receipts, Numbered
    <2>2. \/ Step("rebind", "closeOrigin", r) /\ receipt' = r
          \/ Step("rebind", "closeOrigin", cli.r) /\ receipt' = receipt
      BY <1>1 DEF Rebind, Persist, Go
    <2> HIDE DEF r
    <2>q. QED
      BY <1>0, <1>1, <2>1, <2>2, ReceiptStepTypes DEF Rebind, Steps, Retiring
  <1>2. CASE CloseOrigin
    <2>1. cli' \in Transfers /\ cli'.r = cli.r /\ cli'.at \notin Retiring
      BY <1>0, <1>2 DEF CloseOrigin, Go, Step, Transfers, Steps, Retiring
    <2>q. QED
      BY <1>0, <1>2, <2>1
         DEF CloseOrigin, SameDrawers, SameFiles, TypeInv, TypeOK, DrawerTypeOK,
             Numbered
  <1>4. CASE Finish
    <2>1. /\ SameDrawers /\ SameFiles /\ receipt' = cli.r /\ cli' = Idle
          /\ done' = cli.r.rev
          /\ UNCHANGED <<settled, origin, originLife, damaged>>
      BY <1>4 DEF Finish, worldVars
    <2>2. Len(settled) \in Nat /\ cli.r.rev \in Nat
      BY <1>0 DEF TypeInv, TypeOK, Receipts
    <2>q. QED
      BY <1>0, <2>1, <2>2, IdleTypes
         DEF SameDrawers, SameFiles, TypeInv, TypeOK, DrawerTypeOK, Numbered
  <1>q. QED
    BY <1>1, <1>2, <1>4 DEF OriginStep

(* Every step keeps the types.                                              *)
LEMMA TypesKept == TypeInv /\ [Next]_vars => TypeInv'
  <1> SUFFICES ASSUME TypeInv, [Next]_vars PROVE TypeInv'
    OBVIOUS
  <1> USE KeepAll
  <1>0. /\ cli \in Transfers /\ cli.r \in Receipts /\ receipt \in Receipts
        /\ DrawerTypeOK /\ settled \in Seq(Outcomes) /\ Len(settled) \in Nat
        /\ MaxSettled \in Nat
    BY SettledAssumption DEF TypeInv, TypeOK, Transfers
  <1>1. ASSUME NEW rev \in 1..MaxSettled, Begin(rev) PROVE TypeInv'
    <2>1. rev \in Nat
      BY <1>0, <1>1
    <2>2. SameDrawers /\ SameFiles /\ SameWorld
      BY <1>1 DEF Begin
    <2>q. QED
      BY <1>1, <2>1, <2>2, BeginTypes, QuietTypes
         DEF SameFiles, TypeInv, TypeOK
  <1>2. CASE FailTransfer
    <2>1. /\ receipt' = cli.r /\ cli' = Idle /\ faults' \in Nat
          /\ UNCHANGED <<drawer, requests, writers, busy>>
          /\ SameFiles /\ SameWorld
      BY <1>0, <1>2 DEF FailTransfer, serverVars, DrawerTypeOK
    <2>q. QED
      BY <1>0, <2>1, IdleTypes
         DEF SameFiles, SameWorld, TypeInv, TypeOK, DrawerTypeOK, Numbered
  <1>3. CASE Crash
    <2>1. /\ receipt' = receipt /\ cli' = Idle /\ faults' \in Nat
          /\ UNCHANGED <<drawer, requests, writers, busy>>
          /\ SameFiles /\ SameWorld
      BY <1>0, <1>3 DEF Crash, serverVars, DrawerTypeOK
    <2>q. QED
      BY <1>0, <2>1, IdleTypes
         DEF SameFiles, SameWorld, TypeInv, TypeOK, DrawerTypeOK, Numbered
  <1>4. CASE DrawerStep /\ Others
    <2>1. DrawerTypeOK' /\ receipt' = receipt
      BY <1>0, <1>4, DrawerStepTypes
    <2>2. cli' = cli /\ SameFiles /\ SameWorld
      BY <1>4 DEF Others, fileVars, worldVars, SameFiles, SameWorld
    <2>q. QED
      BY <2>1, <2>2, ServerStepTypes DEF TypeInv, TypeOK, SameWorld, Numbered
  <1>5. ASSUME NEW o \in Outcomes, Settle(o) PROVE TypeInv'
    <2>1. /\ SameDrawers /\ SameFiles /\ settled' = Append(settled, o)
          /\ UNCHANGED <<receipt, cli, origin, originLife, damaged, done>>
          /\ Len(settled) < MaxSettled
      BY <1>5 DEF Settle
    <2>2. settled' \in Seq(Outcomes) /\ Len(settled') = Len(settled) + 1
      BY <1>0, <2>1
    <2>3. receipt.rev \in Nat /\ cli.r.rev \in Nat
      BY <1>0 DEF Receipts
    <2>4. Len(settled') <= MaxSettled /\ Numbered(receipt)' /\ Numbered(cli.r)'
      BY <1>0, <2>1, <2>2, <2>3 DEF TypeInv, Numbered
    <2>5. TypeOK'
      <3>1. settled' \in Seq(Outcomes)
        BY <2>2
      <3>2. TypeOK
        BY DEF TypeInv
      <3>q. QED
        BY <2>1, <3>1, <3>2 DEF SameDrawers, SameFiles, TypeOK, DrawerTypeOK
    <2>q. QED
      BY <2>1, <2>4, <2>5 DEF TypeInv
  <1>6. CASE Damage
    <2>1. /\ UNCHANGED <<receipt, drawer, requests, writers, busy, cli, manifest,
                         metaFile, dumps, settled, origin, originLife, done>>
          /\ faults' \in Nat /\ damaged' = TRUE
      BY <1>0, <1>6 DEF Damage, serverVars, DrawerTypeOK
    <2>2. dest' \subseteq Nat /\ staged' \subseteq [file : Nat, data : Nat]
      BY <1>6 DEF Damage, TypeInv, TypeOK
    <2>q. QED
      BY <2>1, <2>2 DEF TypeInv, TypeOK, DrawerTypeOK, Numbered
  <1>7. CASE OriginChanges
    <2>1. /\ UNCHANGED <<receipt, drawer, requests, writers, busy, cli, settled,
                         damaged, done>>
          /\ SameFiles /\ faults' \in Nat
      BY <1>0, <1>7 DEF OriginChanges, serverVars, DrawerTypeOK
    <2>2. origin' \subseteq OriginTabs /\ originLife' \in Nat
      BY <1>7, FirstAssumption DEF OriginChanges, TypeInv, TypeOK
    <2>q. QED
      BY <2>1, <2>2 DEF SameFiles, TypeInv, TypeOK, DrawerTypeOK, Numbered
  <1>8. CASE UNCHANGED vars
    BY <1>8 DEF vars, serverVars, fileVars, worldVars, TypeInv, TypeOK,
                DrawerTypeOK, Numbered
  <1>q. QED
    BY <1>1, <1>2, <1>3, <1>4, <1>5, <1>6, <1>7, <1>8, CaptureStepTypes,
       MetaStepTypes, ViewerStepTypes, RetireStepTypes, OriginStepTypes
       DEF Next, TransferStep

\* The strengthened type invariant holds.
LEMMA TypesFromTheStart == Spec => []TypeInv
  <1>1. Init => TypeInv
    <2> SUFFICES ASSUME Init PROVE TypeInv
      OBVIOUS
    <2>1. TypeOK
      BY InitTypes
    <2>2. receipt.rev = 0 /\ receipt.token = 1 /\ cli = Idle
          /\ settled = <<FirstOutcome>>
      BY DEF Init, NoReceipt, New
    <2>3. Len(settled) = 1 /\ 1 <= MaxSettled
      BY <2>2, SettledAssumption
    <2>q. QED
      BY <2>1, <2>2, <2>3, IdleTypes DEF TypeInv, Numbered
  <1>q. QED
    BY <1>1, TypesKept, PTL DEF Spec

(* Everything the transfer of a run and the drawers keep has its type: no   *)
(* viewer token is ever drawn that a drawer does not know.                  *)
THEOREM TypeCorrect == Spec => []TypeOK
  <1>1. TypeInv => TypeOK
    BY DEF TypeInv
  <1>q. QED
    BY <1>1, TypesFromTheStart, PTL

-----------------------------------------------------------------------------
(* The capture.                                                            *)

Capturing == {"adopt", "dump", "transcript", "manifest", "rename", "mismatch",
              "record"}

\* CaptureKept is not inductive: the receipt in memory may be written by a
\* failure at any step, and a capture is recorded after it was renamed.
CaptureInv ==
  /\ receipt.captured => receipt.rev # 0
  /\ cli.at # "idle" => cli.r.rev # 0
  /\ ~damaged =>
    /\ receipt.captured => dest = {receipt.evidence.data}
    /\ cli.at # "idle" /\ cli.r.captured => dest = {cli.r.evidence.data}
    /\ cli.at \in Capturing => ~receipt.captured /\ ~cli.r.captured
    /\ cli.at = "record" => dest = {cli.dump.data}

SameCapture(q, r) ==
  /\ q.captured = r.captured /\ q.rev = r.rev
  /\ q.evidence.data = r.evidence.data

\* After the capture no step changes what was captured, in either receipt.
LEMMA CaptureUntouched ==
  ASSUME CaptureInv, cli.at # "idle", dest' = dest, damaged' = damaged,
         receipt' = receipt \/ SameCapture(receipt', cli.r),
         cli'.at = "idle" \/ (cli'.at \notin Capturing /\ SameCapture(cli'.r, cli.r))
  PROVE  CaptureInv'
  BY DEF CaptureInv, SameCapture, Capturing

\* A step of the capture that leaves the destination alone.
LEMMA CaptureGoesOn ==
  ASSUME CaptureInv, cli.at \in Capturing, dest' = dest, damaged' = damaged,
         receipt' = receipt, cli'.at \in Capturing \ {"record"},
         cli'.r = cli.r
  PROVE  CaptureInv'
  BY DEF CaptureInv, Capturing

\* Two captures are never staged under one name.
FilesInv == \A f, g \in staged :
              f.file <= dumps /\ (f.file = g.file => f = g)

\* No step that only takes files away stages a second one.
LEMMA FilesStay ==
  ASSUME TypeInv, FilesInv, staged' \subseteq staged, dumps' = dumps
  PROVE  FilesInv'
  BY DEF FilesInv

\* A capture is staged under a new name.
LEMMA DumpFiles ==
  ASSUME TypeInv, FilesInv, dumps' = dumps + 1,
         staged' = staged \cup {[file |-> dumps', data |-> dumps']}
  PROVE  FilesInv'
  <1>1. dumps \in Nat /\ staged \subseteq [file : Nat, data : Nat]
    BY DEF TypeInv, TypeOK
  <1>2. \A f \in staged : f.file <= dumps /\ f.file \in Nat
    BY <1>1 DEF FilesInv
  <1>q. QED
    BY <1>1, <1>2 DEF FilesInv

\* A damaged file keeps its name.
LEMMA DamageFiles == ASSUME TypeInv, FilesInv, Damage PROVE FilesInv'
  <1>1. dumps' = dumps
    BY DEF Damage
  <1>2. CASE staged' \subseteq staged
    BY <1>1, <1>2, FilesStay
  <1>3. ASSUME NEW f \in staged, staged' = (staged \ {f}) \cup {[f EXCEPT !.data = 0]}
        PROVE  FilesInv'
    <2> DEFINE g == [f EXCEPT !.data = 0]
    <2>1. g.file = f.file
      BY DEF TypeInv, TypeOK
    <2> HIDE DEF g
    <2>2. staged' = (staged \ {f}) \cup {g}
      BY <1>3 DEF g
    <2>q. QED
      BY <1>1, <2>1, <2>2 DEF FilesInv
  <1>q. QED
    BY <1>2, <1>3 DEF Damage

\* No step of the capture stages two files under one name.
LEMMA CaptureStepFiles ==
  ASSUME TypeInv, FilesInv, CaptureStep
  PROVE  FilesInv'
  <1>1. CASE AdoptCapture
    BY <1>1, FilesStay DEF AdoptCapture, MoveStaged
  <1>2. CASE StartCapture
    BY <1>2, FilesStay DEF StartCapture
  <1>3. CASE CaptureTerminal
    BY <1>3, DumpFiles DEF CaptureTerminal, Dump
  <1>4. CASE CaptureTranscript
    BY <1>4, DumpFiles DEF CaptureTranscript, Dump
  <1>5. CASE PutManifest
    BY <1>5, FilesStay DEF PutManifest
  <1>6. CASE CommitCapture
    BY <1>6, FilesStay DEF CommitCapture, MoveStaged
  <1>7. CASE TerminalFails
    BY <1>7, FilesStay DEF TerminalFails, KeepFiles, fileVars
  <1>8. CASE RecordCapture
    BY <1>8, FilesStay DEF RecordCapture, KeepFiles, fileVars
  <1>q. QED
    BY <1>1, <1>2, <1>3, <1>4, <1>5, <1>6, <1>7, <1>8 DEF CaptureStep

\* The steps of the capture keep it: only a capture that is in place is recorded.
LEMMA CaptureStepKeeps ==
  ASSUME TypeInv, CaptureInv, FilesInv, CaptureStep
  PROVE  CaptureInv'
  <1>0. cli \in Transfers /\ cli.r \in Receipts /\ cli.dump \in Evidence
    BY DEF TypeInv, TypeOK, Transfers
  <1>1. CASE AdoptCapture
    <2>1. PICK e \in manifest :
            /\ cli' = [cli EXCEPT !.at = "record", !.dump = e]
            /\ \/ dest = {e.data} /\ dest' = dest
               \/ Intact(e.data) /\ MoveStaged(e.data)
      BY <1>1 DEF AdoptCapture
    <2>2. cli.at = "adopt" /\ receipt' = receipt /\ damaged' = damaged
      BY <1>1 DEF AdoptCapture, KeepWorld, worldVars
    <2>3. cli'.at = "record" /\ cli'.dump = e /\ cli'.r = cli.r
      BY <1>0, <2>1 DEF Transfers
    <2>4. dest' = {e.data}
      <3>1. CASE Intact(e.data) /\ MoveStaged(e.data)
        <4> DEFINE f == [file |-> e.data, data |-> e.data]
        <4>1. f \in staged /\ f.file = e.data /\ f.data = e.data
          BY <3>1 DEF Intact
        <4> HIDE DEF f
        <4>2. {g \in staged : g.file = e.data} = {f}
          BY <4>1 DEF FilesInv
        <4>q. QED
          BY <3>1, <4>1, <4>2 DEF MoveStaged
      <3>q. QED
        BY <2>1, <3>1
    <2>q. QED
      BY <2>2, <2>3, <2>4 DEF CaptureInv, Capturing
  <1>2. CASE StartCapture
    <2>1. cli.at = "adopt" /\ cli'.at = "dump" /\ cli'.r = cli.r
      BY <1>0, <1>2 DEF StartCapture, Go, Step, Transfers
    <2>q. QED
      BY <1>2, <2>1, CaptureGoesOn
         DEF StartCapture, KeepWorld, worldVars, Capturing
  <1>3. ASSUME NEW from \in {"dump", "transcript"}, NEW terminal, NEW identity,
               Dump(from, terminal, identity)
        PROVE  CaptureInv'
    <2>1. cli.at \in Capturing /\ cli'.at = "manifest" /\ cli'.r = cli.r
      BY <1>0, <1>3 DEF Dump, Transfers, Capturing
    <2>q. QED
      BY <1>3, <2>1, CaptureGoesOn DEF Dump, KeepWorld, worldVars, Capturing
  <1>4. CASE CaptureTerminal
    BY <1>3, <1>4 DEF CaptureTerminal
  <1>5. CASE CaptureTranscript
    BY <1>3, <1>5 DEF CaptureTranscript
  <1>6. CASE PutManifest
    <2>1. cli.at = "manifest" /\ cli'.at = "rename" /\ cli'.r = cli.r
      BY <1>0, <1>6 DEF PutManifest, Go, Step, Transfers
    <2>q. QED
      BY <1>6, <2>1, CaptureGoesOn
         DEF PutManifest, KeepWorld, worldVars, Capturing
  <1>7. CASE CommitCapture
    <2>1. cli.at = "rename" /\ receipt' = receipt /\ damaged' = damaged
      BY <1>7 DEF CommitCapture, KeepWorld, worldVars
    <2>2. /\ cli'.at \in {"record", "mismatch"} /\ cli'.r = cli.r
          /\ cli'.dump = cli.dump
          /\ cli'.at = "record" => dest' = {cli.dump.data}
      BY <1>0, <1>7 DEF CommitCapture, Transfers
    <2>q. QED
      BY <2>1, <2>2 DEF CaptureInv, Capturing
  <1>8. CASE TerminalFails
    <2>1. cli.at \in Capturing /\ cli'.at = "transcript" /\ cli'.r = cli.r
      BY <1>0, <1>8 DEF TerminalFails, Transfers, Capturing
    <2>q. QED
      BY <1>8, <2>1, CaptureGoesOn
         DEF TerminalFails, KeepFiles, fileVars, KeepWorld, worldVars, Capturing
  <1>9. CASE RecordCapture
    <2> DEFINE r == [cli.r EXCEPT !.evidence = cli.dump, !.captured = TRUE,
                                  !.meta = FALSE]
    <2>1. r.evidence = cli.dump /\ r.rev = cli.r.rev
      BY <1>0 DEF Receipts
    <2> HIDE DEF r
    <2>2. /\ cli.at = "record" /\ receipt' = r
          /\ cli' = [cli EXCEPT !.at = "meta", !.r = r]
          /\ dest' = dest /\ damaged' = damaged
      BY <1>9 DEF RecordCapture, Persist, Step, KeepFiles, fileVars, KeepWorld,
                  worldVars, r
    <2>3. cli'.at = "meta" /\ cli'.r = r
      BY <1>0, <2>2 DEF Transfers
    <2>q. QED
      BY <2>1, <2>2, <2>3 DEF CaptureInv, Capturing
  <1>q. QED
    BY <1>1, <1>2, <1>4, <1>5, <1>6, <1>7, <1>8, <1>9 DEF CaptureStep

\* A step that writes the receipt in memory, or none.
LEMMA StepKeeps ==
  ASSUME CaptureInv, FilesInv, NEW from, NEW to, NEW r,
         cli \in Transfers, Step(from, to, r), from # "idle",
         to \notin Capturing \cup {"idle"},
         receipt' = receipt \/ receipt' = r, SameCapture(r, cli.r),
         dest' = dest, staged' = staged, dumps' = dumps, damaged' = damaged
  PROVE  CaptureInv' /\ FilesInv'
  <1>1. cli.at = from /\ cli'.at = to /\ cli'.r = r
    BY DEF Step, Transfers
  <1>q. QED
    BY <1>1, CaptureUntouched DEF FilesInv, SameCapture

\* From the metadata on, the capture and both receipts' word of it stay.
LEMMA LaterStepsKeep ==
  ASSUME TypeInv, CaptureInv, FilesInv,
         MetaStep \/ ViewerStep \/ RetireStep \/ OriginStep
  PROVE  CaptureInv' /\ FilesInv'
  <1> USE KeepAll
  <1>0. cli \in Transfers /\ cli.r \in Receipts
    BY DEF TypeInv, TypeOK, Transfers
  <1>s. SameCapture(cli.r, cli.r)
    BY DEF SameCapture
  <1>1. CASE MetaStep
    <2>1. SameCapture([cli.r EXCEPT !.meta = FALSE], cli.r)
          /\ SameCapture([cli.r EXCEPT !.meta = TRUE], cli.r)
      BY <1>0 DEF SameCapture, Receipts
    <2>2. CASE PutMeta
      BY <1>0, <2>1, <2>2, StepKeeps
         DEF PutMeta, SameFiles, SameWorld, Capturing
    <2>3. CASE RecordMeta
      BY <1>0, <2>1, <2>3, StepKeeps DEF RecordMeta, Persist, SameFiles, SameWorld, Capturing
    <2>4. CASE KeepMeta
      BY <1>0, <1>s, <2>4, StepKeeps DEF KeepMeta, Go, SameFiles, SameWorld, Capturing
    <2>q. QED
      BY <1>1, <2>2, <2>3, <2>4 DEF MetaStep
  <1>2. CASE ViewerStep
    <2>1. CASE EnsureDrawer
      <3>1. SameCapture([cli.r EXCEPT !.confirmed = FALSE], cli.r)
        BY <1>0 DEF SameCapture, Receipts
      <3>q. QED
        BY <1>0, <2>1, <3>1, StepKeeps DEF EnsureDrawer, SameFiles, SameWorld, Capturing
    <2>2. CASE Lookup
      <3>1. /\ cli.at = "lookup" /\ cli'.at \in {"reserve", "ready"}
            /\ cli'.r = cli.r
        BY <1>0, <2>2 DEF Lookup, Transfers
      <3>q. QED
        BY <1>s, <2>2, <3>1, CaptureUntouched
           DEF Lookup, SameFiles, SameWorld, Capturing, FilesInv
    <2>3. CASE Reserve
      <3>1. SameCapture([cli.r EXCEPT !.identity = 0, !.pending = TRUE,
                                      !.gen = @ + 1], cli.r)
        BY <1>0 DEF SameCapture, Receipts
      <3>q. QED
        BY <1>0, <2>3, <3>1, StepKeeps DEF Reserve, Persist, SameFiles, SameWorld, Capturing
    <2>4. CASE OpenTab \/ RecoverTab
      BY <1>0, <1>s, <2>4, StepKeeps
         DEF OpenTab, RecoverTab, SendRequest, Go, SameFiles, SameWorld, Capturing
    <2>5. CASE AwaitTab
      <3>1. cli.at = "await" /\ cli'.at = "ready" /\ cli'.r = cli.r
        BY <1>0, <2>5 DEF AwaitTab, Transfers
      <3>q. QED
        BY <1>s, <2>5, <3>1, CaptureUntouched
           DEF AwaitTab, SameFiles, SameWorld, Capturing, FilesInv
    <2>6. CASE FindReady \/ FindPending
      BY <1>0, <1>s, <2>6, StepKeeps
         DEF FindReady, FindPending, Go, SameFiles, SameWorld, Capturing
    <2>7. CASE ReserveAgain
      <3> DEFINE r == [cli.r EXCEPT !.identity = cli.life, !.pending = TRUE,
                                    !.gen = @ + 1]
      <3>1. SameCapture(r, cli.r)
        BY <1>0 DEF SameCapture, Receipts
      <3> HIDE DEF r
      <3>2. cli.at = "reserveAgain" /\ receipt' = r
            /\ cli' = [cli EXCEPT !.at = "reopen", !.r = r, !.again = TRUE]
        BY <2>7 DEF ReserveAgain, r
      <3>3. cli'.at = "reopen" /\ cli'.r = r
        BY <1>0, <3>2 DEF Transfers
      <3>q. QED
        BY <2>7, <3>1, <3>2, <3>3, CaptureUntouched
           DEF ReserveAgain, SameFiles, SameWorld, Capturing, FilesInv
    <2>8. CASE Confirm
      <3>1. SameCapture([cli.r EXCEPT !.identity = cli.life, !.pending = FALSE,
                                      !.confirmed = TRUE], cli.r)
        BY <1>0 DEF SameCapture, Receipts
      <3>q. QED
        BY <1>0, <2>8, <3>1, StepKeeps DEF Confirm, Persist, SameFiles, SameWorld, Capturing
    <2>q. QED
      BY <1>2, <2>1, <2>2, <2>3, <2>4, <2>5, <2>6, <2>7, <2>8 DEF ViewerStep
  <1>3. CASE RetireStep
    <2>1. CASE DropTombstone
      <3>1. SameCapture([cli.r EXCEPT !.superseded = Tail(@)], cli.r)
        BY <1>0 DEF SameCapture, Receipts
      <3>q. QED
        BY <1>0, <2>1, <3>1, StepKeeps DEF DropTombstone, Persist, SameFiles, SameWorld, Capturing
    <2>q. QED
      BY <1>0, <1>s, <1>3, <2>1, StepKeeps
         DEF RetireStep, NoneToRetire, EnsureOldDrawer, CloseOldViewer,
             SaveOldDrawer, ProveRetired, Go, SameFiles, SameWorld, Capturing
  <1>4. CASE OriginStep
    <2>1. CASE Rebind
      <3>1. SameCapture([cli.r EXCEPT !.evidence.life = originLife], cli.r)
        BY <1>0 DEF SameCapture, Receipts, Evidence
      <3>q. QED
        BY <1>0, <1>s, <2>1, <3>1, StepKeeps
           DEF Rebind, Persist, Go, SameFiles, SameWorld, Capturing
    <2>2. CASE CloseOrigin
      BY <1>0, <1>s, <2>2, StepKeeps DEF CloseOrigin, Go, SameFiles, Capturing
    <2>3. CASE Finish
      <3>1. /\ cli.at = "finish" /\ receipt' = cli.r /\ cli'.at = "idle"
            /\ damaged' = damaged /\ dest' = dest /\ staged' = staged
            /\ dumps' = dumps
        BY <2>3 DEF Finish, Idle, SameFiles, worldVars
      <3>2. SameCapture(receipt', cli.r)
        BY <1>s, <3>1
      <3>3. CaptureInv'
        BY <3>1, <3>2 DEF CaptureInv, Capturing
      <3>q. QED
        BY <3>1, <3>3 DEF FilesInv
    <2>q. QED
      BY <1>4, <2>1, <2>2, <2>3 DEF OriginStep
  <1>q. QED
    BY <1>1, <1>2, <1>3, <1>4

\* A transfer that begins believes only a capture that matches its evidence.
LEMMA BeginKeeps ==
  ASSUME TypeInv, CaptureInv, FilesInv, NEW rev \in 1..MaxSettled, Begin(rev)
  PROVE  CaptureInv' /\ FilesInv'
  <1> DEFINE o == settled[rev]
             base == IF receipt.rev = 0 THEN New(rev, o) ELSE receipt
             r == IF rev = base.rev THEN base
                  ELSE IF Changed(base, o) THEN Reclassified(base, rev, o)
                  ELSE [base EXCEPT !.rev = rev]
             c == CheckCapture(r)
  <1>0. receipt \in Receipts /\ settled \in Seq(Outcomes) /\ rev \in 1..Len(settled)
    BY DEF TypeInv, TypeOK, Begin
  <1>1. base \in Receipts
    BY <1>0, NewType
  <1>2. r.captured = base.captured /\ r.evidence.data = base.evidence.data
    BY <1>1 DEF Receipts, Reclassified
  <1>b. base.rev <= rev /\ (receipt.captured => base = receipt)
    <2>1. receipt.rev = 0 => New(rev, o).rev = rev
      BY DEF New
    <2>q. QED
      BY <1>0, <2>1 DEF Begin, CaptureInv
  <1>3. base.captured => base = receipt
    BY DEF New
  <1>4. /\ receipt' = IF rev > base.rev THEN r ELSE receipt
        /\ cli' = [Idle EXCEPT !.at = IF c.captured THEN "meta" ELSE "adopt",
                               !.r = c]
        /\ dest' = dest /\ staged' = staged /\ dumps' = dumps
        /\ damaged' = damaged
    BY DEF Begin, KeepFiles, fileVars, KeepWorld, worldVars
  <1>5. c.captured => r.captured /\ c = r /\ dest = {r.evidence.data}
    <2>1. "captured" \in DOMAIN r /\ "meta" # "captured" /\ "evidence" # "captured"
      BY <1>1 DEF Receipts, Reclassified
    <2> HIDE DEF r
    <2>2. CASE r.captured /\ dest # {r.evidence.data}
      <3>1. ~c.captured
        BY <2>1, <2>2 DEF CheckCapture
      <3>q. QED
        BY <3>1
    <2>3. CASE ~(r.captured /\ dest # {r.evidence.data})
      <3>1. c = r
        BY <2>3 DEF CheckCapture
      <3> HIDE DEF c
      <3>q. QED
        BY <2>3, <3>1
    <2>q. QED
      BY <2>2, <2>3
  <1>6. r.captured /\ dest = {r.evidence.data} => c.captured
    BY DEF CheckCapture
  <1> HIDE DEF base, r, c, o
  <1>7. receipt'.captured => receipt.captured /\ receipt'.evidence.data = receipt.evidence.data
    BY <1>2, <1>3, <1>4
  <1>8. receipt'.captured => r.captured /\ r.evidence.data = receipt.evidence.data
    <2>1. CASE rev > base.rev
      BY <1>2, <1>3, <1>4, <2>1
    <2>2. CASE ~(rev > base.rev)
      <3>1. r = base
        BY <1>0, <1>1, <1>b, <2>2 DEF r, Receipts
      <3>2. receipt' = receipt
        BY <1>4, <2>2
      <3>q. QED
        BY <1>b, <3>1, <3>2
    <2>q. QED
      BY <2>1, <2>2
  <1>r. r.rev = rev /\ c.rev = rev /\ rev # 0
    <2>1. r.rev = rev
      BY <1>1 DEF r, Receipts, Reclassified
    <2>q. QED
      BY <1>0, <2>1 DEF c, CheckCapture
  <1>9. cli'.at = (IF c.captured THEN "meta" ELSE "adopt") /\ cli'.r = c
    BY <1>4 DEF Idle
  <1>a. receipt'.captured => receipt'.rev # 0
    BY <1>4, <1>7, <1>r DEF CaptureInv
  <1>c. cli'.r.rev # 0
    BY <1>9, <1>r
  <1>d. FilesInv'
    BY <1>4 DEF FilesInv
  <1>q. QED
    BY <1>4, <1>5, <1>6, <1>7, <1>8, <1>9, <1>a, <1>c, <1>d
       DEF CaptureInv, Capturing

\* Every step keeps the capture.
LEMMA CaptureInvKept ==
  TypeInv /\ CaptureInv /\ FilesInv /\ [Next]_vars => CaptureInv' /\ FilesInv'
  <1> SUFFICES ASSUME TypeInv, CaptureInv, FilesInv, [Next]_vars
               PROVE  CaptureInv' /\ FilesInv'
    OBVIOUS
  <1>1. CASE CaptureStep
    BY <1>1, CaptureStepKeeps, CaptureStepFiles
  <1>2. CASE MetaStep \/ ViewerStep \/ RetireStep \/ OriginStep
    BY <1>2, LaterStepsKeep
  <1>3. CASE FailTransfer \/ Crash
    BY <1>3 DEF FailTransfer, Crash, CaptureInv, FilesInv, Idle, KeepFiles,
                fileVars, KeepWorld, worldVars, Capturing
  <1>4. CASE Damage
    BY <1>4, DamageFiles DEF Damage, CaptureInv
  <1>5. CASE \/ DrawerStep /\ Others
             \/ \E o \in Outcomes : Settle(o)
             \/ OriginChanges
             \/ UNCHANGED vars
    <2>1. UNCHANGED <<receipt, cli, dest, staged, dumps, damaged>>
      <3>1. ASSUME DrawerStep PROVE receipt' = receipt
        BY <3>1, DrawerStepTypes DEF TypeInv, TypeOK
      <3>q. QED
        BY <1>5, <3>1 DEF Others, Settle, OriginChanges, KeepFiles, vars,
                          fileVars, worldVars
    <2>q. QED
      BY <2>1 DEF CaptureInv, FilesInv
  <1>q. QED
    BY <1>1, <1>2, <1>3, <1>4, <1>5, BeginKeeps DEF Next, TransferStep

(* Wherever a transfer dies, what the receipt says was captured is in the    *)
(* file, until somebody else changes the file: for any number of             *)
(* settlements, drawers, captures and faults.                                *)
THEOREM CaptureIsKept == Spec => []CaptureKept
  <1>1. Init => CaptureInv /\ FilesInv
    BY DEF Init, CaptureInv, FilesInv, NoReceipt, New, Idle, Capturing
  <1>2. CaptureInv => CaptureKept
    BY DEF CaptureInv, CaptureKept
  <1>q. QED
    BY <1>1, <1>2, TypesFromTheStart, CaptureInvKept, PTL DEF Spec

-----------------------------------------------------------------------------
(* The viewers.                                                            *)

\* What the servers keep.
ServerInv ==
  /\ \A b \in Buckets :
       /\ drawer[b].up => drawer[b].life # 0
       /\ \A f, g \in drawer[b].saved : f = g
       /\ \A f, g \in drawer[b].saving : f = g
  /\ \A w \in busy :
       /\ drawer[w.bucket].up /\ drawer[w.bucket].tab[w.token] # "none"
       /\ \A v \in busy : v.bucket = w.bucket => v = w
  /\ \A f \in requests : f.gen # 0

Open(d, t) == d.tab[t] # "none"
Saved(d, t) == \E f \in d.saved : f[t] # "none"
Saving(d, t) == \E f \in d.saving : f[t] # "none"

Alive == {v \in Buckets \X Tokens : Live(v[1], v[2])}

\* There may be a viewer of the receipt's token.
Marked(r) == r.identity # 0 \/ r.pending

SameViewer(q, r) ==
  q.token = r.token /\ q.bucket = r.bucket /\ q.superseded = r.superseded

\* The receipt knows these viewers.
Accounts(L, r) ==
  /\ \A v \in L : Known(r, v[1], v[2])
  /\ <<r.bucket, r.token>> \in L => Marked(r)

\* It tells an outcome, and has no tombstone of its own viewer.
Sound(s, r) ==
  /\ r.code = s[r.rev].code /\ r.bucket = Bucket(s[r.rev])
  /\ r.confirmed => Marked(r)
  /\ \A i \in 1..Len(r.superseded) : r.superseded[i].token < r.token

\* The receipt on disk, and one in memory that may replace it.
OnDisk(L, s, q) ==
  IF q.rev = 0 THEN L = {} ELSE Sound(s, q) /\ Accounts(L, q)

InMemory(L, s, q, r) ==
  /\ Sound(s, r) /\ Accounts(L, r)
  /\ q.rev # 0 => SameViewer(r, q) /\ (Marked(q) => Marked(r))

\* NoOrphanViewer is not inductive: the receipt in memory is written by any
\* failure, and a viewer appears where the receipt on disk is pending.
ViewerInv ==
  /\ OnDisk(Alive, settled, receipt)
  /\ cli.at # "idle" => InMemory(Alive, settled, receipt, cli.r)
  /\ cli.at \in {"open", "reopen"} => cli.r.gen # 0
  /\ cli.at \in {"ready", "confirm"} => cli.life # 0

Retired == {"rebind", "closeOrigin", "finish"}
Confirmed == {"retire", "close", "save", "prove", "drop"} \cup Retired
Written == {"ensure", "lookup", "reserve", "open", "await", "ready", "reserveAgain", "reopen",
            "confirm"} \cup Confirmed

\* What is known at a place of the transfer.
OrderInv ==
  /\ cli.at \in {"meta", "recordMeta"} \cup Written => cli.r.captured
  /\ cli.at \in {"recordMeta"} \cup Written => metaFile = {MetaOf(cli.r)}
  /\ cli.at \in Written => cli.r.meta
  /\ cli.at \in Confirmed => cli.r.confirmed /\ receipt = cli.r
  /\ cli.at \in Retired => cli.r.superseded = <<>>

\* A closed viewer comes back only from what is saved.
Leaving(at, d, t) ==
  /\ at \in {"save", "prove"} /\ Open(d, t) =>
       Saved(d, t) /\ (d.saving = {} \/ Saving(d, t))
  /\ at = "prove" /\ Saving(d, t) => Saved(d, t)
  /\ at = "drop" => ~Open(d, t) /\ ~Saved(d, t) /\ ~Saving(d, t)

RetireInv == Leaving(cli.at, OldDrawer, Old.token)

-----------------------------------------------------------------------------
(* What a step does to one drawer.                                         *)

\* The tab that the receipt allows to be opened.
Fresh(b, t) ==
  receipt.rev # 0 /\ b = receipt.bucket /\ t = receipt.token /\ receipt.pending

\* Tabs are closed, or the receipt's one opened; what is saved stays.
Touched(b) ==
  /\ drawer'[b].saved = drawer[b].saved /\ drawer'[b].saving = drawer[b].saving
  /\ \A t \in Tokens : drawer'[b].tab[t] # "none" => drawer[b].tab[t] # "none" \/ Fresh(b, t)

\* The drawer stops, or starts with what is saved.
Restarted(b) ==
  /\ drawer'[b].saved = drawer[b].saved /\ drawer'[b].saving = {}
  /\ \A t \in Tokens : drawer'[b].tab[t] # "none" => Saved(drawer[b], t)

Captures(b) ==
  /\ drawer'[b].saved = drawer[b].saved /\ drawer'[b].tab = drawer[b].tab
  /\ \E f : /\ drawer'[b].saving = {f}
            /\ \A t \in Tokens : f[t] # "none" <=> drawer[b].tab[t] # "none"

Landed(b) ==
  /\ drawer'[b].tab = drawer[b].tab
  /\ drawer[b].saving # {}
  /\ drawer'[b].saved = drawer[b].saving /\ drawer'[b].saving = {}

Effect(b) == Touched(b) \/ Restarted(b) \/ Captures(b) \/ Landed(b)

\* A tab is closed or shown.
LEMMA WithTabDoes ==
  ASSUME drawer \in [Buckets -> Drawers], NEW b \in Buckets, NEW t \in Tokens,
         NEW state, drawer' = WithTab(b, t, state), NEW c \in Buckets
  PROVE  /\ drawer'[c].saved = drawer[c].saved /\ drawer'[c].saving = drawer[c].saving
         /\ drawer'[c].up = drawer[c].up /\ drawer'[c].life = drawer[c].life
         /\ \A u \in Tokens :
              drawer'[c].tab[u] = IF c = b /\ u = t THEN state ELSE drawer[c].tab[u]
  BY DEF WithTab, Drawers

\* The drawer's tabs are going to be saved.
LEMMA CaptureDoes ==
  ASSUME drawer \in [Buckets -> Drawers], NEW b \in Buckets, drawer' = Capture(b),
         NEW c \in Buckets
  PROVE  /\ drawer'[c].up = drawer[c].up /\ drawer'[c].life = drawer[c].life
         /\ drawer'[c].tab = drawer[c].tab /\ drawer'[c].saved = drawer[c].saved
         /\ IF c = b THEN Captures(c) ELSE drawer'[c] = drawer[c]
  <1>1. drawer[c] \in Drawers /\ drawer[b] \in Drawers
    OBVIOUS
  <1> DEFINE f == Snapshot(drawer[b])
  <1>2. \A t \in Tokens : f[t] # "none" <=> drawer[b].tab[t] # "none"
    BY <1>1 DEF Snapshot, Drawers
  <1> HIDE DEF f
  <1>3. drawer' = [drawer EXCEPT ![b].saving = {f}]
    BY DEF Capture, f
  <1>4. /\ drawer'[c].up = drawer[c].up /\ drawer'[c].life = drawer[c].life
        /\ drawer'[c].tab = drawer[c].tab /\ drawer'[c].saved = drawer[c].saved
        /\ IF c = b THEN drawer'[c].saving = {f} ELSE drawer'[c] = drawer[c]
    BY <1>1, <1>3 DEF Drawers
  <1>q. QED
    BY <1>2, <1>4 DEF Captures

\* A drawer that starts.
LEMMA StartDoes ==
  ASSUME DrawerTypeOK, NEW b \in Buckets, Start(b), NEW c \in Buckets
  PROVE  /\ ~drawer[b].up /\ UNCHANGED <<requests, busy>>
         /\ IF c = b THEN drawer'[c].up /\ drawer'[c].life # 0 /\ Restarted(c)
                     ELSE drawer'[c] = drawer[c]
  <1> DEFINE f == Restored(drawer[b])
             back == {t \in Tokens : f[t] # "none"}
             tabs == [t \in Tokens |-> IF t \in back THEN "pending" ELSE "none"]
             gens == [t \in Tokens |-> IF t \in back THEN 1 ELSE 0]
  <1>1. drawer[b] \in Drawers /\ drawer \in [Buckets -> Drawers]
    BY DEF DrawerTypeOK
  <1>2. drawer' = [drawer EXCEPT ![b] =
                    [up |-> TRUE, life |-> drawer[b].life + 1, tab |-> tabs,
                     local |-> gens, saved |-> drawer[b].saved, saving |-> {}]]
    BY DEF Start
  <1>3. ASSUME NEW t \in Tokens, tabs[t] # "none" PROVE Saved(drawer[b], t)
    <2>1. f[t] # "none"
      BY <1>3
    <2>2. drawer[b].saved # {}
      BY <2>1, <1>3 DEF Restored, NoTabs
    <2>3. f \in drawer[b].saved
      BY <2>2 DEF Restored
    <2>q. QED
      BY <2>1, <2>3 DEF Saved
  <1> HIDE DEF tabs, gens
  <1>4. CASE c = b
    <2>1. /\ drawer'[b].up /\ drawer'[b].life = drawer[b].life + 1 /\ drawer'[b].tab = tabs
          /\ drawer'[b].saved = drawer[b].saved /\ drawer'[b].saving = {}
      BY <1>1, <1>2
    <2>2. drawer'[b].life # 0
      BY <1>1, <2>1 DEF Drawers
    <2>q. QED
      BY <1>3, <1>4, <2>1, <2>2 DEF Restarted, Start
  <1>5. CASE c # b
    BY <1>1, <1>2, <1>5 DEF Start
  <1>q. QED
    BY <1>4, <1>5

\* A drawer that stays as it is.
LEMMA SameDrawer == \A b \in Buckets : drawer'[b] = drawer[b] => Touched(b)
  BY DEF Touched

\* What ServerInv says of one drawer stays.
KeptWell(b) ==
  /\ drawer'[b].up => drawer'[b].life # 0
  /\ \A f, g \in drawer'[b].saved : f = g
  /\ \A f, g \in drawer'[b].saving : f = g

\* Nothing that happens to a drawer changes that.
LEMMA EffectKeeps ==
  ASSUME ServerInv, NEW b \in Buckets, Effect(b), drawer'[b].up => drawer'[b].life # 0
  PROVE  KeptWell(b)
  BY DEF ServerInv, Effect, Touched, Restarted, Captures, Landed, KeptWell

\* Screen commits in a drawer that keeps the tab while it does.
BusyFits(w) == drawer[w.bucket].up /\ drawer[w.bucket].tab[w.token] # "none"

\* In such a drawer Screen goes on committing.
LEMMA BusyStays ==
  ASSUME DrawerTypeOK, ServerInv, NEW w \in busy,
         drawer'[w.bucket].up = drawer[w.bucket].up,
         \A u \in Tokens : drawer'[w.bucket].tab[u] = drawer[w.bucket].tab[u]
  PROVE  BusyFits(w)'
  <1>1. w \in Writers /\ w.token \in Tokens
    BY DEF DrawerTypeOK, Writers
  <1>q. QED
    BY <1>1 DEF ServerInv, BusyFits

\* The parts of what the servers keep.
LEMMA ServerInvFrom ==
  ASSUME \A b \in Buckets : KeptWell(b),
         \A w \in busy' : BusyFits(w)' /\ \A v \in busy' : v.bucket = w.bucket => v = w,
         \A f \in requests' : f.gen # 0
  PROVE  ServerInv'
  BY DEF ServerInv, KeptWell, BusyFits

\* A tab changes, in a drawer whose Screen thread is not committing any more.
LEMMA TabChanges ==
  ASSUME DrawerTypeOK, ServerInv, NEW b \in Buckets, NEW t \in Tokens, NEW state,
         state = "none" \/ drawer[b].tab[t] # "none",
         drawer' = WithTab(b, t, state) \/ drawer' = drawer,
         requests' \subseteq requests, busy' \subseteq busy,
         \A w \in busy' : w.bucket # b
  PROVE  ServerInv' /\ \A c \in Buckets : Effect(c)
  <1>0. drawer \in [Buckets -> Drawers] /\ \A w \in busy : w.bucket \in Buckets
    BY DEF DrawerTypeOK, Writers
  <1>1. ASSUME NEW c \in Buckets
        PROVE  /\ drawer'[c].saved = drawer[c].saved /\ drawer'[c].saving = drawer[c].saving
               /\ drawer'[c].up = drawer[c].up /\ drawer'[c].life = drawer[c].life
               /\ \A u \in Tokens :
                    /\ drawer'[c].tab[u] # "none" => drawer[c].tab[u] # "none"
                    /\ c # b => drawer'[c].tab[u] = drawer[c].tab[u]
    <2>1. CASE drawer' = drawer
      BY <2>1
    <2>2. CASE drawer' = WithTab(b, t, state)
      <3>1. /\ drawer'[c].saved = drawer[c].saved /\ drawer'[c].saving = drawer[c].saving
            /\ drawer'[c].up = drawer[c].up /\ drawer'[c].life = drawer[c].life
            /\ \A u \in Tokens :
                 drawer'[c].tab[u] = IF c = b /\ u = t THEN state ELSE drawer[c].tab[u]
        BY <1>0, <2>2, WithTabDoes
      <3>q. QED
        BY <3>1
    <2>q. QED
      BY <2>1, <2>2
  <1>2. \A c \in Buckets : Effect(c)
    BY <1>1 DEF Effect, Touched
  <1>3. \A c \in Buckets : KeptWell(c)
    BY <1>1, <1>2, EffectKeeps DEF ServerInv
  <1>4. \A w \in busy' : BusyFits(w)'
    BY <1>0, <1>1, BusyStays
  <1>q. QED
    BY <1>2, <1>3, <1>4, ServerInvFrom DEF ServerInv

\* A drawer starts.
LEMMA StartKeeps ==
  ASSUME DrawerTypeOK, ServerInv, NEW b \in Buckets, Start(b)
  PROVE  ServerInv' /\ \A c \in Buckets : Effect(c)
  <1>0. \A w \in busy : w.bucket \in Buckets
    BY DEF DrawerTypeOK, Writers
  <1>1. /\ ~drawer[b].up /\ UNCHANGED <<requests, busy>>
        /\ \A c \in Buckets :
             IF c = b THEN drawer'[c].up /\ drawer'[c].life # 0 /\ Restarted(c)
                      ELSE drawer'[c] = drawer[c]
    BY StartDoes
  <1>2. \A c \in Buckets : Effect(c)
    BY <1>1, SameDrawer DEF Effect
  <1>3. \A c \in Buckets : KeptWell(c)
    BY <1>1, <1>2, EffectKeeps DEF ServerInv
  <1>4. \A w \in busy' : w \in busy /\ w.bucket # b
    BY <1>1 DEF ServerInv
  <1>5. \A w \in busy' : BusyFits(w)'
    BY <1>0, <1>1, <1>4, BusyStays
  <1>q. QED
    BY <1>1, <1>2, <1>3, <1>5, ServerInvFrom DEF ServerInv

\* A drawer's layout is captured.
LEMMA CaptureKeeps ==
  ASSUME DrawerTypeOK, ServerInv, NEW b \in Buckets, drawer' = Capture(b),
         UNCHANGED <<requests, busy>>
  PROVE  ServerInv' /\ \A c \in Buckets : Effect(c)
  <1>0. drawer \in [Buckets -> Drawers] /\ \A w \in busy : w.bucket \in Buckets
    BY DEF DrawerTypeOK, Writers
  <1>1. \A c \in Buckets :
          /\ drawer'[c].up = drawer[c].up /\ drawer'[c].life = drawer[c].life
          /\ drawer'[c].tab = drawer[c].tab /\ drawer'[c].saved = drawer[c].saved
          /\ IF c = b THEN Captures(c) ELSE drawer'[c] = drawer[c]
    BY <1>0, CaptureDoes
  <1>2. \A c \in Buckets : Effect(c)
    BY <1>1, SameDrawer DEF Effect
  <1>3. \A c \in Buckets : KeptWell(c)
    BY <1>1, <1>2, EffectKeeps DEF ServerInv
  <1>4. \A w \in busy' : BusyFits(w)'
    BY <1>0, <1>1, BusyStays
  <1>q. QED
    BY <1>2, <1>3, <1>4, ServerInvFrom DEF ServerInv

\* A request is handled, or refused.
LEMMA NewTabKeeps ==
  ASSUME DrawerTypeOK, ServerInv, NEW f \in requests, NewTab(f)
  PROVE  ServerInv' /\ \A c \in Buckets : Effect(c)
  <1>0. /\ drawer \in [Buckets -> Drawers] /\ \A w \in busy : w.bucket \in Buckets
        /\ f.bucket \in Buckets /\ f.token \in Tokens
    BY DEF DrawerTypeOK, Writers, Requests
  <1>1. requests' \subseteq requests /\ busy' = busy /\ (\A w \in busy : w.bucket # f.bucket)
    BY DEF NewTab, Serves
  <1>2. CASE ~Verified(f)
    <2>1. drawer' = drawer
      BY <1>2 DEF NewTab
    <2>2. \A c \in Buckets : Effect(c)
      BY <2>1, SameDrawer DEF Effect
    <2>3. ServerInv'
      BY <1>1, <2>1 DEF ServerInv
    <2>q. QED
      BY <2>2, <2>3
  <1>3. CASE Verified(f)
    <2>1. Fresh(f.bucket, f.token)
      BY <1>3 DEF Verified, OwnershipLost, Superseded, Fresh, ServerInv
    <2> DEFINE next == drawer[f.bucket].local[f.token] + 1
               found == drawer[f.bucket].tab[f.token] # "none"
    <2>2. drawer' = [drawer EXCEPT
                  ![f.bucket].local[f.token] = next,
                  ![f.bucket].tab[f.token] = IF found THEN @ ELSE "pending"]
      BY <1>3 DEF NewTab
    <2>3. ASSUME NEW c \in Buckets
          PROVE  /\ drawer'[c].saved = drawer[c].saved /\ drawer'[c].saving = drawer[c].saving
                 /\ drawer'[c].up = drawer[c].up /\ drawer'[c].life = drawer[c].life
                 /\ \A u \in Tokens :
                      u # f.token \/ c # f.bucket => drawer'[c].tab[u] = drawer[c].tab[u]
      <3> HIDE DEF next, found
      <3>q. QED
        BY <1>0, <2>2 DEF Drawers
    <2>4. \A c \in Buckets : Effect(c)
      BY <2>1, <2>3 DEF Effect, Touched
    <2>5. \A c \in Buckets : KeptWell(c)
      BY <2>3, <2>4, EffectKeeps DEF ServerInv
    <2>6. \A w \in busy' : BusyFits(w)'
      BY <1>0, <1>1, <2>3, BusyStays
    <2>q. QED
      BY <1>1, <2>4, <2>5, <2>6, ServerInvFrom DEF ServerInv
  <1>q. QED
    BY <1>2, <1>3

\* Every step of the drawers.
LEMMA DrawerStepKeeps ==
  ASSUME DrawerTypeOK, ServerInv, DrawerStep
  PROVE  ServerInv' /\ \A c \in Buckets : Effect(c)
  <1>0. /\ drawer \in [Buckets -> Drawers] /\ busy \subseteq writers
        /\ \A w \in writers : w.bucket \in Buckets /\ w.token \in Tokens /\ w.makes # "none"
    BY DEF DrawerTypeOK, Writers
  <1>1. ASSUME NEW w \in writers, ApplyLayout(w)
        PROVE  ServerInv' /\ \A c \in Buckets : Effect(c)
    <2>1. /\ UNCHANGED <<drawer, requests>> /\ busy' = busy \cup {w}
          /\ \A v \in busy : v.bucket # w.bucket
          /\ drawer[w.bucket].up /\ drawer[w.bucket].tab[w.token] # "none"
      BY <1>1 DEF ApplyLayout, Serves, IsCurrentWriter
    <2>2. \A c \in Buckets : Effect(c)
      BY <2>1, SameDrawer DEF Effect
    <2>3. ServerInv'
      BY <2>1 DEF ServerInv
    <2>q. QED
      BY <2>2, <2>3
  <1>2. ASSUME NEW w \in writers, CommitLayout(w) \/ ActivationFails(w)
        PROVE  ServerInv' /\ \A c \in Buckets : Effect(c)
    <2>1. /\ w \in busy /\ busy' = busy \ {w} /\ requests' = requests
          /\ \/ drawer' = WithTab(w.bucket, w.token, w.makes)
             \/ drawer' = WithTab(w.bucket, w.token, "none") \/ drawer' = drawer
      BY <1>2 DEF CommitLayout, ActivationFails, Discarded
    <2>2. drawer[w.bucket].tab[w.token] # "none" /\ \A v \in busy' : v.bucket # w.bucket
      BY <2>1 DEF ServerInv
    <2>q. QED
      BY <1>0, <2>1, <2>2, TabChanges
  <1>3. ASSUME NEW w \in writers, RejectLayout(w) \/ PreparationFails(w)
        PROVE  ServerInv' /\ \A c \in Buckets : Effect(c)
    <2>1. /\ busy' = busy /\ requests' = requests /\ \A v \in busy : v.bucket # w.bucket
          /\ drawer' = WithTab(w.bucket, w.token, "none") \/ drawer' = drawer
      BY <1>3 DEF RejectLayout, PreparationFails, Discarded, Serves
    <2>q. QED
      BY <1>0, <2>1, TabChanges
  <1>4. ASSUME NEW b \in Buckets, ServerCrash(b)
        PROVE  ServerInv' /\ \A c \in Buckets : Effect(c)
    <2> DEFINE none == [t \in Tokens |-> 0]
    <2>1. drawer' = [drawer EXCEPT ![b].up = FALSE, ![b].tab = NoTabs,
                                   ![b].local = none, ![b].saving = {}]
      BY <1>4 DEF ServerCrash
    <2>2. /\ requests' \subseteq requests /\ busy' \subseteq busy
          /\ \A w \in busy' : w.bucket # b
      BY <1>4 DEF ServerCrash
    <2>3. ASSUME NEW c \in Buckets
          PROVE  IF c = b THEN ~drawer'[c].up /\ drawer'[c].tab = NoTabs /\ drawer'[c].saving = {}
                                 /\ drawer'[c].saved = drawer[c].saved
                          ELSE drawer'[c] = drawer[c]
      <3> HIDE DEF none
      <3>q. QED
        BY <1>0, <2>1 DEF Drawers
    <2>4. \A c \in Buckets : Effect(c)
      BY <2>3, SameDrawer DEF Effect, Restarted, NoTabs
    <2>5. \A c \in Buckets : KeptWell(c)
      BY <2>3, <2>4, EffectKeeps DEF ServerInv
    <2>6. \A w \in busy' : BusyFits(w)'
      BY <1>0, <2>2, <2>3, BusyStays
    <2>q. QED
      BY <2>2, <2>4, <2>5, <2>6, ServerInvFrom DEF ServerInv
  <1>5. ASSUME NEW b \in Buckets, SaveLands(b)
        PROVE  ServerInv' /\ \A c \in Buckets : Effect(c)
    <2>1. /\ drawer[b].saving # {} /\ UNCHANGED <<requests, busy>>
          /\ drawer' = [drawer EXCEPT ![b].saved = drawer[b].saving, ![b].saving = {}]
      BY <1>5 DEF SaveLands
    <2>2. ASSUME NEW c \in Buckets
          PROVE  /\ drawer'[c].up = drawer[c].up /\ drawer'[c].life = drawer[c].life
                 /\ drawer'[c].tab = drawer[c].tab
                 /\ IF c = b THEN drawer'[c].saved = drawer[c].saving /\ drawer'[c].saving = {}
                             ELSE drawer'[c] = drawer[c]
      BY <1>0, <2>1 DEF Drawers
    <2>3. \A c \in Buckets : Effect(c)
      BY <2>1, <2>2, SameDrawer DEF Effect, Landed
    <2>4. \A c \in Buckets : KeptWell(c)
      BY <2>2, <2>3, EffectKeeps DEF ServerInv
    <2>5. \A w \in busy' : BusyFits(w)'
      BY <1>0, <2>1, <2>2, BusyStays
    <2>q. QED
      BY <2>1, <2>3, <2>4, <2>5, ServerInvFrom DEF ServerInv
  <1>6. ASSUME NEW b \in Buckets, NEW t \in Tokens, UserClosesViewer(b, t)
        PROVE  ServerInv' /\ \A c \in Buckets : Effect(c)
    <2>1. /\ UNCHANGED <<requests, busy>> /\ (\A v \in busy : v.bucket # b)
          /\ drawer' = WithTab(b, t, "none")
      BY <1>6 DEF UserClosesViewer, Serves
    <2>q. QED
      BY <2>1, TabChanges
  <1>7. ASSUME NEW b \in Buckets, OthersStart(b) \/ TimerSave(b)
        PROVE  ServerInv' /\ \A c \in Buckets : Effect(c)
    BY <1>7, StartKeeps, CaptureKeeps DEF OthersStart, TimerSave
  <1>q. QED
    BY <1>1, <1>2, <1>3, <1>4, <1>5, <1>6, <1>7, NewTabKeeps DEF DrawerStep, WriterStep

\* The steps of the transfer that act on a drawer.
LEMMA RestStays ==
  ASSUME ServerInv, UNCHANGED <<drawer, requests, busy>>
  PROVE  ServerInv' /\ \A c \in Buckets : Effect(c)
  <1>1. ServerInv'
    BY DEF ServerInv
  <1>2. \A c \in Buckets : Effect(c)
    BY SameDrawer DEF Effect
  <1>q. QED
    BY <1>1, <1>2

\* A drawer is brought up, or is up.
LEMMA EnsureKeeps ==
  ASSUME DrawerTypeOK, ServerInv, NEW b \in Buckets, Ensure(b)
  PROVE  ServerInv' /\ \A c \in Buckets : Effect(c)
  <1>1. CASE UNCHANGED serverVars
    BY <1>1, RestStays DEF serverVars
  <1>2. CASE Start(b)
    BY <1>2, StartKeeps
  <1>q. QED
    BY <1>1, <1>2 DEF Ensure

\* The viewer that is retired is one of the tombstones.
LEMMA OldType ==
  ASSUME TypeInv, cli.r.superseded # <<>>
  PROVE  /\ Old.bucket \in Buckets /\ Old.token \in Tokens
         /\ Len(cli.r.superseded) >= 1 /\ Old = cli.r.superseded[1]
  <1> DEFINE V == [bucket : Buckets, token : Tokens]
  <1>1. cli.r.superseded \in Seq(V)
    BY DEF TypeInv, TypeOK, Transfers, Receipts
  <1>2. Old \in V /\ Len(cli.r.superseded) >= 1 /\ Old = cli.r.superseded[1]
    <2> HIDE DEF V
    <2>q. QED
      BY <1>1 DEF Old
  <1>q. QED
    BY <1>2

\* The retirement's steps.
LEMMA RetireKeeps ==
  ASSUME TypeInv, ServerInv, RetireStep
  PROVE  ServerInv' /\ \A c \in Buckets : Effect(c)
  <1> USE KeepAll
  <1>0. DrawerTypeOK /\ (cli.at \in Retiring => cli.r.superseded # <<>>)
    BY DEF TypeInv, TypeOK
  <1>1. CASE NoneToRetire \/ ProveRetired \/ DropTombstone
    BY <1>1, RestStays DEF NoneToRetire, ProveRetired, DropTombstone, SameDrawers
  <1>2. CASE EnsureOldDrawer
    BY <1>0, <1>2, OldType, EnsureKeeps DEF EnsureOldDrawer
  <1>3. CASE CloseOldViewer
    <2>1. /\ Old.bucket \in Buckets /\ Old.token \in Tokens
      BY <1>0, <1>3, OldType DEF CloseOldViewer, Go, Step, Retiring
    <2>2. /\ drawer' = WithTab(Old.bucket, Old.token, "none")
          /\ UNCHANGED <<requests, busy>> /\ \A w \in busy : w.bucket # Old.bucket
      BY <1>3 DEF CloseOldViewer, Serves
    <2>q. QED
      BY <1>0, <2>1, <2>2, TabChanges
  <1>4. CASE SaveOldDrawer
    <2>1. Old.bucket \in Buckets
      BY <1>0, <1>4, OldType DEF SaveOldDrawer, Go, Step, Retiring
    <2>q. QED
      BY <1>0, <1>4, <2>1, CaptureKeeps DEF SaveOldDrawer
  <1>q. QED
    BY <1>1, <1>2, <1>3, <1>4 DEF RetireStep

\* The viewer's steps: a request that is sent has a generation.
LEMMA ViewerStepKeeps ==
  ASSUME TypeInv, ServerInv, ViewerInv, ViewerStep
  PROVE  ServerInv' /\ \A c \in Buckets : Effect(c)
  <1> USE KeepAll
  <1>0. DrawerTypeOK /\ cli.r.bucket \in Buckets
    BY DEF TypeInv, TypeOK, Transfers, Receipts
  <1>1. CASE \/ Lookup \/ Reserve \/ AwaitTab \/ FindReady
             \/ FindPending \/ ReserveAgain \/ Confirm
    BY <1>1, RestStays DEF Lookup, Reserve, AwaitTab, FindReady, FindPending,
                           ReserveAgain, Confirm, SameDrawers
  <1>2. CASE EnsureDrawer
    BY <1>0, <1>2, EnsureKeeps DEF EnsureDrawer
  <1>3. CASE OpenTab \/ RecoverTab
    <2>1. /\ UNCHANGED <<drawer, busy>> /\ requests' = requests \cup {Request}
          /\ cli.at \in {"open", "reopen"}
      BY <1>3 DEF OpenTab, RecoverTab, SendRequest, Go, Step
    <2>2. Request.gen # 0
      BY <2>1 DEF ViewerInv, Request
    <2>3. ServerInv'
      BY <2>1, <2>2 DEF ServerInv
    <2>4. \A c \in Buckets : Effect(c)
      BY <2>1, SameDrawer DEF Effect
    <2>q. QED
      BY <2>3, <2>4
  <1>q. QED
    BY <1>1, <1>2, <1>3 DEF ViewerStep

\* Every step keeps what the servers keep, and does one thing to a drawer.
LEMMA ServersKept ==
  ASSUME TypeInv, ServerInv, ViewerInv, [Next]_vars
  PROVE  ServerInv' /\ \A c \in Buckets : Effect(c)
  <1> USE KeepAll
  <1>1. CASE CaptureStep
    <2>1. UNCHANGED <<drawer, requests, busy>>
      BY <1>1 DEF CaptureStep, AdoptCapture, StartCapture, CaptureTerminal,
                  CaptureTranscript, Dump, PutManifest, CommitCapture,
                  TerminalFails, RecordCapture, SameDrawers, serverVars
    <2>q. QED
      BY <2>1, RestStays
  <1>2. CASE MetaStep \/ OriginStep
    <2>1. UNCHANGED <<drawer, requests, busy>>
      BY <1>2 DEF MetaStep, PutMeta, RecordMeta, KeepMeta, OriginStep, Rebind,
                  CloseOrigin, Finish, SameDrawers
    <2>q. QED
      BY <2>1, RestStays
  <1>3. CASE \/ \E rev \in 1..MaxSettled : Begin(rev)
             \/ FailTransfer \/ Crash
             \/ \E o \in Outcomes : Settle(o)
             \/ Damage \/ OriginChanges \/ UNCHANGED vars
    <2>1. UNCHANGED <<drawer, requests, busy>>
      BY <1>3 DEF Begin, FailTransfer, Crash, Settle, Damage, OriginChanges,
                  SameDrawers, serverVars, vars
    <2>q. QED
      BY <2>1, RestStays
  <1>4. CASE DrawerStep
    BY <1>4, DrawerStepKeeps DEF TypeInv, TypeOK
  <1>q. QED
    BY <1>1, <1>2, <1>3, <1>4, RetireKeeps, ViewerStepKeeps DEF Next, TransferStep

\* A viewer that is alive was alive, or is the receipt's.
Grown(L, M, q) ==
  \A v \in M : v \in L \/ (q.rev # 0 /\ q.pending /\ v = <<q.bucket, q.token>>)

\* Whatever happens to the drawers, no other viewer appears.
LEMMA EffectGrows ==
  ASSUME \A c \in Buckets : Effect(c)
  PROVE  Grown(Alive, Alive', receipt)
  <1>1. ASSUME NEW b \in Buckets, NEW t \in Tokens, Live(b, t)'
        PROVE  Live(b, t) \/ Fresh(b, t)
    <2>0. \/ drawer'[b].tab[t] # "none"
          \/ \E f \in drawer'[b].saved \cup drawer'[b].saving : f[t] # "none"
      BY <1>1 DEF Live
    <2>1. CASE Touched(b)
      BY <2>0, <2>1 DEF Touched, Live
    <2>2. CASE Restarted(b)
      BY <2>0, <2>2 DEF Restarted, Live, Saved
    <2>3. CASE Captures(b)
      BY <2>0, <2>3 DEF Captures, Live
    <2>4. CASE Landed(b)
      BY <2>0, <2>4 DEF Landed, Live
    <2>q. QED
      BY <2>1, <2>2, <2>3, <2>4 DEF Effect
  <1>2. ASSUME NEW v \in Alive'
        PROVE  v \in Alive \/ (receipt.rev # 0 /\ receipt.pending
                                 /\ v = <<receipt.bucket, receipt.token>>)
    <2>1. PICK b \in Buckets, t \in Tokens : v = <<b, t>> /\ Live(b, t)'
      BY <1>2 DEF Alive
    <2>2. Live(b, t) \/ Fresh(b, t)
      BY <1>1, <2>1
    <2>3. Live(b, t) => v \in Alive
      BY <2>1 DEF Alive
    <2>q. QED
      BY <2>1, <2>2, <2>3 DEF Fresh
  <1>q. QED
    BY <1>2 DEF Grown

-----------------------------------------------------------------------------
(* The receipts and the viewers.                                           *)

\* Viewers that appear are those the receipts know.
LEMMA GrowthIsKnown ==
  ASSUME NEW L, NEW M, NEW s, NEW q, Grown(L, M, q), OnDisk(L, s, q)
  PROVE  OnDisk(M, s, q) /\ \A r : InMemory(L, s, q, r) => InMemory(M, s, q, r)
  <1>1. CASE q.rev = 0
    <2>1. M \subseteq L
      BY <1>1 DEF Grown
    <2>2. M = {} /\ L = {}
      BY <1>1, <2>1 DEF OnDisk
    <2>q. QED
      BY <1>1, <2>2 DEF OnDisk
  <1>2. CASE q.rev # 0
    <2>1. ASSUME NEW r, Accounts(L, r), SameViewer(r, q), Marked(q) => Marked(r)
          PROVE  Accounts(M, r)
      <3>1. ASSUME NEW v \in M, v \notin L
            PROVE  v = <<r.bucket, r.token>> /\ Marked(r)
        BY <2>1, <3>1 DEF Grown, SameViewer, Marked
      <3>2. ASSUME NEW v \in M PROVE Known(r, v[1], v[2])
        <4>1. CASE v \in L
          BY <2>1, <4>1 DEF Accounts
        <4>2. CASE v \notin L
          <5>1. v[1] = r.bucket /\ v[2] = r.token
            BY <3>1, <4>2
          <5>q. QED
            BY <5>1 DEF Known
        <4>q. QED
          BY <4>1, <4>2
      <3>3. <<r.bucket, r.token>> \in M => Marked(r)
        BY <2>1, <3>1 DEF Accounts
      <3>q. QED
        BY <3>2, <3>3 DEF Accounts
    <2>2. Accounts(M, q)
      BY <1>2, <2>1 DEF OnDisk, SameViewer
    <2>3. ASSUME NEW r, InMemory(L, s, q, r) PROVE InMemory(M, s, q, r)
      BY <1>2, <2>1, <2>3 DEF InMemory
    <2>q. QED
      BY <1>2, <2>2, <2>3 DEF OnDisk
  <1>q. QED
    BY <1>1, <1>2

\* A step of the transfer changes no more than this of the viewer.
SameMark(q, r) ==
  /\ SameViewer(q, r) /\ q.rev = r.rev /\ q.code = r.code
  /\ Marked(r) => Marked(q)
  /\ q.confirmed => r.confirmed \/ Marked(q)

\* So the receipt in memory stays one that may be written.
LEMMA MarkIsKept ==
  ASSUME NEW L, NEW s, NEW p, NEW q, NEW r, SameMark(q, r), InMemory(L, s, p, r)
  PROVE  InMemory(L, s, p, q)
  <1>1. Sound(s, q)
    BY DEF SameMark, SameViewer, InMemory, Sound
  <1>2. Accounts(L, q)
    BY DEF SameMark, SameViewer, InMemory, Accounts, Known
  <1>3. p.rev # 0 => SameViewer(q, p) /\ (Marked(p) => Marked(q))
    BY DEF SameMark, SameViewer, InMemory
  <1>q. QED
    BY <1>1, <1>2, <1>3 DEF InMemory

\* The receipt in memory is written.
LEMMA WriteIsSound ==
  ASSUME NEW L, NEW s, NEW q, NEW r, InMemory(L, s, q, r), r.rev # 0
  PROVE  OnDisk(L, s, r) /\ InMemory(L, s, r, r)
  BY DEF InMemory, OnDisk, SameViewer

\* A tombstone is dropped when its viewer is gone.
LEMMA DropIsSound ==
  ASSUME NEW L, NEW s, NEW p, NEW r \in Receipts, NEW q,
         L \subseteq Buckets \X Tokens, InMemory(L, s, p, r),
         q = [r EXCEPT !.superseded = Tail(@)], r.superseded # <<>>,
         <<Head(r.superseded).bucket, Head(r.superseded).token>> \notin L
  PROVE  Sound(s, q) /\ Accounts(L, q)
  <1> DEFINE S == [bucket : Buckets, token : Tokens]
             old == r.superseded
             gone == Head(old)
  <1>1. /\ q.superseded = Tail(old) /\ q.token = r.token /\ q.bucket = r.bucket
        /\ q.rev = r.rev /\ q.code = r.code /\ q.confirmed = r.confirmed
        /\ q.identity = r.identity /\ q.pending = r.pending /\ old \in Seq(S)
    BY DEF Receipts
  <1>2. /\ Len(Tail(old)) = Len(old) - 1 /\ Len(old) \in Nat /\ Len(old) >= 1
        /\ gone = old[1] /\ \A i \in 1..Len(Tail(old)) : Tail(old)[i] = old[i + 1]
    <2> HIDE DEF S, old
    <2>q. QED
      BY <1>1 DEF old
  <1> HIDE DEF S, old, gone
  <1>3. \A i \in 1..Len(old) : old[i].token < r.token
    BY DEF InMemory, Sound, old
  <1>4. \A i \in 1..Len(q.superseded) : q.superseded[i].token < q.token
    <2>1. ASSUME NEW i \in 1..Len(q.superseded)
          PROVE  i + 1 \in 1..Len(old) /\ q.superseded[i] = old[i + 1]
      BY <1>1, <1>2, <2>1
    <2>q. QED
      BY <1>1, <1>3, <2>1
  <1>5. Sound(s, q)
    BY <1>1, <1>4 DEF InMemory, Sound, Marked
  <1>6. ASSUME NEW v \in L PROVE Known(q, v[1], v[2])
    <2>1. CASE v[1] = r.bucket /\ v[2] = r.token
      BY <1>1, <2>1 DEF Known
    <2>2. ASSUME NEW i \in 1..Len(old), old[i] = [bucket |-> v[1], token |-> v[2]]
          PROVE  Known(q, v[1], v[2])
      <3>1. i # 1
        <4>1. v = <<v[1], v[2]>>
          OBVIOUS
        <4>2. <<gone.bucket, gone.token>> # v
          BY DEF gone, old
        <4>q. QED
          BY <1>2, <2>2, <4>1, <4>2
      <3>2. i - 1 \in 1..Len(q.superseded) /\ q.superseded[i - 1] = old[(i - 1) + 1]
        BY <1>1, <1>2, <3>1
      <3>3. (i - 1) + 1 = i
        OBVIOUS
      <3>q. QED
        BY <2>2, <3>2, <3>3 DEF Known
    <2>3. Known(r, v[1], v[2])
      BY DEF InMemory, Accounts
    <2>q. QED
      BY <2>1, <2>2, <2>3 DEF Known, old
  <1>7. <<q.bucket, q.token>> \in L => Marked(q)
    BY <1>1 DEF InMemory, Accounts, Marked
  <1>q. QED
    BY <1>5, <1>6, <1>7 DEF Accounts

\* A changed outcome's viewer is not there yet, and the old one has a tombstone.
LEMMA ReclassifiedIsSound ==
  ASSUME NEW L, NEW s, NEW r \in Receipts, NEW rev \in Nat, NEW q,
         L \subseteq Buckets \X Tokens, Sound(s, r), Accounts(L, r),
         q = Reclassified(r, rev, s[rev])
  PROVE  Sound(s, q) /\ Accounts(L, q)
  <1> DEFINE S == [bucket : Buckets, token : Tokens]
             old == r.superseded
             new == [bucket |-> r.bucket, token |-> r.token]
             more == Tombstone(r)
  <1>1. /\ q.rev = rev /\ q.code = s[rev].code /\ q.bucket = Bucket(s[rev])
        /\ q.confirmed = FALSE /\ q.token = r.token + 1 /\ q.superseded = more
    BY DEF Reclassified, Receipts
  <1>2. old \in Seq(S) /\ new \in S /\ r.token \in Nat
    BY TokensAssumption DEF Receipts
  <1>3. /\ Len(more) >= Len(old) /\ Len(old) \in Nat /\ Len(more) \in Nat
        /\ \A i \in 1..Len(old) : more[i] = old[i]
        /\ \A i \in 1..Len(more) : i \in 1..Len(old) \/ more[i] = new
        /\ Marked(r) \/ r.confirmed => more[Len(more)] = new /\ Len(more) >= 1
    <2> HIDE DEF S, new, old
    <2>1. CASE Marked(r) \/ r.confirmed
      <3>1. more = Append(old, new)
        BY <2>1 DEF Tombstone, Marked, new, old
      <3>q. QED
        BY <1>2, <3>1
    <2>2. CASE ~(Marked(r) \/ r.confirmed)
      <3>1. more = old
        BY <2>2 DEF Tombstone, Marked, old
      <3>q. QED
        BY <1>2, <2>2, <3>1
    <2>q. QED
      BY <2>1, <2>2
  <1> HIDE DEF more
  <1>4. \A i \in 1..Len(old) : old[i].token < r.token /\ old[i].token \in Nat
    <2>1. \A i \in 1..Len(old) : old[i] \in S
      <3> HIDE DEF S, old
      <3>q. QED
        BY <1>2
    <2>q. QED
      BY <2>1, TokensAssumption DEF Sound
  <1>5. \A i \in 1..Len(more) : more[i].token < r.token + 1
    <2>1. ASSUME NEW i \in 1..Len(more) PROVE more[i].token < r.token + 1
      <3>1. CASE i \in 1..Len(old)
        <4>1. more[i].token < r.token /\ more[i].token \in Nat
          BY <1>3, <1>4, <3>1
        <4>q. QED
          BY <1>2, <4>1
      <3>2. CASE more[i] = new
        BY <1>2, <3>2
      <3>q. QED
        BY <1>3, <3>1, <3>2
    <2>q. QED
      BY <2>1
  <1>6. Sound(s, q)
    BY <1>1, <1>5 DEF Sound
  <1>7. ASSUME NEW v \in L
        PROVE  /\ \E i \in 1..Len(more) : more[i] = [bucket |-> v[1], token |-> v[2]]
               /\ v[2] # q.token
    <2>1. CASE v[1] = r.bucket /\ v[2] = r.token
      <3>1. CASE Marked(r)
        BY <1>1, <1>2, <1>3, <2>1, <3>1
      <3>2. CASE ~Marked(r)
        <4>1. v = <<r.bucket, r.token>>
          BY <2>1
        <4>q. QED
          BY <3>2, <4>1 DEF Accounts
      <3>q. QED
        BY <3>1, <3>2
    <2>2. ASSUME NEW i \in 1..Len(old), old[i] = [bucket |-> v[1], token |-> v[2]]
          PROVE  /\ \E j \in 1..Len(more) : more[j] = [bucket |-> v[1], token |-> v[2]]
                 /\ v[2] # q.token
      <3>1. i \in 1..Len(more) /\ more[i] = old[i]
        BY <1>3
      <3>2. old[i].token = v[2] /\ v[2] < r.token /\ v[2] \in Nat
        BY <1>4, <2>2
      <3>3. v[2] # r.token + 1
        BY <1>2, <3>2
      <3>q. QED
        BY <1>1, <2>2, <3>1, <3>3
    <2>3. Known(r, v[1], v[2])
      BY DEF Accounts
    <2>q. QED
      BY <2>1, <2>2, <2>3 DEF Known
  <1>8. <<q.bucket, q.token>> \notin L
    BY <1>7
  <1>q. QED
    BY <1>1, <1>6, <1>7, <1>8 DEF Accounts, Known

-----------------------------------------------------------------------------
(* The steps of the transfer keep the viewers accounted for.               *)

\* A step of the transfer that changes no more than the marks.
LEMMA StepIsSound ==
  ASSUME ViewerInv, CaptureInv, Grown(Alive, Alive', receipt), cli.at # "idle",
         settled' = settled, SameMark(cli'.r, cli.r),
         receipt' = receipt \/ receipt' = cli'.r,
         cli'.at \in {"open", "reopen"} => cli'.r.gen # 0,
         cli'.at \in {"ready", "confirm"} => cli'.life # 0
  PROVE  ViewerInv'
  <1>1. /\ OnDisk(Alive, settled, receipt)
        /\ InMemory(Alive, settled, receipt, cli.r) /\ cli.r.rev # 0
    BY DEF ViewerInv, CaptureInv
  <1>2. /\ OnDisk(Alive', settled, receipt)
        /\ InMemory(Alive', settled, receipt, cli.r)
    BY <1>1, GrowthIsKnown
  <1>3. InMemory(Alive', settled, receipt, cli'.r) /\ cli'.r.rev # 0
    BY <1>1, <1>2, MarkIsKept DEF SameMark
  <1>4. OnDisk(Alive', settled, cli'.r) /\ InMemory(Alive', settled, cli'.r, cli'.r)
    BY <1>3, WriteIsSound
  <1>5. OnDisk(Alive', settled', receipt') /\ InMemory(Alive', settled', receipt', cli'.r)
    BY <1>2, <1>3, <1>4
  <1>q. QED
    BY <1>5 DEF ViewerInv

\* A transfer that ends, with or without writing its receipt.
LEMMA EndIsSound ==
  ASSUME ViewerInv, CaptureInv, Grown(Alive, Alive', receipt), cli.at # "idle",
         settled' = settled, cli' = Idle, receipt' = receipt \/ receipt' = cli.r
  PROVE  ViewerInv'
  <1>1. /\ OnDisk(Alive, settled, receipt)
        /\ InMemory(Alive, settled, receipt, cli.r) /\ cli.r.rev # 0
    BY DEF ViewerInv, CaptureInv
  <1>2. /\ OnDisk(Alive', settled, receipt)
        /\ InMemory(Alive', settled, receipt, cli.r)
    BY <1>1, GrowthIsKnown
  <1>3. OnDisk(Alive', settled, cli.r)
    BY <1>1, <1>2, WriteIsSound
  <1>4. OnDisk(Alive', settled', receipt')
    BY <1>2, <1>3
  <1>q. QED
    BY <1>4 DEF ViewerInv, Idle

\* A step of somebody else.
LEMMA OthersAreSound ==
  ASSUME TypeInv, ViewerInv, CaptureInv, Grown(Alive, Alive', receipt),
         receipt' = receipt, cli' = cli,
         settled' = settled \/ \E o \in Outcomes : settled' = Append(settled, o)
  PROVE  ViewerInv'
  <1>0. /\ receipt.rev \in Nat /\ cli.r.rev \in Nat /\ settled \in Seq(Outcomes)
        /\ receipt.rev <= Len(settled) /\ cli.r.rev <= Len(settled)
    BY DEF TypeInv, TypeOK, Transfers, Receipts, Numbered
  <1>1. ASSUME NEW i \in Nat, i # 0, i <= Len(settled) PROVE settled'[i] = settled[i]
    BY <1>0, <1>1
  <1>2. /\ OnDisk(Alive, settled, receipt)
        /\ cli.at # "idle" => InMemory(Alive, settled, receipt, cli.r) /\ cli.r.rev # 0
    BY DEF ViewerInv, CaptureInv
  <1>3. /\ OnDisk(Alive', settled, receipt)
        /\ cli.at # "idle" => InMemory(Alive', settled, receipt, cli.r)
    BY <1>2, GrowthIsKnown
  <1>4. receipt.rev # 0 => settled'[receipt.rev] = settled[receipt.rev]
    BY <1>0, <1>1
  <1>5. cli.r.rev # 0 => settled'[cli.r.rev] = settled[cli.r.rev]
    BY <1>0, <1>1
  <1>6. OnDisk(Alive', settled', receipt)
    BY <1>3, <1>4 DEF OnDisk, Sound
  <1>7. cli.at # "idle" => InMemory(Alive', settled', receipt, cli.r)
    BY <1>2, <1>3, <1>5 DEF InMemory, Sound
  <1>q. QED
    BY <1>6, <1>7 DEF ViewerInv

\* A transfer that begins: with a new receipt, the old one, or a changed one.
LEMMA BeginIsSound ==
  ASSUME TypeInv, ViewerInv, NEW rev \in Nat, Begin(rev)
  PROVE  ViewerInv'
  <1> DEFINE o == settled[rev]
             base == IF receipt.rev = 0 THEN New(rev, o) ELSE receipt
             r == IF rev = base.rev THEN base
                  ELSE IF Changed(base, o) THEN Reclassified(base, rev, o)
                  ELSE [base EXCEPT !.rev = rev]
             c == CheckCapture(r)
  <1>0. /\ receipt \in Receipts /\ o \in Outcomes /\ rev # 0
        /\ Alive \subseteq Buckets \X Tokens
    BY DEF TypeInv, TypeOK, Begin, Alive
  <1>1. /\ settled' = settled /\ Alive' = Alive
        /\ receipt' = IF rev > base.rev THEN r ELSE receipt
        /\ receipt.rev <= rev
        /\ cli' = [Idle EXCEPT !.at = IF c.captured THEN "meta" ELSE "adopt",
                               !.r = c]
    BY KeepAll DEF Begin, Alive, Live, SameDrawers, SameWorld
  <1>2. base \in Receipts
    BY <1>0, NewType
  <1>3. /\ OnDisk(Alive, settled, receipt')
        /\ InMemory(Alive, settled, receipt', r)
    <2>1. CASE receipt.rev = 0
      <3>1. r = New(rev, o) /\ receipt' = receipt
        BY <1>0, <1>1, <2>1 DEF New
      <3>2. Alive = {}
        BY <2>1 DEF ViewerInv, OnDisk
      <3> HIDE DEF r
      <3>3. Sound(settled, r)
        BY <3>1 DEF Sound, New
      <3>q. QED
        BY <2>1, <3>1, <3>2, <3>3 DEF OnDisk, InMemory, Accounts
    <2>2. CASE receipt.rev # 0
      <3>1. base = receipt /\ Sound(settled, receipt) /\ Accounts(Alive, receipt)
        BY <2>2 DEF ViewerInv, OnDisk
      <3>2. CASE rev = base.rev
        <4>1. r = receipt /\ receipt' = receipt
          BY <1>0, <1>1, <1>2, <3>1, <3>2 DEF Receipts
        <4> HIDE DEF r
        <4>q. QED
          BY <2>2, <3>1, <4>1 DEF OnDisk, InMemory, SameViewer
      <3>3. CASE rev # base.rev
        <4>1. rev > base.rev /\ receipt' = r
          BY <1>0, <1>1, <1>2, <3>1, <3>3 DEF Receipts
        <4>2. Sound(settled, r) /\ Accounts(Alive, r) /\ r.rev = rev
          <5>1. CASE ~Changed(base, o)
            <6>1. r = [receipt EXCEPT !.rev = rev]
              BY <3>1, <3>3, <5>1
            <6> HIDE DEF r
            <6>2. /\ r.rev = rev /\ r.code = receipt.code /\ r.bucket = receipt.bucket
                  /\ r.confirmed = receipt.confirmed /\ r.identity = receipt.identity
                  /\ r.pending = receipt.pending /\ r.token = receipt.token
                  /\ r.superseded = receipt.superseded
              BY <1>0, <6>1 DEF Receipts
            <6>3. receipt.code = settled[rev].code /\ receipt.bucket = Bucket(settled[rev])
              BY <3>1, <5>1 DEF Changed
            <6>q. QED
              BY <3>1, <6>2, <6>3 DEF Sound, Accounts, Known, Marked
          <5>2. CASE Changed(base, o)
            <6>1. r = Reclassified(receipt, rev, settled[rev])
              BY <3>1, <3>3, <5>2
            <6> HIDE DEF r
            <6>2. r.rev = rev
              BY <1>0, <6>1 DEF Receipts, Reclassified
            <6>q. QED
              BY <1>0, <3>1, <6>1, <6>2, ReclassifiedIsSound
          <5>q. QED
            BY <5>1, <5>2
        <4> HIDE DEF r
        <4>q. QED
          BY <1>0, <4>1, <4>2 DEF OnDisk, InMemory, SameViewer
      <3>q. QED
        BY <3>2, <3>3
    <2>q. QED
      BY <2>1, <2>2
  <1>4. SameMark(c, r)
    <2>1. /\ c.token = r.token /\ c.bucket = r.bucket /\ c.superseded = r.superseded
          /\ c.rev = r.rev /\ c.code = r.code /\ c.identity = r.identity
          /\ c.pending = r.pending /\ c.confirmed = r.confirmed
      BY <1>2 DEF CheckCapture
    <2> HIDE DEF c, r
    <2>q. QED
      BY <2>1 DEF SameMark, SameViewer, Marked
  <1>5. InMemory(Alive, settled, receipt', c)
    BY <1>3, <1>4, MarkIsKept
  <1>6. cli'.r = c /\ cli'.at \in {"meta", "adopt"}
    BY <1>1 DEF Idle
  <1> HIDE DEF c, r, base
  <1>q. QED
    BY <1>1, <1>3, <1>5, <1>6 DEF ViewerInv

\* The steps of the capture and of the metadata leave the viewer alone.
LEMMA CaptureIsSound ==
  ASSUME TypeInv, ViewerInv, CaptureInv, Grown(Alive, Alive', receipt), CaptureStep \/ MetaStep
  PROVE  ViewerInv'
  <1> USE KeepAll
  <1>0. cli \in Transfers /\ cli.r \in Receipts
    BY DEF TypeInv, TypeOK, Transfers
  <1>s. SameMark(cli.r, cli.r)
    BY DEF SameMark, SameViewer
  <1>1. CASE \/ AdoptCapture \/ StartCapture \/ CaptureTerminal
             \/ CaptureTranscript \/ PutManifest \/ CommitCapture
             \/ TerminalFails \/ KeepMeta
    <2>1. /\ cli.at # "idle" /\ cli'.r = cli.r
          /\ cli'.at \notin {"open", "reopen", "ready", "confirm"}
          /\ receipt' = receipt /\ settled' = settled
      BY <1>0, <1>1
         DEF AdoptCapture, StartCapture, CaptureTerminal, CaptureTranscript, Dump,
             PutManifest, CommitCapture, TerminalFails, KeepMeta, Go, Step,
             Transfers, SameWorld
    <2>q. QED
      BY <1>s, <2>1, StepIsSound
  <1>2. CASE RecordCapture \/ PutMeta \/ RecordMeta
    <2>1. PICK r : /\ r \in {[cli.r EXCEPT !.evidence = cli.dump, !.captured = TRUE,
                                           !.meta = FALSE],
                             [cli.r EXCEPT !.meta = FALSE], [cli.r EXCEPT !.meta = TRUE]}
                   /\ \E from, to \in {"record", "meta", "recordMeta", "ensure"} : Step(from, to, r)
                   /\ receipt' = receipt \/ receipt' = r
      BY <1>2 DEF RecordCapture, PutMeta, RecordMeta, Persist
    <2>2. SameMark(r, cli.r)
      BY <1>0, <2>1 DEF Receipts, SameMark, SameViewer, Marked
    <2>3. /\ cli.at # "idle" /\ cli'.r = r
          /\ cli'.at \notin {"open", "reopen", "ready", "confirm"}
      BY <1>0, <2>1 DEF Step, Transfers
    <2>4. settled' = settled
      BY <1>2 DEF RecordCapture, PutMeta, RecordMeta, SameWorld
    <2>q. QED
      BY <2>1, <2>2, <2>3, <2>4, StepIsSound
  <1>q. QED
    BY <1>1, <1>2 DEF CaptureStep, MetaStep

\* The viewer's steps only add marks, with the incarnation of a drawer that is up.
LEMMA ViewerIsSound ==
  ASSUME TypeInv, ServerInv, ViewerInv, CaptureInv, Grown(Alive, Alive', receipt), ViewerStep
  PROVE  ViewerInv'
  <1> USE KeepAll
  <1>0. /\ cli \in Transfers /\ cli.r \in Receipts /\ cli.r.gen \in Nat
        /\ cli.r.bucket \in Buckets
    BY DEF TypeInv, TypeOK, Transfers, Receipts
  <1>s. SameMark(cli.r, cli.r)
    BY DEF SameMark, SameViewer
  <1>1. CASE OpenTab \/ RecoverTab \/ FindPending
    <2>1. /\ cli.at # "idle" /\ cli'.r = cli.r /\ cli'.at \in {"await", "reserveAgain"}
          /\ receipt' = receipt /\ settled' = settled
      BY <1>0, <1>1 DEF OpenTab, RecoverTab, SendRequest, FindPending, Go, Step,
                        Transfers, SameWorld
    <2>q. QED
      BY <1>s, <2>1, StepIsSound
  <1>2. CASE FindReady
    <2>1. /\ cli.at = "ready" /\ cli'.r = cli.r /\ cli'.at = "confirm" /\ cli'.life = cli.life
          /\ receipt' = receipt /\ settled' = settled
      BY <1>0, <1>2 DEF FindReady, Go, Step, Transfers, SameWorld
    <2>2. cli'.life # 0
      BY <2>1 DEF ViewerInv
    <2>q. QED
      BY <1>s, <2>1, <2>2, StepIsSound
  <1>3. CASE Lookup \/ AwaitTab
    <2>1. /\ cli.at # "idle" /\ cli'.r = cli.r /\ cli'.at \in {"reserve", "ready"}
          /\ cli'.life = Here.life /\ receipt' = receipt /\ settled' = settled
          /\ Here.up
      BY <1>0, <1>3 DEF Lookup, AwaitTab, Transfers, SameWorld, Serves, Here
    <2>2. Here.life # 0
      BY <1>0, <2>1 DEF ServerInv, Here
    <2>q. QED
      BY <1>s, <2>1, <2>2, StepIsSound
  <1>4. CASE EnsureDrawer
    <2> DEFINE r == [cli.r EXCEPT !.confirmed = FALSE]
    <2>1. SameMark(r, cli.r)
      BY <1>0 DEF Receipts, SameMark, SameViewer, Marked
    <2> HIDE DEF r
    <2>2. /\ cli.at # "idle" /\ cli'.r = r /\ cli'.at = "lookup"
          /\ receipt' = receipt /\ settled' = settled
      BY <1>0, <1>4 DEF EnsureDrawer, Step, Transfers, SameWorld, r
    <2>q. QED
      BY <2>1, <2>2, StepIsSound
  <1>5. CASE Reserve
    <2> DEFINE r == [cli.r EXCEPT !.identity = 0, !.pending = TRUE, !.gen = @ + 1]
    <2>1. SameMark(r, cli.r) /\ r.gen # 0
      BY <1>0 DEF Receipts, SameMark, SameViewer, Marked
    <2> HIDE DEF r
    <2>2. /\ cli.at # "idle" /\ cli'.r = r /\ cli'.at = "open"
          /\ receipt' = r /\ settled' = settled
      BY <1>0, <1>5 DEF Reserve, Persist, Step, Transfers, SameWorld, r
    <2>q. QED
      BY <2>1, <2>2, StepIsSound
  <1>6. CASE ReserveAgain
    <2> DEFINE r == [cli.r EXCEPT !.identity = cli.life, !.pending = TRUE, !.gen = @ + 1]
    <2>1. SameMark(r, cli.r) /\ r.gen # 0
      BY <1>0 DEF Receipts, SameMark, SameViewer, Marked
    <2> HIDE DEF r
    <2>2. /\ cli.at # "idle" /\ cli' = [cli EXCEPT !.at = "reopen", !.r = r, !.again = TRUE]
          /\ receipt' = r /\ settled' = settled
      BY <1>6 DEF ReserveAgain, SameWorld, r
    <2>3. cli'.r = r /\ cli'.at = "reopen"
      BY <1>0, <2>2 DEF Transfers
    <2>q. QED
      BY <2>1, <2>2, <2>3, StepIsSound
  <1>7. CASE Confirm
    <2> DEFINE r == [cli.r EXCEPT !.identity = cli.life, !.pending = FALSE, !.confirmed = TRUE]
    <2>0. cli.at = "confirm" /\ cli.life # 0
      BY <1>7 DEF Confirm, Persist, Step, ViewerInv
    <2>1. SameMark(r, cli.r)
      BY <1>0, <2>0 DEF Receipts, SameMark, SameViewer, Marked
    <2> HIDE DEF r
    <2>2. /\ cli'.r = r /\ cli'.at = "retire" /\ receipt' = r /\ settled' = settled
      BY <1>0, <1>7 DEF Confirm, Persist, Step, Transfers, SameWorld, r
    <2>q. QED
      BY <2>0, <2>1, <2>2, StepIsSound
  <1>q. QED
    BY <1>1, <1>2, <1>3, <1>4, <1>5, <1>6, <1>7 DEF ViewerStep

\* A tombstone is dropped when its viewer cannot come back.
LEMMA RetireIsSound ==
  ASSUME TypeInv, ViewerInv, RetireInv, CaptureInv, Grown(Alive, Alive', receipt), RetireStep
  PROVE  ViewerInv'
  <1> USE KeepAll
  <1>s. SameMark(cli.r, cli.r) /\ cli \in Transfers /\ cli.r \in Receipts
    BY DEF SameMark, SameViewer, TypeInv, TypeOK, Transfers
  <1>1. CASE NoneToRetire \/ EnsureOldDrawer \/ CloseOldViewer \/ SaveOldDrawer \/ ProveRetired
    <2>1. /\ cli.at # "idle" /\ cli'.r = cli.r
          /\ cli'.at \notin {"open", "reopen", "ready", "confirm"}
          /\ receipt' = receipt /\ settled' = settled
      BY <1>s, <1>1 DEF NoneToRetire, EnsureOldDrawer, CloseOldViewer, SaveOldDrawer,
                        ProveRetired, Go, Step, Transfers, SameWorld
    <2>q. QED
      BY <1>s, <2>1, StepIsSound
  <1>2. CASE DropTombstone
    <2> DEFINE q == [cli.r EXCEPT !.superseded = Tail(@)]
    <2>1. /\ cli.at = "drop" /\ cli' = [cli EXCEPT !.at = "retire", !.r = q] /\ receipt' = q
          /\ settled' = settled /\ UNCHANGED drawer
      BY <1>2 DEF DropTombstone, Persist, Step, SameWorld, SameDrawers
    <2>2. q.rev = cli.r.rev /\ cli.r.rev # 0
      BY <1>s, <2>1 DEF Receipts, CaptureInv
    <2>3. cli.r.superseded # <<>>
      BY <2>1 DEF TypeInv, Retiring
    <2>4. ~Live(Old.bucket, Old.token)
      BY <2>1 DEF RetireInv, Leaving, Live, Open, Saved, Saving, OldDrawer
    <2>5. <<Head(cli.r.superseded).bucket, Head(cli.r.superseded).token>> \notin Alive
      BY <2>4 DEF Alive, Old
    <2>6. InMemory(Alive, settled, receipt, cli.r) /\ Alive \subseteq Buckets \X Tokens
      BY <2>1 DEF ViewerInv, Alive
    <2>7. Sound(settled, q) /\ Accounts(Alive, q)
      BY <1>s, <2>3, <2>5, <2>6, DropIsSound
    <2> HIDE DEF q
    <2>8. OnDisk(Alive, settled, q) /\ InMemory(Alive, settled, q, q)
      BY <2>2, <2>7 DEF OnDisk, InMemory, SameViewer
    <2>9. Alive' = Alive /\ cli'.r = q /\ cli'.at = "retire"
      BY <1>s, <2>1 DEF Alive, Live, Transfers
    <2>q. QED
      BY <2>1, <2>8, <2>9 DEF ViewerInv
  <1>q. QED
    BY <1>1, <1>2 DEF RetireStep

\* Every step keeps the viewers accounted for.
LEMMA ViewersKept ==
  ASSUME TypeInv, ServerInv, ViewerInv, RetireInv, CaptureInv, [Next]_vars
  PROVE  ViewerInv'
  <1> USE KeepAll
  <1>g. Grown(Alive, Alive', receipt)
    BY ServersKept, EffectGrows
  <1>0. cli \in Transfers /\ cli.r \in Receipts
    BY DEF TypeInv, TypeOK, Transfers
  <1>s. SameMark(cli.r, cli.r)
    BY DEF SameMark, SameViewer
  <1>1. CASE \E rev \in 1..MaxSettled : Begin(rev)
    BY <1>1, BeginIsSound
  <1>2. CASE Rebind
    <2> DEFINE r == [cli.r EXCEPT !.evidence.life = originLife]
    <2>1. SameMark(r, cli.r)
      BY <1>0 DEF Receipts, SameMark, SameViewer, Marked
    <2>2. /\ cli.at # "idle" /\ settled' = settled
          /\ \/ Step("rebind", "closeOrigin", r) /\ receipt' = r
             \/ Step("rebind", "closeOrigin", cli.r) /\ receipt' = receipt
      BY <1>2 DEF Rebind, Persist, Go, Step, SameWorld
    <2> HIDE DEF r
    <2>3. /\ SameMark(cli'.r, cli.r) /\ cli'.at = "closeOrigin"
          /\ receipt' = receipt \/ receipt' = cli'.r
      BY <1>0, <1>s, <2>1, <2>2 DEF Step, Transfers
    <2>q. QED
      BY <1>g, <2>2, <2>3, StepIsSound
  <1>3. CASE CloseOrigin
    <2>1. /\ cli.at # "idle" /\ cli'.r = cli.r /\ cli'.at = "finish"
          /\ receipt' = receipt /\ settled' = settled
      BY <1>0, <1>3 DEF CloseOrigin, Go, Step, Transfers
    <2>q. QED
      BY <1>g, <1>s, <2>1, StepIsSound
  <1>4. CASE Finish \/ FailTransfer \/ Crash
    <2>1. /\ cli.at # "idle" /\ cli' = Idle /\ settled' = settled
          /\ receipt' = receipt \/ receipt' = cli.r
      BY <1>4 DEF Finish, FailTransfer, Crash, SameWorld, worldVars
    <2>q. QED
      BY <1>g, <2>1, EndIsSound
  <1>5. CASE \/ DrawerStep /\ Others
             \/ \E o \in Outcomes : Settle(o)
             \/ Damage \/ OriginChanges \/ UNCHANGED vars
    <2>1. ASSUME DrawerStep PROVE receipt' = receipt
      BY <2>1, DrawerStepTypes DEF TypeInv, TypeOK
    <2>2. /\ UNCHANGED <<receipt, cli>>
          /\ settled' = settled \/ \E o \in Outcomes : settled' = Append(settled, o)
      BY <1>5, <2>1 DEF Others, Settle, Damage, OriginChanges, vars, worldVars
    <2>q. QED
      BY <1>g, <2>2, OthersAreSound
  <1>q. QED
    BY <1>1, <1>2, <1>3, <1>4, <1>5, <1>g, CaptureIsSound, ViewerIsSound, RetireIsSound
       DEF Next, TransferStep, OriginStep

-----------------------------------------------------------------------------
(* The order of the transfer.                                              *)

\* What was captured and written of it.
SameMeta(q, r) == q.captured = r.captured /\ q.meta = r.meta /\ MetaOf(q) = MetaOf(r)

\* A step once the metadata is written.
LEMMA OrderStays ==
  ASSUME OrderInv, metaFile' = metaFile, cli.at \in Written, cli'.at \in Written,
         SameMeta(cli'.r, cli.r),
         cli'.at \in Confirmed => cli'.r.confirmed /\ receipt' = cli'.r,
         cli'.at \in Retired => cli'.r.superseded = <<>>
  PROVE  OrderInv'
  BY DEF OrderInv, SameMeta, Written, Confirmed, Retired

\* Places before that.
LEMMA OrderBefore ==
  ASSUME cli'.at \notin {"meta", "recordMeta"} \cup Written
  PROVE  OrderInv'
  BY DEF OrderInv, Written, Confirmed, Retired

\* The capture comes first, then the metadata.
LEMMA CaptureInOrder ==
  ASSUME TypeInv, CaptureStep \/ MetaStep, OrderInv
  PROVE  OrderInv'
  <1> USE KeepAll
  <1>0. cli \in Transfers /\ cli.r \in Receipts
    BY DEF TypeInv, TypeOK, Transfers
  <1>1. CASE \/ AdoptCapture \/ StartCapture \/ CaptureTerminal
             \/ CaptureTranscript \/ PutManifest \/ CommitCapture
             \/ TerminalFails
    <2>1. cli'.at \in Capturing
      BY <1>0, <1>1
         DEF AdoptCapture, StartCapture, CaptureTerminal, CaptureTranscript, Dump,
             PutManifest, CommitCapture, TerminalFails, Go, Step,
             Transfers, Capturing
    <2>q. QED
      BY <2>1, OrderBefore DEF Capturing, Written, Confirmed, Retired
  <1>2. CASE RecordCapture
    <2> DEFINE r == [cli.r EXCEPT !.evidence = cli.dump, !.captured = TRUE, !.meta = FALSE]
    <2>1. r.captured
      BY <1>0 DEF Receipts
    <2> HIDE DEF r
    <2>2. cli'.r = r /\ cli'.at = "meta"
      BY <1>0, <1>2 DEF RecordCapture, Persist, Step, Transfers, r
    <2>q. QED
      BY <2>1, <2>2 DEF OrderInv, Written, Confirmed, Retired
  <1>3. CASE PutMeta
    <2> DEFINE r == [cli.r EXCEPT !.meta = FALSE]
    <2>1. r.captured = cli.r.captured /\ MetaOf(r) = MetaOf(cli.r)
      BY <1>0 DEF Receipts, MetaOf
    <2> HIDE DEF r
    <2>2. /\ cli'.r = r /\ cli'.at = "recordMeta" /\ cli.at = "meta"
          /\ metaFile' = {MetaOf(cli.r)}
      BY <1>0, <1>3 DEF PutMeta, Step, Transfers, r
    <2>q. QED
      BY <2>1, <2>2 DEF OrderInv, Written, Confirmed, Retired
  <1>4. CASE RecordMeta
    <2> DEFINE r == [cli.r EXCEPT !.meta = TRUE]
    <2>1. r.captured = cli.r.captured /\ r.meta /\ MetaOf(r) = MetaOf(cli.r)
      BY <1>0 DEF Receipts, MetaOf
    <2> HIDE DEF r
    <2>2. /\ cli'.r = r /\ cli'.at = "ensure" /\ cli.at = "recordMeta"
          /\ metaFile' = metaFile
      BY <1>0, <1>4 DEF RecordMeta, Persist, Step, Transfers, SameFiles, r
    <2>q. QED
      BY <2>1, <2>2 DEF OrderInv, Written, Confirmed, Retired
  <1>5. CASE KeepMeta
    <2>1. /\ cli'.r = cli.r /\ cli'.at = "ensure" /\ cli.at = "meta" /\ cli.r.meta
          /\ metaFile' = metaFile /\ metaFile = {MetaOf(cli.r)}
      BY <1>0, <1>5 DEF KeepMeta, MetaIsWritten, Go, Step, Transfers, SameFiles
    <2>q. QED
      BY <2>1 DEF OrderInv, Written, Confirmed, Retired
  <1>q. QED
    BY <1>1, <1>2, <1>3, <1>4, <1>5 DEF CaptureStep, MetaStep

\* Then the viewer is confirmed, and the receipt says so.
LEMMA ViewerInOrder ==
  ASSUME TypeInv, ViewerStep, OrderInv
  PROVE  OrderInv'
  <1> USE KeepAll
  <1>0. cli \in Transfers /\ cli.r \in Receipts
    BY DEF TypeInv, TypeOK, Transfers
  <1>1. CASE Lookup \/ OpenTab \/ AwaitTab \/ FindReady \/ FindPending \/ RecoverTab
    <2>1. /\ cli.at \in Written /\ cli'.at \in Written \ Confirmed /\ cli'.r = cli.r
          /\ metaFile' = metaFile
      BY <1>0, <1>1 DEF Lookup, OpenTab, AwaitTab, FindReady, FindPending, RecoverTab,
                        SendRequest, Go, Step, Transfers, SameFiles, Written, Confirmed, Retired
    <2>q. QED
      BY <2>1, OrderStays DEF SameMeta, Confirmed
  <1>2. CASE EnsureDrawer \/ Reserve \/ ReserveAgain
    <2>1. PICK r : /\ r \in {[cli.r EXCEPT !.confirmed = FALSE],
                             [cli.r EXCEPT !.identity = 0, !.pending = TRUE, !.gen = @ + 1],
                             [cli.r EXCEPT !.identity = cli.life, !.pending = TRUE, !.gen = @ + 1]}
                   /\ \E to \in {"lookup", "open", "reopen"} :
                        \/ cli' = [cli EXCEPT !.at = to, !.r = r]
                        \/ cli' = [cli EXCEPT !.at = to, !.r = r, !.again = TRUE]
      BY <1>2 DEF EnsureDrawer, Reserve, ReserveAgain, Persist, Step
    <2>2. SameMeta(r, cli.r)
      BY <1>0, <2>1 DEF Receipts, SameMeta, MetaOf
    <2>3. cli'.r = r /\ cli'.at \in {"lookup", "open", "reopen"}
      BY <1>0, <2>1 DEF Transfers
    <2>4. cli.at \in {"ensure", "reserve", "reserveAgain"} /\ metaFile' = metaFile
      BY <1>2 DEF EnsureDrawer, Reserve, ReserveAgain, Persist, Step, SameFiles
    <2>q. QED
      BY <2>2, <2>3, <2>4, OrderStays DEF Written, Confirmed, Retired
  <1>3. CASE Confirm
    <2> DEFINE r == [cli.r EXCEPT !.identity = cli.life, !.pending = FALSE, !.confirmed = TRUE]
    <2>1. SameMeta(r, cli.r) /\ r.confirmed
      BY <1>0 DEF Receipts, SameMeta, MetaOf
    <2> HIDE DEF r
    <2>2. /\ cli'.r = r /\ cli'.at = "retire" /\ cli.at = "confirm" /\ receipt' = r
          /\ metaFile' = metaFile
      BY <1>0, <1>3 DEF Confirm, Persist, Step, Transfers, SameFiles, r
    <2>q. QED
      BY <2>1, <2>2, OrderStays DEF Written, Confirmed, Retired
  <1>q. QED
    BY <1>1, <1>2, <1>3 DEF ViewerStep

\* Then no tombstone is left, and the origin is closed.
LEMMA RetireInOrder ==
  ASSUME TypeInv, RetireStep \/ Rebind \/ CloseOrigin, OrderInv
  PROVE  OrderInv'
  <1> USE KeepAll
  <1>0. cli \in Transfers /\ cli.r \in Receipts
    BY DEF TypeInv, TypeOK, Transfers
  <1>c. cli.at \in Confirmed => cli.r.confirmed /\ receipt = cli.r
    BY DEF OrderInv
  <1>1. CASE EnsureOldDrawer \/ CloseOldViewer \/ SaveOldDrawer \/ ProveRetired
    <2>1. /\ cli.at \in {"retire", "close", "save", "prove"}
          /\ cli'.at \in {"close", "save", "prove", "drop"}
          /\ cli'.r = cli.r /\ metaFile' = metaFile /\ receipt' = receipt
      BY <1>0, <1>1 DEF EnsureOldDrawer, CloseOldViewer, SaveOldDrawer, ProveRetired,
                        Go, Step, Transfers, SameFiles
    <2>q. QED
      BY <1>c, <2>1, OrderStays DEF SameMeta, Written, Confirmed, Retired
  <1>2. CASE NoneToRetire
    <2>1. /\ cli.at = "retire" /\ cli'.at = "rebind" /\ cli.r.superseded = <<>>
          /\ cli'.r = cli.r /\ metaFile' = metaFile /\ receipt' = receipt
      BY <1>0, <1>2 DEF NoneToRetire, Go, Step, Transfers, SameFiles
    <2>q. QED
      BY <1>c, <2>1, OrderStays DEF SameMeta, Written, Confirmed, Retired
  <1>3. CASE CloseOrigin
    <2>1. /\ cli.at = "closeOrigin" /\ cli'.at = "finish"
          /\ cli'.r = cli.r /\ metaFile' = metaFile /\ receipt' = receipt
      BY <1>0, <1>3 DEF CloseOrigin, Go, Step, Transfers, SameFiles
    <2>2. cli.r.superseded = <<>>
      BY <2>1 DEF OrderInv, Retired
    <2>q. QED
      BY <1>c, <2>1, <2>2, OrderStays DEF SameMeta, Written, Confirmed, Retired
  <1>4. CASE DropTombstone
    <2> DEFINE r == [cli.r EXCEPT !.superseded = Tail(@)]
    <2>1. SameMeta(r, cli.r) /\ r.confirmed = cli.r.confirmed
      BY <1>0 DEF Receipts, SameMeta, MetaOf
    <2> HIDE DEF r
    <2>2. /\ cli'.r = r /\ cli'.at = "retire" /\ cli.at = "drop" /\ receipt' = r
          /\ metaFile' = metaFile
      BY <1>0, <1>4 DEF DropTombstone, Persist, Step, Transfers, SameFiles, r
    <2>q. QED
      BY <1>c, <2>1, <2>2, OrderStays DEF Written, Confirmed, Retired
  <1>5. CASE Rebind
    <2> DEFINE r == [cli.r EXCEPT !.evidence.life = originLife]
    <2>1. SameMeta(r, cli.r) /\ r.confirmed = cli.r.confirmed /\ r.superseded = cli.r.superseded
      BY <1>0 DEF Receipts, Evidence, SameMeta, MetaOf
    <2>2. /\ \/ Step("rebind", "closeOrigin", r) /\ receipt' = r
             \/ Step("rebind", "closeOrigin", cli.r) /\ receipt' = receipt
          /\ metaFile' = metaFile /\ cli.at = "rebind"
      BY <1>5 DEF Rebind, Persist, Go, Step, SameFiles
    <2> HIDE DEF r
    <2>3. /\ cli'.at = "closeOrigin"
          /\ (cli'.r = r /\ receipt' = r) \/ (cli'.r = cli.r /\ receipt' = receipt)
      BY <1>0, <2>2 DEF Step, Transfers
    <2>4. cli.r.superseded = <<>>
      BY <2>2 DEF OrderInv, Retired
    <2>q. QED
      BY <1>c, <2>1, <2>2, <2>3, <2>4, OrderStays DEF SameMeta, Written, Confirmed, Retired
  <1>q. QED
    BY <1>1, <1>2, <1>3, <1>4, <1>5 DEF RetireStep

\* Every step keeps the order.
LEMMA OrderKept ==
  ASSUME TypeInv, OrderInv, [Next]_vars
  PROVE  OrderInv'
  <1> USE KeepAll
  <1>1. ASSUME NEW rev \in 1..MaxSettled, Begin(rev) PROVE OrderInv'
    <2>1. PICK c : cli' = [Idle EXCEPT !.at = IF c.captured THEN "meta" ELSE "adopt", !.r = c]
      BY <1>1 DEF Begin
    <2>2. cli'.r = c /\ cli'.at = (IF c.captured THEN "meta" ELSE "adopt")
      BY <2>1 DEF Idle
    <2>q. QED
      BY <2>2 DEF OrderInv, Written, Confirmed, Retired
  <1>2. CASE Finish \/ FailTransfer \/ Crash
    <2>1. cli'.at = "idle"
      BY <1>2 DEF Finish, FailTransfer, Crash, Idle
    <2>q. QED
      BY <2>1, OrderBefore DEF Written, Confirmed, Retired
  <1>3. CASE \/ DrawerStep /\ Others
             \/ \E o \in Outcomes : Settle(o)
             \/ Damage \/ OriginChanges \/ UNCHANGED vars
    <2>1. ASSUME DrawerStep PROVE receipt' = receipt
      BY <2>1, DrawerStepTypes DEF TypeInv, TypeOK
    <2>2. UNCHANGED <<receipt, cli, metaFile>>
      BY <1>3, <2>1 DEF Others, Settle, Damage, OriginChanges, vars, worldVars, fileVars, SameFiles
    <2>q. QED
      BY <2>2 DEF OrderInv
  <1>q. QED
    BY <1>1, <1>2, <1>3, CaptureInOrder, ViewerInOrder, RetireInOrder
       DEF Next, TransferStep, OriginStep

-----------------------------------------------------------------------------
(* The retirement of a viewer.                                             *)

\* What a drawer may do to a viewer that is not the receipt's.
LEMMA LeavingStays ==
  ASSUME TypeInv, NEW b \in Buckets, NEW t \in Tokens, NEW at, Effect(b), ~Fresh(b, t),
         Leaving(at, drawer[b], t)
  PROVE  Leaving(at, drawer'[b], t)
  <1>1. CASE Touched(b)
    BY <1>1 DEF Touched, Leaving, Open, Saved, Saving
  <1>2. CASE Restarted(b)
    BY <1>2 DEF Restarted, Leaving, Open, Saved, Saving
  <1>3. CASE Captures(b)
    BY <1>3 DEF Captures, Leaving, Open, Saved, Saving
  <1>4. CASE Landed(b)
    BY <1>4 DEF Landed, Leaving, Open, Saved, Saving
  <1>q. QED
    BY <1>1, <1>2, <1>3, <1>4 DEF Effect

\* The viewer that is retired is an earlier one than the receipt's.
LEMMA OldIsNotFresh ==
  ASSUME TypeInv, ViewerInv, OrderInv, cli.at \in Retiring
  PROVE  ~Fresh(Old.bucket, Old.token)
  <1>1. cli.r.superseded # <<>> /\ receipt = cli.r /\ cli.r.token \in Nat
    BY TokensAssumption DEF TypeInv, TypeOK, Transfers, Receipts, OrderInv, Retiring, Confirmed
  <1>2. Old = cli.r.superseded[1] /\ Len(cli.r.superseded) >= 1 /\ Old.token \in Nat
    BY <1>1, OldType, TokensAssumption
  <1>3. Len(cli.r.superseded) \in Nat
    BY DEF TypeInv, TypeOK, Transfers, Receipts
  <1>4. \A i \in 1..Len(cli.r.superseded) : cli.r.superseded[i].token < cli.r.token
    BY DEF ViewerInv, InMemory, Sound, Retiring
  <1>5. Old.token < cli.r.token
    BY <1>2, <1>3, <1>4
  <1>q. QED
    BY <1>1, <1>2, <1>5 DEF Fresh

\* Every step keeps a retired viewer from coming back.
LEMMA RetireKept ==
  ASSUME TypeInv, ServerInv, ViewerInv, OrderInv, RetireInv, [Next]_vars
  PROVE  RetireInv'
  <1> USE KeepAll
  <1>0. cli \in Transfers
    BY DEF TypeInv, TypeOK
  <1>1. ASSUME cli'.at \notin {"save", "prove", "drop"} PROVE RetireInv'
    BY <1>1 DEF RetireInv, Leaving
  <1>2. ASSUME cli.at \in Retiring, cli'.r = cli.r, Leaving(cli'.at, OldDrawer, Old.token)
        PROVE  RetireInv'
    <2>1. Old.bucket \in Buckets /\ Old.token \in Tokens
      BY <1>2, OldType DEF TypeInv
    <2>2. Effect(Old.bucket) /\ ~Fresh(Old.bucket, Old.token)
      BY <1>2, <2>1, ServersKept, OldIsNotFresh
    <2>3. Leaving(cli'.at, drawer'[Old.bucket], Old.token)
      BY <1>2, <2>1, <2>2, LeavingStays DEF OldDrawer
    <2>q. QED
      BY <1>2, <2>3 DEF RetireInv, OldDrawer, Old
  <1>3. CASE CloseOldViewer
    <2>1. /\ cli.at = "close" /\ cli'.at = "save" /\ cli'.r = cli.r
          /\ drawer' = WithTab(Old.bucket, Old.token, "none")
      BY <1>0, <1>3 DEF CloseOldViewer, Go, Step, Transfers
    <2>2. Old.bucket \in Buckets /\ Old.token \in Tokens
      BY <2>1, OldType DEF TypeInv, Retiring
    <2>3. drawer'[Old.bucket].tab[Old.token] = "none"
      BY <2>1, <2>2, WithTabDoes DEF TypeInv, TypeOK, DrawerTypeOK
    <2>4. Old' = Old
      BY <2>1 DEF Old
    <2>q. QED
      BY <2>1, <2>3, <2>4 DEF RetireInv, Leaving, OldDrawer, Open
  <1>4. CASE SaveOldDrawer
    <2>1. /\ cli.at = "save" /\ cli'.at = "prove" /\ cli'.r = cli.r
          /\ drawer' = Capture(Old.bucket)
      BY <1>0, <1>4 DEF SaveOldDrawer, Go, Step, Transfers
    <2>2. Old.bucket \in Buckets /\ Old.token \in Tokens
      BY <2>1, OldType DEF TypeInv, Retiring
    <2>3. Captures(Old.bucket)
      BY <2>1, <2>2, CaptureDoes DEF TypeInv, TypeOK, DrawerTypeOK
    <2>4. Open(OldDrawer, Old.token) => Saved(OldDrawer, Old.token)
      BY <2>1 DEF RetireInv, Leaving
    <2>5. Leaving("prove", drawer'[Old.bucket], Old.token)
      BY <2>2, <2>3, <2>4 DEF Captures, Leaving, Open, Saved, Saving, OldDrawer
    <2>6. Old' = Old
      BY <2>1 DEF Old
    <2>q. QED
      BY <2>1, <2>5, <2>6 DEF RetireInv, OldDrawer
  <1>5. CASE ProveRetired
    <2>1. /\ cli.at = "prove" /\ cli'.at = "drop" /\ cli'.r = cli.r
          /\ SavedWithout(OldDrawer, Old.token) /\ ~Open(OldDrawer, Old.token)
      BY <1>0, <1>5 DEF ProveRetired, Go, Step, Transfers, Open
    <2>2. Old.bucket \in Buckets
      BY <2>1, OldType DEF TypeInv, Retiring
    <2>3. ~Saved(OldDrawer, Old.token)
      BY <2>1, <2>2 DEF ServerInv, SavedWithout, Saved, OldDrawer
    <2>4. ~Saving(OldDrawer, Old.token)
      BY <2>1, <2>3 DEF RetireInv, Leaving
    <2>5. Leaving("drop", OldDrawer, Old.token)
      BY <2>1, <2>3, <2>4 DEF Leaving
    <2>q. QED
      BY <1>2, <2>1, <2>5 DEF Retiring
  <1>6. CASE NoneToRetire \/ EnsureOldDrawer \/ DropTombstone
    <2>1. cli'.at \in {"rebind", "close", "retire"}
      BY <1>0, <1>6 DEF NoneToRetire, EnsureOldDrawer, DropTombstone, Persist, Go, Step, Transfers
    <2>q. QED
      BY <1>1, <2>1
  <1>7. CASE CaptureStep \/ MetaStep
    <2>1. cli'.at \notin {"save", "prove", "drop"}
      BY <1>0, <1>7
         DEF CaptureStep, AdoptCapture, StartCapture, CaptureTerminal, CaptureTranscript,
             Dump, PutManifest, CommitCapture, TerminalFails, RecordCapture, MetaStep,
             PutMeta, RecordMeta, KeepMeta, Persist, Go, Step, Transfers
    <2>q. QED
      BY <1>1, <2>1
  <1>8. CASE ViewerStep
    <2>1. cli'.at \notin {"save", "prove", "drop"}
      BY <1>0, <1>8
         DEF ViewerStep, EnsureDrawer, Lookup, Reserve, OpenTab, AwaitTab, FindReady,
             FindPending, ReserveAgain, RecoverTab, Confirm, SendRequest, Persist, Go,
             Step, Transfers
    <2>q. QED
      BY <1>1, <2>1
  <1>9. CASE OriginStep \/ FailTransfer \/ Crash
    <2>1. ASSUME NEW r, Step("rebind", "closeOrigin", r) \/ Step("closeOrigin", "finish", r)
          PROVE  cli'.at \in {"closeOrigin", "finish"}
      BY <1>0, <2>1 DEF Step, Transfers
    <2>2. CASE Rebind \/ CloseOrigin
      <3>1. cli'.at \in {"closeOrigin", "finish"}
        BY <2>1, <2>2 DEF Rebind, CloseOrigin, Persist, Go
      <3>q. QED
        BY <1>1, <3>1
    <2>3. CASE Finish \/ FailTransfer \/ Crash
      <3>1. cli'.at = "idle"
        BY <2>3 DEF Finish, FailTransfer, Crash, Idle
      <3>q. QED
        BY <1>1, <3>1
    <2>q. QED
      BY <1>9, <2>2, <2>3 DEF OriginStep
  <1>b. ASSUME NEW rev \in 1..MaxSettled, Begin(rev) PROVE RetireInv'
    <2>1. PICK c : cli' = [Idle EXCEPT !.at = IF c.captured THEN "meta" ELSE "adopt", !.r = c]
      BY <1>b DEF Begin
    <2>2. cli'.at \in {"meta", "adopt"}
      BY <2>1 DEF Idle
    <2>q. QED
      BY <1>1, <2>2
  <1>10. CASE \/ DrawerStep /\ Others
              \/ \E o \in Outcomes : Settle(o)
              \/ Damage \/ OriginChanges \/ UNCHANGED vars
    <2>1. cli' = cli
      BY <1>10 DEF Others, Settle, Damage, OriginChanges, vars
    <2>2. CASE cli.at \in {"save", "prove", "drop"}
      BY <1>2, <2>1, <2>2 DEF RetireInv, Retiring
    <2>q. QED
      BY <1>1, <2>1, <2>2
  <1>q. QED
    BY <1>3, <1>4, <1>5, <1>6, <1>7, <1>8, <1>9, <1>10, <1>b
       DEF Next, TransferStep, RetireStep

-----------------------------------------------------------------------------
(* The theorems.                                                           *)

TransferInv == ServerInv /\ ViewerInv /\ OrderInv /\ RetireInv

\* The invariants of the servers, the viewers, the order and the retirement
\* hold together.
LEMMA TransferInvKept ==
  TypeInv /\ CaptureInv /\ TransferInv /\ [Next]_vars => TransferInv'
  BY ServersKept, ViewersKept, OrderKept, RetireKept DEF TransferInv

\* At first there is no viewer, no capture and no transfer.
LEMMA InitTransfer == Init => TransferInv /\ CaptureInv /\ FilesInv
  <1> SUFFICES ASSUME Init PROVE TransferInv /\ CaptureInv /\ FilesInv
    OBVIOUS
  <1>1. /\ receipt = NoReceipt /\ cli.at = "idle" /\ drawer = [b \in Buckets |->
                 [up |-> FALSE, life |-> 0, tab |-> NoTabs,
                  local |-> [t \in Tokens |-> 0], saved |-> {}, saving |-> {}]]
        /\ requests = {} /\ busy = {} /\ staged = {}
    BY DEF Init, DrawerInit, Idle
  <1>2. NoReceipt.rev = 0 /\ NoReceipt.captured = FALSE
    BY DEF NoReceipt, New
  <1>3. \A b \in Buckets : /\ drawer[b].up = FALSE /\ drawer[b].tab = NoTabs
                           /\ drawer[b].saved = {} /\ drawer[b].saving = {}
    <2> DEFINE none == [t \in Tokens |-> 0]
    <2>1. drawer = [b \in Buckets |->
                 [up |-> FALSE, life |-> 0, tab |-> NoTabs,
                  local |-> none, saved |-> {}, saving |-> {}]]
      BY <1>1
    <2> HIDE DEF none
    <2>q. QED
      BY <2>1
  <1>4. Alive = {}
    BY <1>3 DEF Alive, Live, NoTabs
  <1>5. ViewerInv
    BY <1>1, <1>2, <1>4 DEF ViewerInv, OnDisk
  <1>6. ServerInv
    BY <1>1, <1>3 DEF ServerInv
  <1>7. OrderInv /\ RetireInv
    BY <1>1 DEF OrderInv, RetireInv, Leaving, Written, Confirmed, Retired
  <1>8. CaptureInv /\ FilesInv
    BY <1>1, <1>2 DEF CaptureInv, FilesInv, Capturing
  <1>q. QED
    BY <1>5, <1>6, <1>7, <1>8 DEF TransferInv

\* Together they hold in every state.
LEMMA TransferFromTheStart == Spec => [](TypeInv /\ CaptureInv /\ TransferInv)
  <1>q. QED
    BY InitTransfer, TypesFromTheStart, CaptureInvKept, TransferInvKept, PTL DEF Spec

\* Only CloseOrigin takes a tab away and goes on.
LEMMA OnlyCloseOrigin ==
  ASSUME [Next]_vars, cli'.at # cli.at, origin' # origin
  PROVE  CloseOrigin
  <1> USE KeepAll
  <1>1. CASE CaptureStep \/ MetaStep
    BY <1>1 DEF CaptureStep, AdoptCapture, StartCapture, CaptureTerminal, CaptureTranscript,
                Dump, PutManifest, CommitCapture, TerminalFails, RecordCapture, MetaStep,
                PutMeta, RecordMeta, KeepMeta, SameWorld
  <1>2. CASE ViewerStep \/ RetireStep
    BY <1>2 DEF ViewerStep, EnsureDrawer, Lookup, Reserve, OpenTab, AwaitTab, FindReady,
                FindPending, ReserveAgain, RecoverTab, Confirm, SendRequest, RetireStep,
                NoneToRetire, EnsureOldDrawer, CloseOldViewer, SaveOldDrawer, ProveRetired,
                DropTombstone, SameWorld
  <1>3. CASE Rebind \/ Finish \/ FailTransfer \/ Crash \/ \E rev \in 1..MaxSettled : Begin(rev)
    BY <1>3 DEF Rebind, Finish, FailTransfer, Crash, Begin, SameWorld, worldVars
  <1>4. CASE \/ DrawerStep /\ Others
             \/ \E o \in Outcomes : Settle(o)
             \/ Damage \/ OriginChanges \/ UNCHANGED vars
    BY <1>4 DEF Others, Settle, Damage, OriginChanges, vars
  <1>q. QED
    BY <1>1, <1>2, <1>3, <1>4 DEF Next, TransferStep, OriginStep

\* Where a transfer succeeds, or ends after its last step.
LEMMA AtFinish ==
  ASSUME [Next]_vars, done' # done \/ (cli.at = "finish" /\ cli'.at = "idle")
  PROVE  cli.at = "finish" /\ (receipt' = receipt \/ receipt' = cli.r)
  <1> USE KeepAll
  <1>1. CASE CaptureStep \/ MetaStep
    BY <1>1 DEF CaptureStep, AdoptCapture, StartCapture, CaptureTerminal, CaptureTranscript,
                Dump, PutManifest, CommitCapture, TerminalFails, RecordCapture, MetaStep,
                PutMeta, RecordMeta, KeepMeta, Persist, Go, Step, SameWorld
  <1>2. CASE ViewerStep \/ RetireStep
    BY <1>2 DEF ViewerStep, EnsureDrawer, Lookup, Reserve, OpenTab, AwaitTab, FindReady,
                FindPending, ReserveAgain, RecoverTab, Confirm, SendRequest, RetireStep,
                NoneToRetire, EnsureOldDrawer, CloseOldViewer, SaveOldDrawer, ProveRetired,
                DropTombstone, Persist, Go, Step, SameWorld
  <1>3. CASE Rebind \/ CloseOrigin \/ \E rev \in 1..MaxSettled : Begin(rev)
    BY <1>3 DEF Rebind, CloseOrigin, Begin, Persist, Go, Step, SameWorld
  <1>4. CASE Finish \/ FailTransfer \/ Crash
    BY <1>4 DEF Finish, FailTransfer, Crash, SameWorld, worldVars
  <1>5. CASE \/ DrawerStep /\ Others
             \/ \E o \in Outcomes : Settle(o)
             \/ Damage \/ OriginChanges \/ UNCHANGED vars
    BY <1>5 DEF Others, Settle, Damage, OriginChanges, vars
  <1>q. QED
    BY <1>1, <1>2, <1>3, <1>4, <1>5 DEF Next, TransferStep, OriginStep

(* No viewer is forgotten: a viewer tab that is open, saved or about to be  *)
(* saved is the receipt's or has a tombstone in it, for any number of       *)
(* outcomes, drawers, viewers and faults, and whatever arrives late.        *)
THEOREM NoOrphans == Spec => []NoOrphanViewer
  <1>1. ViewerInv => NoOrphanViewer
    <2> SUFFICES ASSUME ViewerInv, NEW b \in Buckets, NEW t \in Tokens, Live(b, t)
                 PROVE  Known(receipt, b, t)
      BY DEF NoOrphanViewer
    <2>1. <<b, t>> \in Alive
      BY DEF Alive
    <2>2. Accounts(Alive, receipt)
      BY <2>1 DEF ViewerInv, OnDisk
    <2>q. QED
      BY <2>1, <2>2 DEF Accounts
  <1>q. QED
    BY <1>1, TransferFromTheStart, PTL DEF TransferInv

(* The run's own tab, and no other, is closed last: when the viewer is      *)
(* confirmed, the scrollback and the metadata are on disk and no viewer is  *)
(* left to retire.                                                          *)
THEOREM OriginLast == Spec => OriginClosedLast
  <1>1. ASSUME TypeInv, CaptureInv, TransferInv, [Next]_vars, cli'.at # cli.at, origin' # origin
        PROVE  /\ receipt.captured /\ receipt.meta /\ receipt.confirmed
               /\ receipt.superseded = <<>>
               /\ metaFile = {MetaOf(receipt)}
               /\ damaged \/ dest = {receipt.evidence.data}
               /\ origin \ origin' = {receipt.evidence.tab}
    <2>1. CloseOrigin
      BY <1>1, OnlyCloseOrigin
    <2>2. /\ cli.at = "closeOrigin" /\ origin' = origin \ {cli.r.evidence.tab}
      BY <2>1 DEF CloseOrigin, Go, Step, Captured
    <2>3. receipt = cli.r /\ cli.r.superseded = <<>> /\ cli.r.confirmed
          /\ cli.r.meta /\ cli.r.captured
          /\ metaFile = {MetaOf(cli.r)}
      BY <1>1, <2>2 DEF TransferInv, OrderInv, Written, Confirmed, Retired
    <2>4. damaged \/ dest = {receipt.evidence.data}
      BY <1>1, <2>2, <2>3 DEF CaptureInv
    <2>5. origin \ origin' = {cli.r.evidence.tab}
      BY <1>1, <2>2
    <2>q. QED
      BY <2>3, <2>4, <2>5
  <1>q. QED
    BY <1>1, TransferFromTheStart, PTL DEF Spec, OriginClosedLast

(* A transfer that succeeds leaves the metadata of the outcome it has, and  *)
(* no viewer, open or saved, but the one in the drawer of that outcome,     *)
(* which the caller's verdict names or, without one, the exit code.         *)
THEOREM SuccessWhole == Spec => SuccessIsWhole
  <1>1. ASSUME TypeInv, CaptureInv, TransferInv, [Next]_vars,
               done' # done \/ (cli.at = "finish" /\ cli'.at = "idle")
        PROVE  /\ metaFile = {[code |-> settled[receipt'.rev].code,
                               bucket |-> Bucket(settled[receipt'.rev]),
                               data |-> receipt'.evidence.data]}
               /\ \A b \in Buckets, t \in Tokens :
                    Live(b, t) =>
                      b = Bucket(settled[receipt'.rev]) /\ t = receipt'.token
    <2>1. cli.at = "finish" /\ (receipt' = receipt \/ receipt' = cli.r)
      BY <1>1, AtFinish
    <2>2. receipt = cli.r /\ cli.r.superseded = <<>> /\ metaFile = {MetaOf(cli.r)}
      BY <1>1, <2>1 DEF TransferInv, OrderInv, Written, Confirmed, Retired
    <2>3. Sound(settled, cli.r) /\ Accounts(Alive, cli.r)
      BY <1>1, <2>1 DEF TransferInv, ViewerInv, InMemory
    <2>4. cli.r.code = settled[cli.r.rev].code /\ cli.r.bucket = Bucket(settled[cli.r.rev])
      BY <2>3 DEF Sound
    <2>5. ASSUME NEW b \in Buckets, NEW t \in Tokens, Live(b, t)
          PROVE  b = cli.r.bucket /\ t = cli.r.token
      <3>1. <<b, t>> \in Alive
        BY <2>5 DEF Alive
      <3>2. Known(cli.r, b, t)
        BY <2>3, <3>1 DEF Accounts
      <3>q. QED
        BY <2>2, <3>2 DEF Known
    <2>6. receipt' = cli.r
      BY <2>1, <2>2
    <2>7. metaFile = {[code |-> settled[cli.r.rev].code,
                       bucket |-> Bucket(settled[cli.r.rev]),
                       data |-> cli.r.evidence.data]}
      BY <2>2, <2>4 DEF MetaOf
    <2>q. QED
      BY <2>4, <2>5, <2>6, <2>7
  <1>q. QED
    BY <1>1, TransferFromTheStart, PTL DEF Spec, SuccessIsWhole

=============================================================================
