-------------------------- MODULE LayoutTransaction --------------------------
(***************************************************************************)
(* One layout transaction of a new tab, from Screen's registration to its  *)
(* decision.  Screen hands the layout to the Plugin thread, which reserves *)
(* plugin ids and hands it to the PTY thread, which prepares terminals and *)
(* answers Screen.  Screen then coordinates the two in the foreground,     *)
(* with a bounded number of attempts per call; when an answer stays        *)
(* unknown it quarantines the prepared tab and a background worker repeats *)
(* the coordination until it is certified                                  *)
(* (zellij-server/src/screen.rs, plugins/mod.rs, pty.rs).                  *)
(***************************************************************************)
EXTENDS LayoutPlugins, LayoutPty, Sequences, FiniteSets

CONSTANTS
  Attempts,    \* LAYOUT_COMMIT_ACK_ATTEMPTS
  MaxLost,     \* bound: acks that time out
  MaxFaults,   \* bound: failures inside the Plugin and PTY handlers
  Faults,      \* which handler failures happen in this configuration
  UserCloses   \* whether a client may close the tab meanwhile

ASSUME TransactionAssumption ==
  /\ Attempts \in Nat \ {0} /\ MaxLost \in Nat /\ MaxFaults \in Nat
  /\ Faults \subseteq PluginFaults \cup PtyFaults \cup {"reserve", "load"}
  /\ UserCloses \in BOOLEAN

VARIABLES
  tab,         \* the tab's topology in Screen
  active,      \* the id is in active_layout_transactions
  gate,        \* the tab is in pending_tab_ids
  quarantine,  \* indeterminate_layout_transactions[id]
  decision,    \* resolved_layout_transactions[id]
  at,          \* where the Screen thread is: loop top, receiving, coordinating
  coord,       \* the coordination each of Screen and its worker is in
  reply,       \* the ack channel of that coordination's current attempt
  result,      \* layout_reconciliation_results, what the worker reported
  toPlugin, toPty, toScreen,   \* the threads' channels
  lost, faults                 \* bounds used so far

screenVars == <<tab, active, gate, quarantine, decision>>
coordVars == <<coord, reply, result>>
vars == <<pluginVars, ptyVars, screenVars, at, coordVars,
          toPlugin, toPty, toScreen, lost, faults>>

-----------------------------------------------------------------------------
(* Coordinations.  A coordination is a sequence of calls, each repeated up *)
(* to Attempts times while its ack does not come.                          *)

Coordinators == {"screen", "worker"}
Intents == {"Activate", "Reject", "RejectByOwner", "PreparationFailure"}
PtyCalls == {"Committed", "Rejected"}

\* The texts rejections carry: Screen's own, or one made up from the error
\* that the named attempt of a call came back with.
OwnTexts == {<<0, "preflight">>, <<0, "stale">>, <<0, "mismatch">>, <<0, "preparation">>,
             <<0, "rolled back">>}
Texts == OwnTexts \cup ((1 .. Attempts) \X PluginErrors) \cup {NoText}

\* A coordination and what it was started with.  prepared: the tab's new
\* topology is built; ptyClean: what the PTY thread said of its own cleanup.
Plan(intent, text, prepared, ptyClean) ==
  [intent |-> intent, text |-> text, prepared |-> prepared, ptyClean |-> ptyClean,
   call |-> "none", attempt |-> 0]

Idle == Plan("none", NoText, FALSE, FALSE)

\* Mutant: any activation receipt is taken for an activation.
MutContinues ==
  {<<"Activate", "Activated", "Committed">>,
   <<"Activate", "ActivationRolledBack", "Committed">>,
   <<"Release", "Released", "Rejected">>,
   <<"Committed", "PtyRolledBack", "Compensate">>}
  \cup {<<"Activate", e, "Release">> : e \in PluginErrors}

\* What a coordinator calls next, by call and ack.
Continues ==
  {<<"Activate", "Activated", "Committed">>,
   <<"Activate", "ActivationRolledBack", "Rejected">>,
   <<"Release", "Released", "Rejected">>,
   <<"Committed", "PtyRolledBack", "Compensate">>}
  \cup {<<"Activate", e, "Release">> : e \in PluginErrors}

\* What a last call's ack certifies.
Certifies ==
  {<<"Committed", "Resolved", "Commit">>,
   <<"Rejected", "Resolved", "Rollback">>,
   <<"Compensate", "Compensated", "Rollback">>}

\* The text that a new rejection carries: the reason given so far unless the
\* activation's own answer is the reason.
NextText(c, ack) ==
  CASE c.call = "Activate" /\ ack = "ActivationRolledBack" -> <<0, "rolled back">>
    [] c.call = "Activate" /\ ack \in PluginErrors -> <<c.attempt, ack>>
    [] OTHER -> c.text

\* Mutant: one attempt too many.
MutRetries(c, ack) == c.call \in PtyCalls /\ ack \in PtyErrors /\ c.attempt <= Attempts

\* PTY failures are retried like timeouts; a Plugin failure is final.
Retries(c, ack) == c.call \in PtyCalls /\ ack \in PtyErrors /\ c.attempt < Attempts

\* certify_layout_preparation_cleanup stops after the release
Preparing(c) == c.intent = "PreparationFailure" /\ c.call = "Release"

\* Mutant: the release of the plugins alone certifies the cleanup.
MutPreparationCertified(c, ack) == ack = "Released"

PreparationCertified(c, ack) == ack = "Released" /\ c.ptyClean

NextCalls(c, ack) ==
  {call \in Kinds \cup PtyCalls : <<c.call, ack, call>> \in Continues /\ ~Preparing(c)}

Outcome(c, ack) ==
  IF Preparing(c)
    THEN IF PreparationCertified(c, ack) THEN "Rollback" ELSE "Unknown"
    ELSE IF \E o \in {"Commit", "Rollback"} : <<c.call, ack, o>> \in Certifies
           THEN CHOOSE o \in {"Commit", "Rollback"} : <<c.call, ack, o>> \in Certifies
           ELSE "Unknown"

-----------------------------------------------------------------------------
(* Sending, answering and timing out. *)

Send(by, c, call, attempt, text) ==
  LET request == [is |-> call, text |-> text, by |-> by]
  IN  /\ coord' = [coord EXCEPT ![by] = [c EXCEPT !.call = call, !.attempt = attempt,
                                                 !.text = text]]
      /\ IF call \in PtyCalls
           THEN toPty' = Append(toPty, request) /\ UNCHANGED toPlugin
           ELSE toPlugin' = Append(toPlugin, request) /\ UNCHANGED toPty

\* Mutant: terminals are committed before the plugins are activated.
MutFirstCall(c) == IF c.intent = "Activate" THEN "Committed" ELSE "Release"

FirstCall(c) == IF c.intent = "Activate" THEN "Activate" ELSE "Release"

Begin(by, plan) == Send(by, plan, FirstCall(plan), 1, plan.text)

\* An ack sent after its attempt timed out finds no receiver.
Answer(by, ack) ==
  reply' = IF by \in Coordinators THEN [reply EXCEPT ![by] = ack] ELSE reply

\* The request stays in its channel, but nobody waits for its ack any more.
Orphan(queue, by) ==
  [i \in DOMAIN queue |-> IF queue[i].by = by THEN [queue[i] EXCEPT !.by = "nobody"]
                                              ELSE queue[i]]

Spend(n) == faults + n <= MaxFaults /\ faults' = faults + n

-----------------------------------------------------------------------------
(* What Screen does with the outcome of a coordination. *)

Quarantined == quarantine.intent # "none"

\* exact_targets_are_current
Current == tab # "closed"

CommitTab ==
  /\ tab' = "committed" /\ decision' = "Committed"
  /\ active' = FALSE /\ gate' = FALSE
  /\ quarantine' = Idle

DiscardedTab == IF Current THEN "discarded" ELSE tab

RollbackTab ==
  /\ tab' = DiscardedTab /\ decision' = "Rejected"
  /\ active' = FALSE /\ gate' = FALSE
  /\ quarantine' = Idle

\* Mutant: the gate of a quarantined tab stays closed.
MutQuarantineTab(plan) ==
  /\ quarantine' = [plan EXCEPT !.call = "none", !.attempt = 0]
  /\ UNCHANGED <<tab, active, gate, decision>>

\* The gate is retired so that other tabs' events are not held up.
QuarantineTab(plan) ==
  /\ quarantine' = [plan EXCEPT !.call = "none", !.attempt = 0]
  /\ gate' = FALSE
  /\ UNCHANGED <<tab, active, decision>>

ConcludeApply(plan, outcome) ==
  CASE outcome = "Commit" -> CommitTab
    [] outcome = "Rollback" -> RollbackTab
    [] outcome = "Unknown" -> QuarantineTab(plan)

DiscardTab ==
  /\ tab' = DiscardedTab /\ active' = FALSE /\ gate' = FALSE
  /\ UNCHANGED <<quarantine, decision>>

\* Without the PTY thread's certificate nothing is kept: its next report is
\* awaited, and the gate with it.
ConcludePreparation(plan, outcome) ==
  IF outcome = "Rollback" THEN DiscardTab
  ELSE IF plan.ptyClean THEN QuarantineTab(plan)
  ELSE UNCHANGED screenVars

Conclude(plan, outcome) ==
  IF plan.intent = "PreparationFailure" THEN ConcludePreparation(plan, outcome)
                                        ELSE ConcludeApply(plan, outcome)

\* A worker's decision is applied to the exact tab it was made for; only a
\* rejection by owner does without the tab.
Applies(outcome) ==
  /\ Quarantined /\ active
  /\ \/ Current
     \/ quarantine.intent = "RejectByOwner" /\ outcome = "Rollback"

Reconcile(outcome) ==
  IF Applies(outcome) /\ outcome = "Commit" /\ quarantine.prepared THEN CommitTab
  ELSE IF Applies(outcome) /\ outcome = "Rollback" THEN RollbackTab
  ELSE UNCHANGED screenVars

-----------------------------------------------------------------------------
(* The Screen thread. *)

PreparationFailed(release, ptyClean) ==
  [is |-> "PreparationFailed", release |-> release, ptyClean |-> ptyClean]
ApplyLayout == [is |-> "ApplyLayout", release |-> FALSE, ptyClean |-> FALSE]
NewTab == [is |-> "NewTab", text |-> NoText, by |-> "nobody"]

OpenTab ==
  /\ at = "recv" /\ tab = "absent"
  /\ tab' = "pending" /\ active' = TRUE /\ gate' = TRUE
  /\ toPlugin' = Append(toPlugin, NewTab)
  /\ at' = "top"
  /\ UNCHANGED <<pluginVars, ptyVars, quarantine, decision, coordVars,
                 toPty, toScreen, lost, faults>>

\* Mutant: the tab of a quarantined transaction can be closed.
MutClosable == tab \in {"pending", "prepared"}

\* close_tab_by_id refuses a tab that a quarantined transaction owns.
Closable == tab \in {"pending", "prepared"} /\ ~Quarantined

CloseTab ==
  /\ UserCloses /\ at = "recv" /\ Closable
  /\ tab' = "closed" /\ at' = "top"
  /\ UNCHANGED <<pluginVars, ptyVars, active, gate, quarantine, decision, coordVars,
                 toPlugin, toPty, toScreen, lost, faults>>

Message == Head(toScreen)
Receives(kind) ==
  /\ at = "recv" /\ toScreen # <<>> /\ Message.is = kind
  /\ toScreen' = Tail(toScreen)

\* Duplicates and reports that come after the decision.
IgnoreMessage ==
  /\ \E kind \in {"ApplyLayout", "PreparationFailed"} : Receives(kind)
  /\ ~active \/ Quarantined
  /\ at' = "top"
  /\ UNCHANGED <<pluginVars, ptyVars, screenVars, coordVars, toPlugin, toPty, lost, faults>>

\* The closures that validate, prepare and preflight the layout yield the
\* intent; a rejection may come before or after the topology is built.
ApplyPlans ==
  IF Current
    THEN {Plan("Activate", NoText, TRUE, FALSE)}
         \cup {Plan("Reject", <<0, "preflight">>, p, FALSE) : p \in BOOLEAN}
    ELSE {Plan("Reject", <<0, "stale">>, FALSE, FALSE)}

HandleApplyLayout ==
  /\ Receives("ApplyLayout") /\ active /\ ~Quarantined
  /\ \E plan \in ApplyPlans :
       /\ Begin("screen", plan)
       /\ tab' = IF plan.prepared THEN "prepared" ELSE tab
  /\ at' = "coordinating"
  /\ UNCHANGED <<pluginVars, ptyVars, active, gate, quarantine, decision, reply, result,
                 lost, faults>>

\* A report that does not fit the tab is not believed: Plugin and PTY are
\* asked to reject what they own, and the gate is kept.
HandleMismatch ==
  /\ Receives("PreparationFailed") /\ active /\ ~Quarantined
  /\ ~Current
  /\ quarantine' = Plan("RejectByOwner", <<0, "mismatch">>, FALSE, FALSE)
  /\ at' = "top"
  /\ UNCHANGED <<pluginVars, ptyVars, tab, active, gate, decision, coordVars,
                 toPlugin, toPty, lost, faults>>

HandlePreparationFailed ==
  /\ Receives("PreparationFailed") /\ active /\ ~Quarantined
  /\ Current
  /\ IF Message.release
       THEN /\ Begin("screen", Plan("PreparationFailure", <<0, "preparation">>, FALSE,
                                    Message.ptyClean))
            /\ at' = "coordinating"
            /\ UNCHANGED screenVars
       ELSE DiscardTab /\ at' = "top" /\ UNCHANGED <<coord, toPlugin, toPty>>
  /\ UNCHANGED <<pluginVars, ptyVars, reply, result, lost, faults>>

\* take_resolved, reconcile and retry_..._in_background at the head of the loop
LoopTop ==
  /\ at = "top"
  /\ Reconcile(result)
  /\ result' = "none"
  /\ coord' = IF quarantine'.intent # "none" /\ coord["worker"] = Idle
                THEN [coord EXCEPT !["worker"] = [quarantine' EXCEPT !.call = "sleep"]]
                ELSE coord
  /\ at' = "recv"
  /\ UNCHANGED <<pluginVars, ptyVars, reply, toPlugin, toPty, toScreen, lost, faults>>

\* LayoutMaintenanceWake, sent by the worker with its result
Wake ==
  /\ at = "recv" /\ result # "none"
  /\ at' = "top"
  /\ UNCHANGED <<pluginVars, ptyVars, screenVars, coordVars, toPlugin, toPty, toScreen,
                 lost, faults>>

-----------------------------------------------------------------------------
(* A coordinator, which is the Screen thread or the background worker. *)

WorkerStarts ==
  /\ coord["worker"].call = "sleep"
  /\ Begin("worker", coord["worker"])
  /\ UNCHANGED <<pluginVars, ptyVars, screenVars, at, reply, result, toScreen, lost, faults>>

Finish(by, outcome) ==
  /\ coord' = [coord EXCEPT ![by] = Idle]
  /\ UNCHANGED <<toPlugin, toPty>>
  /\ IF by = "worker"
       THEN result' = outcome /\ UNCHANGED <<screenVars, at>>
       ELSE Conclude(coord[by], outcome) /\ at' = "top" /\ UNCHANGED result

Proceed(by, call, attempt, text) ==
  /\ Send(by, coord[by], call, attempt, text)
  /\ UNCHANGED <<screenVars, at, result>>

TakeReply(by) ==
  LET c == coord[by]
      ack == reply[by]
  IN  /\ ack # "none"
      /\ reply' = [reply EXCEPT ![by] = "none"]
      /\ \/ Retries(c, ack) /\ Proceed(by, c.call, c.attempt + 1, c.text)
         \/ \E call \in NextCalls(c, ack) : Proceed(by, call, 1, NextText(c, ack))
         \/ /\ ~Retries(c, ack) /\ NextCalls(c, ack) = {}
            /\ Finish(by, Outcome(c, ack))
      /\ UNCHANGED <<pluginVars, ptyVars, toScreen, lost, faults>>

\* recv_timeout gives up on an attempt whose request is still queued.
Timeout(by) ==
  LET c == coord[by]
  IN  /\ c.call \in Kinds \cup PtyCalls /\ reply[by] = "none"
      /\ lost < MaxLost /\ lost' = lost + 1
      /\ LET again == [is |-> c.call, text |-> c.text, by |-> by]
             resent(queue, mine) ==
               Orphan(queue, by) \o (IF mine /\ c.attempt < Attempts THEN <<again>> ELSE <<>>)
         IN  /\ toPlugin' = resent(toPlugin, c.call \in Kinds)
             /\ toPty' = resent(toPty, c.call \in PtyCalls)
      /\ IF c.attempt < Attempts
           THEN /\ coord' = [coord EXCEPT ![by].attempt = c.attempt + 1]
                /\ UNCHANGED <<screenVars, at, result>>
           ELSE /\ coord' = [coord EXCEPT ![by] = Idle]
                /\ IF by = "worker"
                     THEN result' = "Unknown" /\ UNCHANGED <<screenVars, at>>
                     ELSE Conclude(c, "Unknown") /\ at' = "top" /\ UNCHANGED result
      /\ UNCHANGED <<pluginVars, ptyVars, reply, toScreen, faults>>

-----------------------------------------------------------------------------
(* The Plugin thread. *)

PluginReserves ==
  /\ toPlugin # <<>> /\ Head(toPlugin) = NewTab
  /\ toPlugin' = Tail(toPlugin)
  /\ \/ /\ Reserve
        /\ toPty' = Append(toPty, NewTab)
        /\ UNCHANGED <<toScreen, faults>>
     \/ /\ "reserve" \in Faults /\ Spend(1)
        /\ toScreen' = Append(toScreen, PreparationFailed(FALSE, TRUE))
        /\ UNCHANGED <<pluginVars, toPty>>
  /\ UNCHANGED <<ptyVars, screenVars, at, coordVars, lost>>

PluginResolves ==
  /\ toPlugin # <<>> /\ Head(toPlugin) # NewTab
  /\ toPlugin' = Tail(toPlugin)
  /\ \E fails \in SUBSET (Faults \cap PluginFaults), ack \in PluginAcks :
       /\ ResolvePlugins(Head(toPlugin).is, fails, ack)
       /\ Spend(Cardinality(fails))
       /\ Answer(Head(toPlugin).by, ack)
  /\ UNCHANGED <<ptyVars, screenVars, at, coord, result, toPty, toScreen, lost>>

PluginLoaderFails ==
  /\ "load" \in Faults
  /\ \E fails \in SUBSET (Faults \cap {"quiesce", "cleanup"}) :
       LoaderFails(fails) /\ Spend(1 + Cardinality(fails))
  /\ UNCHANGED <<ptyVars, screenVars, at, coordVars, toPlugin, toPty, toScreen, lost>>

-----------------------------------------------------------------------------
(* The PTY thread.  Paying a preparation debt reports the clean failure.   *)

Paid(debt, paid) == IF debt /\ paid THEN <<PreparationFailed(TRUE, TRUE)>> ELSE <<>>

Unpaid(debt, paid) == IF debt /\ ~paid THEN 1 ELSE 0

PtyPrepares ==
  /\ toPty # <<>> /\ Head(toPty) = NewTab
  /\ toPty' = Tail(toPty)
  /\ \/ /\ BeginCommit
        /\ toScreen' = Append(toScreen, ApplyLayout)
        /\ UNCHANGED faults
     \/ \E fails \in SUBSET (Faults \cap PtyFaults), paid \in BOOLEAN :
          LET debt == "close" \in fails
          IN  /\ "prepare" \in fails
              /\ PreparationFails(fails, paid)
              /\ toScreen' = Append(toScreen, PreparationFailed(TRUE, ~debt))
                               \o Paid(debt, paid)
              /\ Spend(Cardinality(fails) + Unpaid(debt, paid))
  /\ UNCHANGED <<pluginVars, screenVars, at, coordVars, toPlugin, lost>>

PtyOutcome(request) == IF request.is = "Committed" THEN Committed ELSE Rejected(request.text)

PtyResolves ==
  /\ toPty # <<>> /\ Head(toPty) # NewTab
  /\ toPty' = Tail(toPty)
  /\ \E fails \in SUBSET (Faults \cap PtyFaults), paid \in BOOLEAN, ack \in PtyAcks :
       LET debt == ledger.at = "preparationDebt"
       IN  /\ ResolveCommit(PtyOutcome(Head(toPty)), fails, paid, ack)
           /\ toScreen' = toScreen \o Paid(debt, paid)
           /\ Spend(Cardinality(fails) + Unpaid(debt, paid))
           /\ Answer(Head(toPty).by, ack)
  /\ UNCHANGED <<pluginVars, screenVars, at, coord, result, toPlugin, lost>>

\* Any other instruction of the PTY thread ends with the same retry.
PtyServesOthers ==
  /\ ledger.at = "preparationDebt"
  /\ RetryPreparationDebt(TRUE)
  /\ toScreen' = toScreen \o Paid(TRUE, TRUE)
  /\ UNCHANGED <<pluginVars, screenVars, at, coordVars, toPlugin, toPty, lost, faults>>

-----------------------------------------------------------------------------
Init ==
  /\ PluginInit /\ PtyInit
  /\ tab = "absent" /\ active = FALSE /\ gate = FALSE
  /\ quarantine = Idle /\ decision = "none"
  /\ at = "top"
  /\ coord = [by \in Coordinators |-> Idle]
  /\ reply = [by \in Coordinators |-> "none"]
  /\ result = "none"
  /\ toPlugin = <<>> /\ toPty = <<>> /\ toScreen = <<>>
  /\ lost = 0 /\ faults = 0

ScreenStep ==
  IgnoreMessage \/ HandleApplyLayout \/ HandleMismatch \/ HandlePreparationFailed
  \/ LoopTop \/ Wake

PluginStep == PluginReserves \/ PluginResolves

PtyStep == PtyPrepares \/ PtyResolves

\* Nothing is left to do for this transaction.
Settled ==
  /\ tab # "absent" /\ ~active
  /\ at = "recv" /\ result = "none"
  /\ toPlugin = <<>> /\ toPty = <<>> /\ toScreen = <<>>
  /\ UNCHANGED vars

Next ==
  \/ OpenTab \/ CloseTab \/ ScreenStep
  \/ WorkerStarts
  \/ \E by \in Coordinators : TakeReply(by) \/ Timeout(by)
  \/ PluginStep \/ PluginLoaderFails
  \/ PtyStep \/ PtyServesOthers
  \/ Settled

Spec == Init /\ [][Next]_vars

\* Every thread keeps serving its channel, the worker's thread runs, and the
\* PTY thread, which serves every tab, keeps getting instructions.  Nothing
\* obliges a client to open or close a tab, or anything to fail.
Fairness ==
  /\ WF_vars(ScreenStep) /\ WF_vars(PluginStep) /\ WF_vars(PtyStep)
  /\ WF_vars(WorkerStarts) /\ WF_vars(PtyServesOthers)
  /\ \A by \in Coordinators : WF_vars(TakeReply(by))

FairSpec == Spec /\ Fairness

-----------------------------------------------------------------------------
Calls == Kinds \cup PtyCalls

Plans ==
  [intent : Intents \cup {"none"}, text : Texts, prepared : BOOLEAN, ptyClean : BOOLEAN,
   call : Calls \cup {"none", "sleep"}, attempt : 0 .. Attempts]

Requests(calls) == [is : calls, text : Texts, by : Coordinators \cup {"nobody"}]

SeqOf(messages, queue) == \A i \in DOMAIN queue : queue[i] \in messages

\* Every variable has its type; in particular no call is attempted more than
\* LAYOUT_COMMIT_ACK_ATTEMPTS times.
TypeOK ==
  /\ PluginTypeOK /\ PtyTypeOK(Texts)
  /\ tab \in {"absent", "pending", "prepared", "committed", "discarded", "closed"}
  /\ active \in BOOLEAN /\ gate \in BOOLEAN
  /\ quarantine \in Plans
  /\ decision \in {"none", "Committed", "Rejected"}
  /\ at \in {"top", "recv", "coordinating"}
  /\ coord \in [Coordinators -> Plans]
  /\ reply \in [Coordinators -> {"none"} \cup PluginAcks \cup PtyAcks]
  /\ result \in {"none", "Commit", "Rollback", "Unknown"}
  /\ SeqOf(Requests(Kinds \cup {"NewTab"}), toPlugin)
  /\ SeqOf(Requests(PtyCalls \cup {"NewTab"}), toPty)
  /\ SeqOf({ApplyLayout} \cup {PreparationFailed(r, c) : r, c \in BOOLEAN}, toScreen)
  /\ lost \in 0 .. MaxLost /\ faults \in 0 .. MaxFaults

Over == tab # "absent" /\ ~active

\* Once Screen has committed the layout, the Plugin thread has acknowledged
\* its activation and never a release, and every prepared terminal runs:
\* coordinate_layout_activation commits on acks that may answer a repeated
\* request, after others of its requests timed out and were still handled.
CommitIsWhole ==
  decision = "Committed" =>
    /\ receipts["Activate"].as = "Activated" /\ receipts["Release"] = NoReceipt
    /\ ledger = Entry("receipt", Committed, "Resolved") /\ terminals = "running"

\* Once Screen has given a transaction up (a certified rollback or a certified
\* preparation failure), no thread holds anything for it: no reservation,
\* runtime or projector, no terminal, no cleanup debt.
RejectionLeavesNothing ==
  Over /\ decision # "Committed" =>
    /\ reservation = "absent" /\ runtimes = "none" /\ projectors = "unbound"
    /\ terminals = "none" /\ ledger.at \in {"absent", "receipt"}

\* A quarantined transaction keeps the tab it has built, however often a
\* client asks to close it (close_tab_by_id refuses), and Screen and the
\* background worker never coordinate it both.
QuarantineKeepsTab ==
  /\ Quarantined => active /\ (quarantine.prepared => tab = "prepared")
  /\ coord["worker"] # Idle => Quarantined /\ coord["screen"] = Idle

\* The pending_tab_ids gate, which holds back every tab's events, is open once
\* the transaction is over, and while a worker repeats a coordination, except
\* for a report that did not fit the tab.
GateOpens == Over \/ (Quarantined /\ quarantine.intent # "RejectByOwner") => ~gate

\* After Screen's decision no request that was sent for the transaction, no
\* second report of a failed preparation and no debt that is paid late changes
\* what Screen, PTY or Plugin hold; only a loader of a committed layout may
\* still fail.
EndIsFinal ==
  [][Over => /\ UNCHANGED <<screenVars, ptyVars>>
             /\ pluginVars' # pluginVars =>
                  /\ decision = "Committed"
                  /\ receipts'["Activate"].as = "Activated"
                  /\ receipts'["Release"] = NoReceipt]_vars

\* A thread has a receipt that it will not take for the one that is asked for:
\* of a rejection with another text, or of the runtimes without the projectors.
Refuses ==
  \/ \E by \in Coordinators :
       coord[by].call = "Rejected" /\ ledger.outcome.kind = "Rejected"
         /\ ledger.outcome.text # coord[by].text
  \/ receipts["Compensate"].ids = "runtimes" /\ decision = "none"

\* A transaction that register_layout_transaction recorded is eventually
\* committed or given up: the background worker repeats the coordination as
\* long as its outcome is unknown, and every repetition finds the receipts of
\* the earlier ones, unless it asks for what no receipt is of, or a client closed
\* the tab, for which Screen refuses a certified rollback.
Decides == active ~> ~active \/ Refuses \/ tab = "closed"

\* pty.rs, LayoutCommitOutcome::Rejected: "The ACK only certifies that PTY
\* resolved its ledger, so a successful cleanup must ACK Ok".
CleanRejectionAcked ==
  \A by \in Coordinators :
    coord[by].call = "Rejected" /\ ledger.at = "receipt" /\ ledger.outcome.kind = "Rejected"
      => reply[by] \in {"none", "Resolved"}

\* wasm_bridge.rs, async_activation_failure_fully_compensates_and_retires_owner:
\* after a loader's failure was compensated, Screen's Compensate for a PTY
\* rollback is acknowledged.
CompensationReplayed ==
  \A by \in Coordinators :
    coord[by].call = "Compensate" /\ "Compensate" \in Received
      => reply[by] \in {"none", "Compensated"}

\* screen.rs, LayoutPreparationFailed: "This turns a malformed producer result
\* into a bounded, replayable reconciliation instead of an immortal owner."
MismatchResolved == quarantine.intent = "RejectByOwner" ~> ~active

-----------------------------------------------------------------------------
(* The transaction implements what LayoutOutcome promises. *)

PluginsBecame ==
  CASE receipts["Compensate"].as = "Compensated" ->
         IF receipts["Compensate"].ids = "runtimes" THEN "failed" ELSE "freed"
    [] receipts["Compensate"] = NoReceipt /\ receipts["Activate"].as = "Activated" ->
         IF reservation = "ActivationFailed" THEN "failed" ELSE "live"
    [] OTHER -> IF reservation # "absent" THEN "held"
                ELSE IF Received = {} THEN "none" ELSE "freed"

TerminalsBecame ==
  CASE ledger.at = "absent" -> "none"
    [] ledger.at \in {"pending", "preparationDebt", "resolutionDebt"} -> "held"
    [] ledger.at = "receipt" -> IF terminals = "running" THEN "live" ELSE "freed"

Decided ==
  IF decision = "Committed" THEN "commit" ELSE IF Over THEN "abort" ELSE "open"

Promise == INSTANCE LayoutOutcome
  WITH plugins <- PluginsBecame, terminals <- TerminalsBecame, outcome <- Decided

\* Every step of Screen, its worker, Plugin and PTY is a step of LayoutOutcome
\* or leaves what it speaks of alone: plugins go live before terminals, nothing
\* is freed under a commitment, and nothing freed comes back.
KeepsPromise == Promise!Spec
=============================================================================
