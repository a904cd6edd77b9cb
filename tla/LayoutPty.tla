------------------------------ MODULE LayoutPty ------------------------------
(***************************************************************************)
(* The PTY thread's part of one layout transaction: the ledger of          *)
(* terminals prepared for a layout, and its resolution as Committed or     *)
(* Rejected (zellij-server/src/pty.rs).  The thread handles one            *)
(* instruction at a time and retries the debt of a failed preparation      *)
(* after every instruction.                                                *)
(*                                                                         *)
(* fails says what goes wrong inside a handler: "prepare" (an allocation), *)
(* "activate" (a prepared terminal does not start), "close" (an allocated  *)
(* terminal does not close).  ack is the answer on the ack channel.        *)
(***************************************************************************)
EXTENDS Naturals

VARIABLES
  ledger,      \* pending_layout_commits, pending_layout_cleanups and
               \* resolved_layout_commits of the transaction
  terminals    \* what the ledger's allocations are: none, prepared, running, leftover

ptyVars == <<ledger, terminals>>

PtyErrors == {"ConflictingResolution", "UnknownCommit", "StillPreparing", "StillDirty"}

PtyAcks == {"Resolved", "PtyRolledBack"} \cup PtyErrors

PtyFaults == {"prepare", "activate", "close"}

\* The text of a rejection: who gave it, and on which attempt it was made up.
NoText == <<0, "none">>

Committed == [kind |-> "Committed", text |-> NoText]
Rejected(text) == [kind |-> "Rejected", text |-> text]
NoOutcome == [kind |-> "none", text |-> NoText]

Entry(at, outcome, ack) == [at |-> at, outcome |-> outcome, ack |-> ack]
NoEntry == Entry("absent", NoOutcome, "none")

PtyInit == ledger = NoEntry /\ terminals = "none"

PtyTypeOK(texts) ==
  /\ ledger.at \in {"absent", "pending", "preparationDebt", "resolutionDebt", "receipt"}
  /\ ledger.outcome \in {NoOutcome, Committed} \cup {Rejected(text) : text \in texts}
  /\ ledger.ack \in {"none", "Resolved", "PtyRolledBack"}
  /\ terminals \in {"none", "prepared", "running", "leftover"}

-----------------------------------------------------------------------------
\* begin_layout_commit: the ledger takes over every allocation
BeginCommit ==
  /\ ledger' = Entry("pending", NoOutcome, "none")
  /\ terminals' = "prepared"

\* reject_layout_preparation after a failed allocation.  What could not be
\* closed becomes a debt; the loop's trailing retry may already pay it.
PreparationFails(fails, paid) ==
  IF "close" \notin fails \/ paid
    THEN UNCHANGED ptyVars
    ELSE /\ ledger' = Entry("preparationDebt", NoOutcome, "none")
         /\ terminals' = "leftover"

\* retry_preparation_cleanup_debts, after every instruction.  paid says
\* whether the allocations could be closed this time.
RetryPreparationDebt(paid) ==
  IF ledger.at = "preparationDebt" /\ paid
    THEN ledger' = NoEntry /\ terminals' = "none"
    ELSE UNCHANGED ptyVars

-----------------------------------------------------------------------------
(* resolve_layout_commit_with_ack *)

\* Mutant: a rejection is never recognised as the recorded one.
MutSameOutcome(recorded, outcome) == recorded = outcome /\ outcome = Committed

SameOutcome(recorded, outcome) == recorded = outcome

\* A failed cleanup keeps the allocations and the answer they will get.
Settle(outcome, fails, success, ack) ==
  IF "close" \in fails
    THEN /\ ledger' = Entry("resolutionDebt", outcome, success)
         /\ terminals' = "leftover"
         /\ ack = "StillDirty"
    ELSE /\ ledger' = Entry("receipt", outcome, success)
         /\ terminals' = "none"
         /\ ack = success

ReplayCommit(outcome, ack) ==
  /\ ledger.at = "receipt"
  /\ ack = IF SameOutcome(ledger.outcome, outcome) THEN ledger.ack
                                                   ELSE "ConflictingResolution"
  /\ UNCHANGED ptyVars

RetryCleanup(outcome, fails, ack) ==
  /\ ledger.at = "resolutionDebt"
  /\ IF SameOutcome(ledger.outcome, outcome)
       THEN Settle(outcome, fails, ledger.ack, ack)
       ELSE ack = "ConflictingResolution" /\ UNCHANGED ptyVars

StillPreparing(ack) ==
  /\ ledger.at = "preparationDebt"
  /\ ack = "StillPreparing"

UnknownCommit(ack) ==
  /\ ledger.at = "absent"
  /\ ack = "UnknownCommit"
  /\ UNCHANGED ptyVars

Commit(outcome, fails, ack) ==
  /\ ledger.at = "pending" /\ outcome = Committed
  /\ IF "activate" \in fails
       THEN Settle(outcome, fails, "PtyRolledBack", ack)
       ELSE /\ ledger' = Entry("receipt", outcome, "Resolved")
            /\ terminals' = "running"
            /\ ack = "Resolved"

Reject(outcome, fails, ack) ==
  /\ ledger.at = "pending" /\ outcome # Committed
  /\ Settle(outcome, fails, "Resolved", ack)

\* paid is the outcome of the trailing retry of a preparation debt
ResolveCommit(outcome, fails, paid, ack) ==
  \/ ReplayCommit(outcome, ack)
  \/ RetryCleanup(outcome, fails, ack)
  \/ StillPreparing(ack) /\ RetryPreparationDebt(paid)
  \/ UnknownCommit(ack)
  \/ Commit(outcome, fails, ack)
  \/ Reject(outcome, fails, ack)
=============================================================================
