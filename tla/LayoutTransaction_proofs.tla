----------------------- MODULE LayoutTransaction_proofs -----------------------
(***************************************************************************)
(* LayoutTransaction, for any layouts, attempts, lost acks and faults:     *)
(* every variable keeps its type, and Screen keeps the tab of a            *)
(* quarantined transaction, opens the gate of a transaction that is over,  *)
(* and commits only what Plugin has activated and PTY has run.  A          *)
(* transaction that was given up leaves nothing, nothing changes once it   *)
(* is over, and every step is one that LayoutOutcome allows.               *)
(*                                                                         *)
(* The third needs the history of the transaction: until Screen takes the  *)
(* report of the PTY thread there is one message in the system, and from   *)
(* then on Screen never coordinates an activation that it did not begin    *)
(* with, so that a release was asked for only of plugins that are not, and *)
(* will not be, activated.                                                 *)
(***************************************************************************)
EXTENDS LayoutTransaction, FiniteSetTheorems, TLAPS

(* The types. *)

PluginRequests == Requests(Kinds \cup {"NewTab"})
PtyRequests == Requests(PtyCalls \cup {"NewTab"})
Reports == {ApplyLayout} \cup {PreparationFailed(r, c) : r, c \in BOOLEAN}

\* Of the channels TypeOK says what is in them, not that they are sequences.
ScreenTypes ==
  /\ tab \in {"absent", "pending", "prepared", "committed", "discarded", "closed"}
  /\ active \in BOOLEAN /\ gate \in BOOLEAN /\ quarantine \in Plans
  /\ decision \in {"none", "Committed", "Rejected"}

\* A call that is made is attempted at least once: its attempt may become a text.
Attempted ==
  \A by \in Coordinators : coord[by].call \in Calls => coord[by].attempt \in 1 .. Attempts

CoordTypes ==
  /\ at \in {"top", "recv", "coordinating"}
  /\ coord \in [Coordinators -> Plans]
  /\ reply \in [Coordinators -> {"none"} \cup PluginAcks \cup PtyAcks]
  /\ result \in {"none", "Commit", "Rollback", "Unknown"}
  /\ Attempted

RequestTypes == toPlugin \in Seq(PluginRequests) /\ toPty \in Seq(PtyRequests)
ReportTypes == toScreen \in Seq(Reports)
BoundTypes == lost \in 0 .. MaxLost /\ faults \in 0 .. MaxFaults

TypeInv ==
  /\ PluginTypeOK /\ PtyTypeOK(Texts)
  /\ ScreenTypes /\ CoordTypes /\ RequestTypes /\ ReportTypes /\ BoundTypes

-----------------------------------------------------------------------------
(* Channels and counts. *)

\* Orphaning a coordinator's requests changes only who waits for them.
LEMMA Orphaned ==
  ASSUME NEW calls, NEW q \in Seq(Requests(calls)), NEW by
  PROVE  /\ Orphan(q, by) \in Seq(Requests(calls))
         /\ DOMAIN Orphan(q, by) = DOMAIN q
         /\ \A i \in DOMAIN q :
              /\ Orphan(q, by)[i].is = q[i].is
              /\ Orphan(q, by)[i].by = IF q[i].by = by THEN "nobody" ELSE q[i].by
<1>1. DOMAIN q = 1 .. Len(q) /\ Len(q) \in Nat
  OBVIOUS
<1>2. ASSUME NEW i \in DOMAIN q
      PROVE  /\ Orphan(q, by)[i] \in Requests(calls)
             /\ Orphan(q, by)[i].is = q[i].is
             /\ Orphan(q, by)[i].by = IF q[i].by = by THEN "nobody" ELSE q[i].by
  <2>1. q[i] \in Requests(calls)
    BY <1>1, <1>2
  <2>2. Orphan(q, by)[i] = IF q[i].by = by THEN [q[i] EXCEPT !.by = "nobody"] ELSE q[i]
    BY <1>2 DEF Orphan
  <2>3. QED
    BY <2>1, <2>2 DEF Requests
<1>3. DOMAIN Orphan(q, by) = DOMAIN q
  BY DEF Orphan
<1>4. Orphan(q, by) \in [1 .. Len(q) -> Requests(calls)]
  BY <1>1, <1>2, <1>3 DEF Orphan
<1>5. QED
  BY <1>1, <1>2, <1>3, <1>4

\* Messages are added to a channel one or several at a time.
LEMMA Longer ==
  ASSUME NEW S, NEW s \in Seq(S)
  PROVE  /\ \A x \in S : Append(s, x) \in Seq(S) /\ <<x>> \in Seq(S)
         /\ \A t \in Seq(S) : s \o t \in Seq(S)
  OBVIOUS

\* The bound on faults is counted with finite sets.
LEMMA FaultCount ==
  ASSUME NEW fails, fails \in SUBSET (Faults \cap PluginFaults) \/ fails \in SUBSET (Faults \cap PtyFaults)
  PROVE  Cardinality(fails) \in Nat
<1>1. \A a, b, c : IsFiniteSet({a, b, c})
  <2> SUFFICES ASSUME NEW a, NEW b, NEW c
               PROVE  IsFiniteSet({a, b, c})
    OBVIOUS
  <2>1. IsFiniteSet({} \cup {a})
    BY FS_EmptySet, FS_AddElement
  <2>2. IsFiniteSet(({} \cup {a}) \cup {b})
    BY <2>1, FS_AddElement
  <2>3. IsFiniteSet((({} \cup {a}) \cup {b}) \cup {c})
    BY <2>2, FS_AddElement
  <2>4. (({} \cup {a}) \cup {b}) \cup {c} = {a, b, c}
    OBVIOUS
  <2>5. QED
    BY <2>3, <2>4
<1>2. fails \subseteq {"schedule", "quiesce", "cleanup"} \/ fails \subseteq {"prepare", "activate", "close"}
  <2>1. CASE fails \in SUBSET (Faults \cap PluginFaults)
    BY <2>1 DEF PluginFaults
  <2>2. CASE fails \in SUBSET (Faults \cap PtyFaults)
    BY <2>2 DEF PtyFaults
  <2>3. QED
    BY <2>1, <2>2
<1>3. QED
  BY <1>1, <1>2, FS_Subset, FS_CardinalityType

\* The constant records have their types.
LEMMA ConstantTypes ==
  /\ Idle \in Plans /\ NoText \in Texts
  /\ NewTab \in PluginRequests /\ NewTab \in PtyRequests
  /\ \A r, c \in BOOLEAN : PreparationFailed(r, c) \in Reports
  /\ ApplyLayout \in Reports
  /\ \A i \in Intents, t \in Texts, p \in BOOLEAN, c \in BOOLEAN :
       Plan(i, t, p, c) \in Plans
  /\ OwnTexts \subseteq Texts
<1>1. 0 \in 0 .. Attempts
  BY TransactionAssumption
<1>2. NoText \in Texts /\ OwnTexts \subseteq Texts
  BY DEF Texts
<1>3. NewTab \in PluginRequests /\ NewTab \in PtyRequests
  BY <1>2 DEF NewTab, PluginRequests, PtyRequests, Requests
<1>4. ApplyLayout \in Reports /\ \A r, c \in BOOLEAN : PreparationFailed(r, c) \in Reports
  BY DEF Reports
<1>5. \A i \in Intents \cup {"none"}, t \in Texts, p \in BOOLEAN, c \in BOOLEAN :
        Plan(i, t, p, c) \in Plans
  BY <1>1 DEF Plan, Plans
<1>6. Idle \in Plans
  BY <1>2, <1>5 DEF Idle
<1>7. QED
  BY <1>2, <1>3, <1>4, <1>5, <1>6

\* A coordination that goes on is one.
LEMMA PlanChange ==
  ASSUME NEW c \in Plans, NEW call \in Calls \cup {"none", "sleep"},
         NEW attempt \in 0 .. Attempts, NEW text \in Texts
  PROVE  [c EXCEPT !.call = call, !.attempt = attempt, !.text = text] \in Plans
BY DEF Plans

-----------------------------------------------------------------------------
(* Plugin and PTY. *)

\* What the Plugin thread keeps is of its type.
LEMMA PluginTypes ==
  ASSUME PluginTypeOK, NEW fails,
         \/ Reserve \/ LoaderFails(fails)
         \/ \E kind \in Kinds \cup {"NewTab"}, ack \in PluginAcks :
              ResolvePlugins(kind, fails, ack)
  PROVE  PluginTypeOK'
<1>1. ASSUME NEW kind \in Kinds, NEW as \in {"Activated", "ActivationRolledBack", "Released", "Compensated"},
             NEW ids \in {"panes", "runtimes"}, Record(kind, as, ids)
      PROVE  receipts' \in [Kinds -> [as : {"none"} \cup (PluginAcks \ PluginErrors),
                                      ids : {"panes", "runtimes"}]]
  <2>1. as \in PluginAcks \ PluginErrors
    BY DEF PluginAcks, PluginErrors
  <2>2. QED
    BY <1>1, <2>1 DEF Record, PluginTypeOK
<1>2. "Activate" \in Kinds /\ "Release" \in Kinds /\ "Compensate" \in Kinds
  BY DEF Kinds
<1>3. CASE Reserve
  BY <1>3 DEF Reserve, PluginTypeOK
<1>4. CASE LoaderFails(fails)
  <2>1. CASE CleansUp(fails)
    BY <1>1, <1>2, <1>4, <2>1 DEF LoaderFails, PluginTypeOK
  <2>2. CASE ~CleansUp(fails)
    BY <1>4, <2>2 DEF LoaderFails, PluginTypeOK
  <2>3. QED
    BY <2>1, <2>2
<1>5. ASSUME NEW kind \in Kinds \cup {"NewTab"}, NEW ack \in PluginAcks,
             ResolvePlugins(kind, fails, ack)
      PROVE  PluginTypeOK'
  <2>1. CASE UNCHANGED pluginVars
    BY <2>1 DEF pluginVars, PluginTypeOK
  <2>2. CASE CompensateEmpty(kind, ack)
    BY <1>1, <1>2, <2>2 DEF CompensateEmpty, PluginTypeOK
  <2>3. CASE kind = "Activate" /\ Activate(fails, ack)
    BY <1>1, <1>2, <2>3 DEF Activate, PluginTypeOK
  <2>4. CASE kind = "Activate" /\ ActivateRollsBack(fails, ack)
    <3>1. CASE CleansUp(fails)
      BY <1>1, <1>2, <2>4, <3>1 DEF ActivateRollsBack, PluginTypeOK
    <3>2. CASE ~CleansUp(fails)
      BY <2>4, <3>2 DEF ActivateRollsBack, PluginTypeOK
    <3>3. QED
      BY <3>1, <3>2
  <2>5. CASE kind = "Release" /\ Release(fails, ack)
    <3>1. CASE CleansUp(fails)
      BY <1>1, <1>2, <2>5, <3>1 DEF Release, PluginTypeOK
    <3>2. CASE ~CleansUp(fails)
      BY <2>1, <2>5, <3>2 DEF Release
    <3>3. QED
      BY <3>1, <3>2
  <2>6. CASE kind = "Compensate" /\ Compensate(fails, ack)
    <3>1. projectors' \in {"unbound", "bound"}
      BY <2>6 DEF Compensate, PluginTypeOK
    <3>2. CASE CleansUp(fails)
      BY <1>1, <1>2, <2>6, <3>1, <3>2 DEF Compensate, PluginTypeOK
    <3>3. CASE ~CleansUp(fails)
      BY <2>6, <3>1, <3>3 DEF Compensate, PluginTypeOK
    <3>4. QED
      BY <3>2, <3>3
  <2>7. QED
    BY <1>5, <2>1, <2>2, <2>3, <2>4, <2>5, <2>6
    DEF ResolvePlugins, Replay, RefuseUnreserved, RefuseState
<1>6. QED
  BY <1>3, <1>4, <1>5

Outcomes == {Committed} \cup {Rejected(text) : text \in Texts}

\* What the PTY thread keeps is of its type.
LEMMA PtyTypes ==
  ASSUME PtyTypeOK(Texts), NEW fails, NEW paid,
         \/ BeginCommit \/ PreparationFails(fails, paid) \/ RetryPreparationDebt(paid)
         \/ \E outcome \in Outcomes, ack \in PtyAcks : ResolveCommit(outcome, fails, paid, ack)
  PROVE  PtyTypeOK(Texts)'
<1> USE DEF PtyTypeOK, Entry, NoEntry
<1>1. CASE BeginCommit \/ PreparationFails(fails, paid) \/ RetryPreparationDebt(paid)
  BY <1>1 DEF BeginCommit, PreparationFails, RetryPreparationDebt, ptyVars
<1>2. ASSUME NEW outcome \in Outcomes, NEW ack \in PtyAcks,
             ResolveCommit(outcome, fails, paid, ack)
      PROVE  PtyTypeOK(Texts)'
  <2>1. ASSUME NEW success \in {"none", "Resolved", "PtyRolledBack"},
               Settle(outcome, fails, success, ack)
        PROVE  PtyTypeOK(Texts)'
    BY <2>1 DEF Settle, Outcomes
  <2>2. CASE UNCHANGED ptyVars
    BY <2>2 DEF ptyVars
  <2>3. CASE RetryCleanup(outcome, fails, ack)
    BY <2>1, <2>2, <2>3 DEF RetryCleanup
  <2>4. CASE Commit(outcome, fails, ack)
    BY <2>1, <2>4 DEF Commit, Outcomes
  <2>5. CASE Reject(outcome, fails, ack)
    BY <2>1, <2>5 DEF Reject
  <2>6. QED
    BY <1>1, <1>2, <2>2, <2>3, <2>4, <2>5
    DEF ResolveCommit, ReplayCommit, StillPreparing, UnknownCommit
<1>3. QED
  BY <1>1, <1>2

\* The threads that own plugins and terminals keep the types.
LEMMA OwnerTypes ==
  ASSUME TypeInv,
         PluginReserves \/ PluginResolves \/ PluginLoaderFails
           \/ PtyPrepares \/ PtyResolves \/ PtyServesOthers
  PROVE  /\ PluginTypeOK' /\ PtyTypeOK(Texts)'
         /\ reply' \in [Coordinators -> {"none"} \cup PluginAcks \cup PtyAcks]
         /\ RequestTypes' /\ ReportTypes' /\ BoundTypes'
<1>1. /\ PluginTypeOK /\ PtyTypeOK(Texts) /\ RequestTypes /\ ReportTypes /\ BoundTypes
      /\ reply \in [Coordinators -> {"none"} \cup PluginAcks \cup PtyAcks]
  BY DEF TypeInv, CoordTypes
<1>2. /\ toPlugin # <<>> => Tail(toPlugin) \in Seq(PluginRequests) /\ Head(toPlugin) \in PluginRequests
      /\ toPty # <<>> => Tail(toPty) \in Seq(PtyRequests) /\ Head(toPty) \in PtyRequests
  BY <1>1 DEF RequestTypes
<1>3. ASSUME NEW n \in Nat, Spend(n)
      PROVE  faults' \in 0 .. MaxFaults
  BY <1>1, <1>3, TransactionAssumption DEF Spend, BoundTypes
<1>4. ASSUME UNCHANGED pluginVars
      PROVE  PluginTypeOK'
  BY <1>1, <1>4 DEF pluginVars, PluginTypeOK
<1>5. ASSUME UNCHANGED ptyVars
      PROVE  PtyTypeOK(Texts)'
  BY <1>1, <1>5 DEF ptyVars, PtyTypeOK
<1>6. ASSUME UNCHANGED coordVars
      PROVE  reply' \in [Coordinators -> {"none"} \cup PluginAcks \cup PtyAcks]
  BY <1>1, <1>6 DEF coordVars
<1>7. \A debt, paid \in BOOLEAN : Paid(debt, paid) \in Seq(Reports) /\ Unpaid(debt, paid) \in Nat
  <2>1. <<PreparationFailed(TRUE, TRUE)>> \in Seq(Reports)
    BY <1>1, ConstantTypes, Longer, Zenon DEF ReportTypes
  <2>2. <<>> \in Seq(Reports)
    OBVIOUS
  <2>3. QED
    BY <2>1, <2>2 DEF Paid, Unpaid
<1>8. CASE PluginReserves
  <2>1. toPlugin' \in Seq(PluginRequests) /\ toPty' \in Seq(PtyRequests) /\ ReportTypes'
    <3>1. NewTab \in PtyRequests /\ PreparationFailed(FALSE, TRUE) \in Reports
      BY ConstantTypes
    <3>2. Append(toPty, NewTab) \in Seq(PtyRequests)
          /\ Append(toScreen, PreparationFailed(FALSE, TRUE)) \in Seq(Reports)
      BY <1>1, <3>1, Longer, Zenon DEF RequestTypes, ReportTypes
    <3>3. QED
      BY <1>1, <1>2, <1>8, <3>2 DEF PluginReserves, RequestTypes, ReportTypes
  <2>2. PluginTypeOK'
    BY <1>1, <1>4, <1>8, PluginTypes DEF PluginReserves
  <2>3. BoundTypes'
    BY <1>1, <1>3, <1>8 DEF PluginReserves, BoundTypes
  <2>4. QED
    BY <1>5, <1>6, <1>8, <2>1, <2>2, <2>3 DEF PluginReserves, RequestTypes
<1>9. CASE PluginResolves
  <2>1. PICK fails \in SUBSET (Faults \cap PluginFaults), ack \in PluginAcks :
          /\ ResolvePlugins(Head(toPlugin).is, fails, ack)
          /\ Spend(Cardinality(fails))
          /\ Answer(Head(toPlugin).by, ack)
    BY <1>9 DEF PluginResolves
  <2>2. Head(toPlugin).is \in Kinds \cup {"NewTab"}
    BY <1>2, <1>9 DEF PluginResolves, PluginRequests, Requests
  <2>3. PluginTypeOK'
    BY <1>1, <2>1, <2>2, PluginTypes
  <2>4. reply' \in [Coordinators -> {"none"} \cup PluginAcks \cup PtyAcks]
    BY <1>1, <2>1 DEF Answer
  <2>5. BoundTypes'
    BY <1>1, <1>3, <1>9, <2>1, FaultCount DEF PluginResolves, BoundTypes
  <2>6. QED
    BY <1>1, <1>2, <1>5, <1>9, <2>3, <2>4, <2>5 DEF PluginResolves, RequestTypes, ReportTypes
<1>10. CASE PluginLoaderFails
  <2>1. PICK fails \in SUBSET (Faults \cap {"quiesce", "cleanup"}) :
          LoaderFails(fails) /\ Spend(1 + Cardinality(fails))
    BY <1>10 DEF PluginLoaderFails
  <2>2. fails \in SUBSET (Faults \cap PluginFaults)
    BY <2>1 DEF PluginFaults
  <2>3. 1 + Cardinality(fails) \in Nat
    BY <2>2, FaultCount
  <2>4. BoundTypes'
    BY <1>1, <1>3, <1>10, <2>1, <2>3 DEF PluginLoaderFails, BoundTypes
  <2>5. QED
    BY <1>1, <1>5, <1>6, <1>10, <2>1, <2>4, PluginTypes
    DEF PluginLoaderFails, RequestTypes, ReportTypes
<1>11. CASE PtyPrepares
  <2>1. RequestTypes'
    BY <1>1, <1>2, <1>11 DEF PtyPrepares, RequestTypes
  <2>2. CASE BeginCommit /\ toScreen' = Append(toScreen, ApplyLayout) /\ UNCHANGED faults
    BY <1>1, <1>4, <1>6, <1>11, <2>1, <2>2, ConstantTypes, PtyTypes
    DEF PtyPrepares, ReportTypes, BoundTypes
  <2>3. ASSUME NEW fails \in SUBSET (Faults \cap PtyFaults), NEW paid \in BOOLEAN,
               PreparationFails(fails, paid),
               toScreen' = Append(toScreen, PreparationFailed(TRUE, ~("close" \in fails)))
                             \o Paid("close" \in fails, paid),
               Spend(Cardinality(fails) + Unpaid("close" \in fails, paid))
        PROVE  PtyTypeOK(Texts)' /\ ReportTypes' /\ BoundTypes'
    <3> DEFINE debt == "close" \in fails
    <3>1. Paid(debt, paid) \in Seq(Reports) /\ Unpaid(debt, paid) \in Nat
          /\ PreparationFailed(TRUE, ~debt) \in Reports
      <4>1. debt \in BOOLEAN
        OBVIOUS
      <4> HIDE DEF debt
      <4>2. QED
        BY <4>1, <1>7, ConstantTypes
    <3>2. ReportTypes'
      <4>1. toScreen' = Append(toScreen, PreparationFailed(TRUE, ~debt)) \o Paid(debt, paid)
        BY <2>3
      <4> HIDE DEF debt
      <4>2. QED
        BY <1>1, <3>1, <4>1, Longer, Zenon DEF ReportTypes
    <3>3. Cardinality(fails) + Unpaid(debt, paid) \in Nat
      BY <3>1, FaultCount
    <3>4. faults' \in 0 .. MaxFaults
      BY <1>3, <2>3, <3>3
    <3>5. QED
      BY <1>1, <1>11, <2>3, <3>2, <3>4, PtyTypes DEF PtyPrepares, BoundTypes
  <2>4. QED
    BY <1>4, <1>6, <1>11, <2>1, <2>2, <2>3 DEF PtyPrepares
<1>12. CASE PtyResolves
  <2> DEFINE debt == ledger.at = "preparationDebt"
  <2>1. PICK fails \in SUBSET (Faults \cap PtyFaults), paid \in BOOLEAN, ack \in PtyAcks :
          /\ ResolveCommit(PtyOutcome(Head(toPty)), fails, paid, ack)
          /\ toScreen' = toScreen \o Paid(debt, paid)
          /\ Spend(Cardinality(fails) + Unpaid(debt, paid))
          /\ Answer(Head(toPty).by, ack)
    BY <1>12 DEF PtyResolves
  <2>2. PtyOutcome(Head(toPty)) \in Outcomes
    BY <1>2, <1>12 DEF PtyResolves, PtyOutcome, Outcomes, PtyRequests, Requests
  <2>3. reply' \in [Coordinators -> {"none"} \cup PluginAcks \cup PtyAcks]
    BY <1>1, <2>1 DEF Answer
  <2>4. PtyTypeOK(Texts)'
    BY <1>1, <2>1, <2>2, PtyTypes
  <2>5. Paid(debt, paid) \in Seq(Reports) /\ Unpaid(debt, paid) \in Nat
    BY <1>7
  <2>6. ReportTypes'
    BY <1>1, <2>1, <2>5 DEF ReportTypes
  <2>7. Cardinality(fails) + Unpaid(debt, paid) \in Nat
    BY <2>5, FaultCount
  <2>8. faults' \in 0 .. MaxFaults
    BY <1>3, <2>1, <2>7
  <2>9. QED
    BY <1>1, <1>2, <1>4, <1>12, <2>3, <2>4, <2>6, <2>8
    DEF PtyResolves, RequestTypes, BoundTypes
<1>13. CASE PtyServesOthers
  <2>1. ReportTypes'
    <3>1. Paid(TRUE, TRUE) \in Seq(Reports)
      BY <1>7
    <3>2. QED
      BY <1>1, <1>13, <3>1, Longer, Zenon DEF PtyServesOthers, ReportTypes
  <2>2. QED
    BY <1>1, <1>4, <1>6, <1>13, <2>1, PtyTypes DEF PtyServesOthers, RequestTypes, BoundTypes
<1>14. QED
  BY <1>8, <1>9, <1>10, <1>11, <1>12, <1>13

-----------------------------------------------------------------------------
(* Coordinations. *)

\* A call is sent as a well-formed request.
LEMMA SendTypes ==
  ASSUME TypeInv, NEW by \in Coordinators, NEW c \in Plans, NEW call \in Calls,
         NEW attempt \in 1 .. Attempts, NEW text \in Texts,
         Send(by, c, call, attempt, text)
  PROVE  coord' \in [Coordinators -> Plans] /\ Attempted' /\ RequestTypes'
<1> DEFINE p == [c EXCEPT !.call = call, !.attempt = attempt, !.text = text]
           request == [is |-> call, text |-> text, by |-> by]
<1>1. p \in Plans
  <2>1. attempt \in 0 .. Attempts
    BY TransactionAssumption
  <2>2. QED
    BY <2>1, PlanChange
<1>2. p.attempt \in 1 .. Attempts
  BY DEF Plans
<1>3. coord' = [coord EXCEPT ![by] = p] /\ coord \in [Coordinators -> Plans] /\ Attempted
  BY DEF Send, TypeInv, CoordTypes
<1> HIDE DEF p
<1>4. coord' \in [Coordinators -> Plans] /\ Attempted'
  BY <1>1, <1>2, <1>3 DEF Attempted
<1>5. call \in PtyCalls => request \in PtyRequests
  BY DEF PtyRequests, Requests
<1>6. call \notin PtyCalls => request \in PluginRequests
  BY DEF PluginRequests, Requests, Calls
<1>7. /\ call \in PtyCalls => toPty' = Append(toPty, request) /\ toPlugin' = toPlugin
      /\ call \notin PtyCalls => toPlugin' = Append(toPlugin, request) /\ toPty' = toPty
  BY DEF Send
<1> HIDE DEF request
<1>8. toPlugin \in Seq(PluginRequests) /\ toPty \in Seq(PtyRequests)
  BY DEF TypeInv, RequestTypes
<1>9. CASE call \in PtyCalls
  <2>1. Append(toPty, request) \in Seq(PtyRequests)
    BY <1>5, <1>8, <1>9, Longer, Zenon
  <2>2. toPty' = Append(toPty, request) /\ toPlugin' = toPlugin
    BY <1>7, <1>9
  <2>3. toPty' \in Seq(PtyRequests) /\ toPlugin' \in Seq(PluginRequests)
    BY <1>8, <2>1, <2>2, Zenon
  <2>4. QED
    BY <1>4, <2>3 DEF RequestTypes
<1>10. CASE call \notin PtyCalls
  <2>1. Append(toPlugin, request) \in Seq(PluginRequests)
    BY <1>6, <1>8, <1>10, Longer, Zenon
  <2>2. toPlugin' = Append(toPlugin, request) /\ toPty' = toPty
    BY <1>7, <1>10
  <2>3. toPty' \in Seq(PtyRequests) /\ toPlugin' \in Seq(PluginRequests)
    BY <1>8, <2>1, <2>2, Zenon
  <2>4. QED
    BY <1>4, <2>3 DEF RequestTypes
<1>11. QED
  BY <1>4, <1>9, <1>10

\* The text of the next call is one.
LEMMA NextTextType ==
  ASSUME NEW c \in Plans, c.attempt \in 1 .. Attempts, NEW ack
  PROVE  NextText(c, ack) \in Texts
<1>1. c.text \in Texts /\ <<0, "rolled back">> \in Texts
  BY DEF Plans, Texts, OwnTexts
<1>2. ack \in PluginErrors => <<c.attempt, ack>> \in Texts
  BY DEF Texts
<1>3. QED
  BY <1>1, <1>2 DEF NextText

\* Screen's variables keep their types when it draws a conclusion.
LEMMA ConcludeTypes ==
  ASSUME TypeInv, NEW plan \in Plans, NEW outcome \in {"Commit", "Rollback", "Unknown"},
         Conclude(plan, outcome)
  PROVE  ScreenTypes'
<1>1. [plan EXCEPT !.call = "none", !.attempt = 0] \in Plans
  <2>1. 0 \in 0 .. Attempts
    BY TransactionAssumption
  <2>2. QED
    BY <2>1 DEF Plans
<1>2. ScreenTypes /\ Idle \in Plans
  BY ConstantTypes DEF TypeInv
<1>3. CASE CommitTab
  BY <1>2, <1>3 DEF CommitTab, ScreenTypes
<1>4. CASE RollbackTab
  BY <1>2, <1>4 DEF RollbackTab, ScreenTypes, DiscardedTab
<1>5. CASE QuarantineTab(plan)
  BY <1>1, <1>2, <1>5 DEF QuarantineTab, ScreenTypes
<1>6. CASE DiscardTab
  BY <1>2, <1>6 DEF DiscardTab, ScreenTypes, DiscardedTab
<1>7. CASE UNCHANGED screenVars
  BY <1>2, <1>7 DEF screenVars, ScreenTypes
<1>8. QED
  BY <1>3, <1>4, <1>5, <1>6, <1>7 DEF Conclude, ConcludeApply, ConcludePreparation

\* Coordinators keep the types.
LEMMA CoordinatorTypes ==
  ASSUME TypeInv, NEW by \in Coordinators,
         (WorkerStarts /\ by = "worker") \/ TakeReply(by) \/ Timeout(by)
  PROVE  ScreenTypes' /\ CoordTypes' /\ RequestTypes' /\ BoundTypes'
<1> DEFINE c == coord[by]
           ack == reply[by]
<1>1. /\ ScreenTypes /\ BoundTypes /\ c \in Plans /\ c.text \in Texts
      /\ c.call \in Calls \cup {"none", "sleep"} /\ c.attempt \in 0 .. Attempts
      /\ c.call \in Calls => c.attempt \in 1 .. Attempts
      /\ coord \in [Coordinators -> Plans] /\ Attempted
      /\ reply \in [Coordinators -> {"none"} \cup PluginAcks \cup PtyAcks]
      /\ result \in {"none", "Commit", "Rollback", "Unknown"}
      /\ at \in {"top", "recv", "coordinating"}
      /\ toPlugin \in Seq(PluginRequests) /\ toPty \in Seq(PtyRequests)
  BY DEF TypeInv, CoordTypes, RequestTypes, Plans, Attempted
<1>2. 1 \in 1 .. Attempts /\ Idle \in Plans /\ Idle.call \notin Calls
  BY TransactionAssumption, ConstantTypes DEF Idle, Plan, Calls, Kinds, PtyCalls
<1>3. ASSUME UNCHANGED screenVars
      PROVE  ScreenTypes'
  BY <1>1, <1>3 DEF screenVars, ScreenTypes
<1>4. ASSUME coord' = [coord EXCEPT ![by] = Idle]
      PROVE  coord' \in [Coordinators -> Plans] /\ Attempted'
  <2>1. coord' \in [Coordinators -> Plans] /\ coord'[by] = Idle
        /\ \A b \in Coordinators : b # by => coord'[b] = coord[b]
    BY <1>1, <1>2, <1>4
  <2>2. QED
    BY <1>1, <1>2, <2>1 DEF Attempted
<1>5. ASSUME NEW outcome \in {"Commit", "Rollback", "Unknown"},
             IF by = "worker" THEN result' = outcome /\ UNCHANGED <<screenVars, at>>
                              ELSE Conclude(c, outcome) /\ at' = "top" /\ UNCHANGED result
      PROVE  /\ ScreenTypes' /\ result' \in {"none", "Commit", "Rollback", "Unknown"}
             /\ at' \in {"top", "recv", "coordinating"}
  <2>1. CASE by = "worker"
    BY <1>1, <1>3, <1>5, <2>1
  <2>2. CASE by # "worker"
    BY <1>1, <1>5, <2>2, ConcludeTypes
  <2>3. QED
    BY <2>1, <2>2
<1>6. ASSUME UNCHANGED <<lost, faults>>
      PROVE  BoundTypes'
  BY <1>1, <1>6 DEF BoundTypes
<1> HIDE DEF c, ack
<1>7. CASE WorkerStarts /\ by = "worker"
  <2>1. Send(by, c, FirstCall(c), 1, c.text)
    BY <1>7 DEF WorkerStarts, Begin, c
  <2>2. FirstCall(c) \in Calls
    BY DEF FirstCall, Calls, Kinds
  <2>3. coord' \in [Coordinators -> Plans] /\ Attempted' /\ RequestTypes'
    BY <1>1, <1>2, <2>1, <2>2, SendTypes
  <2>4. UNCHANGED <<screenVars, at, reply, result, lost, faults>>
    BY <1>7 DEF WorkerStarts
  <2>5. QED
    BY <1>1, <1>3, <1>6, <2>3, <2>4 DEF CoordTypes
<1>8. CASE TakeReply(by)
  <2>1. /\ reply' = [reply EXCEPT ![by] = "none"] /\ ack # "none"
        /\ UNCHANGED <<lost, faults>>
        /\ \/ Retries(c, ack) /\ Proceed(by, c.call, c.attempt + 1, c.text)
           \/ \E call \in NextCalls(c, ack) : Proceed(by, call, 1, NextText(c, ack))
           \/ Finish(by, Outcome(c, ack))
    BY <1>8 DEF TakeReply, c, ack
  <2>2. reply' \in [Coordinators -> {"none"} \cup PluginAcks \cup PtyAcks]
    BY <1>1, <2>1
  <2>3. ASSUME NEW call \in Calls, NEW attempt \in 1 .. Attempts, NEW text \in Texts,
               Proceed(by, call, attempt, text)
        PROVE  ScreenTypes' /\ CoordTypes' /\ RequestTypes'
    <3>1. Send(by, c, call, attempt, text) /\ UNCHANGED <<screenVars, at, result>>
      BY <2>3 DEF Proceed, c
    <3>2. coord' \in [Coordinators -> Plans] /\ Attempted' /\ RequestTypes'
      BY <1>1, <3>1, SendTypes
    <3>3. QED
      BY <1>1, <1>3, <2>2, <3>1, <3>2 DEF CoordTypes
  <2>4. CASE Retries(c, ack) /\ Proceed(by, c.call, c.attempt + 1, c.text)
    <3>1. c.call \in Calls /\ c.attempt + 1 \in 1 .. Attempts
      BY <1>1, <2>4, TransactionAssumption DEF Retries, Calls
    <3>2. QED
      BY <1>1, <1>6, <2>1, <2>3, <2>4, <3>1
  <2>5. CASE \E call \in NextCalls(c, ack) : Proceed(by, call, 1, NextText(c, ack))
    <3>1. PICK call \in NextCalls(c, ack) : Proceed(by, call, 1, NextText(c, ack))
      BY <2>5
    <3>2. call \in Calls /\ <<c.call, ack, call>> \in Continues
      BY DEF NextCalls, Calls
    <3>3. c.call \in {"Activate", "Release", "Committed"}
      BY <3>2 DEF Continues
    <3>4. NextText(c, ack) \in Texts
      BY <1>1, <3>3, NextTextType DEF Calls, Kinds, PtyCalls
    <3>5. QED
      BY <1>2, <1>6, <2>1, <2>3, <3>1, <3>2, <3>4
  <2>6. CASE Finish(by, Outcome(c, ack))
    <3>1. Outcome(c, ack) \in {"Commit", "Rollback", "Unknown"}
      BY DEF Outcome
    <3>2. coord' = [coord EXCEPT ![by] = Idle] /\ UNCHANGED <<toPlugin, toPty>>
      BY <2>6 DEF Finish
    <3>3. /\ ScreenTypes' /\ result' \in {"none", "Commit", "Rollback", "Unknown"}
          /\ at' \in {"top", "recv", "coordinating"}
      BY <1>5, <2>6, <3>1 DEF Finish, c
    <3>4. QED
      BY <1>1, <1>4, <1>6, <2>1, <2>2, <3>2, <3>3 DEF CoordTypes, RequestTypes
  <2>7. QED
    BY <2>1, <2>4, <2>5, <2>6
<1>9. CASE Timeout(by)
  <2> DEFINE again == [is |-> c.call, text |-> c.text, by |-> by]
             resent(queue, mine) ==
               Orphan(queue, by) \o (IF mine /\ c.attempt < Attempts THEN <<again>> ELSE <<>>)
  <2>1. /\ c.call \in Kinds \cup PtyCalls /\ lost < MaxLost /\ lost' = lost + 1
        /\ toPlugin' = resent(toPlugin, c.call \in Kinds)
        /\ toPty' = resent(toPty, c.call \in PtyCalls)
        /\ UNCHANGED <<reply, faults>>
        /\ IF c.attempt < Attempts
             THEN /\ coord' = [coord EXCEPT ![by].attempt = c.attempt + 1]
                  /\ UNCHANGED <<screenVars, at, result>>
             ELSE /\ coord' = [coord EXCEPT ![by] = Idle]
                  /\ IF by = "worker"
                       THEN result' = "Unknown" /\ UNCHANGED <<screenVars, at>>
                       ELSE Conclude(c, "Unknown") /\ at' = "top" /\ UNCHANGED result
    BY <1>9 DEF Timeout, c
  <2>2. c.call \in Kinds => again \in PluginRequests
    BY <1>1 DEF PluginRequests, Requests
  <2>3. c.call \in PtyCalls => again \in PtyRequests
    BY <1>1 DEF PtyRequests, Requests
  <2>4. Orphan(toPlugin, by) \in Seq(PluginRequests) /\ Orphan(toPty, by) \in Seq(PtyRequests)
    BY <1>1, Orphaned DEF PluginRequests, PtyRequests
  <2> HIDE DEF again
  <2>5. RequestTypes'
    <3>1. toPlugin' \in Seq(PluginRequests)
      BY <2>1, <2>2, <2>4
    <3>2. toPty' \in Seq(PtyRequests)
      BY <2>1, <2>3, <2>4
    <3>3. QED
      BY <3>1, <3>2 DEF RequestTypes
  <2>6. BoundTypes'
    BY <1>1, <2>1, TransactionAssumption DEF BoundTypes
  <2>7. CASE c.attempt < Attempts
    <3>1. c.attempt + 1 \in 0 .. Attempts /\ c.attempt + 1 \in 1 .. Attempts
      BY <1>1, <2>7, TransactionAssumption
    <3>2. [coord[by] EXCEPT !.attempt = c.attempt + 1] \in Plans
          /\ [coord[by] EXCEPT !.attempt = c.attempt + 1].attempt = c.attempt + 1
      BY <1>1, <3>1 DEF Plans, c
    <3>3. /\ coord' \in [Coordinators -> Plans] /\ coord'[by].attempt = c.attempt + 1
          /\ \A b \in Coordinators : b # by => coord'[b] = coord[b]
      BY <1>1, <2>1, <2>7, <3>2
    <3>4. Attempted'
      BY <1>1, <3>1, <3>3 DEF Attempted
    <3>5. QED
      BY <1>1, <1>3, <2>1, <2>5, <2>6, <2>7, <3>3, <3>4 DEF CoordTypes
  <2>8. CASE ~(c.attempt < Attempts)
    <3>1. /\ ScreenTypes' /\ result' \in {"none", "Commit", "Rollback", "Unknown"}
          /\ at' \in {"top", "recv", "coordinating"}
      BY <1>5, <2>1, <2>8 DEF c
    <3>2. QED
      BY <1>1, <1>4, <2>1, <2>5, <2>6, <2>8, <3>1 DEF CoordTypes
  <2>9. QED
    BY <2>7, <2>8
<1>10. QED
  BY <1>7, <1>8, <1>9

-----------------------------------------------------------------------------
(* The Screen thread. *)

\* What Screen plans is a plan.
LEMMA OwnPlans ==
  /\ ApplyPlans \subseteq Plans
  /\ Plan("RejectByOwner", <<0, "mismatch">>, FALSE, FALSE) \in Plans
  /\ \A clean \in BOOLEAN :
       Plan("PreparationFailure", <<0, "preparation">>, FALSE, clean) \in Plans
<1>1. /\ NoText \in Texts /\ <<0, "preflight">> \in Texts /\ <<0, "stale">> \in Texts
      /\ <<0, "mismatch">> \in Texts /\ <<0, "preparation">> \in Texts
  BY DEF Texts, OwnTexts
<1>2. {"Activate", "Reject", "RejectByOwner", "PreparationFailure"} \subseteq Intents
  BY DEF Intents
<1>3. \A i \in Intents, t \in Texts, p, c \in BOOLEAN : Plan(i, t, p, c) \in Plans
  BY ConstantTypes
<1>4. QED
  BY <1>1, <1>2, <1>3 DEF ApplyPlans

\* Screen's own steps keep the types of what it changes.
LEMMA ScreenStepTypes ==
  ASSUME TypeInv,
         OpenTab \/ CloseTab \/ ScreenStep
  PROVE  ScreenTypes' /\ CoordTypes' /\ RequestTypes' /\ ReportTypes' /\ BoundTypes'
<1>1. /\ ScreenTypes /\ CoordTypes /\ RequestTypes /\ ReportTypes /\ BoundTypes
      /\ "screen" \in Coordinators /\ "worker" \in Coordinators
      /\ toScreen # <<>> => Head(toScreen) \in Reports
  BY DEF TypeInv, Coordinators, ReportTypes
<1>2. UNCHANGED <<lost, faults>>
  BY DEF OpenTab, CloseTab, ScreenStep, IgnoreMessage, HandleApplyLayout, HandleMismatch,
         HandlePreparationFailed, LoopTop, Wake
<1>3. BoundTypes'
  BY <1>1, <1>2 DEF BoundTypes
<1>4. ASSUME UNCHANGED screenVars
      PROVE  ScreenTypes'
  BY <1>1, <1>4 DEF screenVars, ScreenTypes
<1>5. ASSUME UNCHANGED coordVars, at' \in {"top", "recv", "coordinating"}
      PROVE  CoordTypes'
  BY <1>1, <1>5 DEF coordVars, CoordTypes, Attempted
<1>6. ASSUME UNCHANGED <<toPlugin, toPty>>
      PROVE  RequestTypes'
  BY <1>1, <1>6 DEF RequestTypes
<1>7. ASSUME toScreen' = toScreen \/ (toScreen # <<>> /\ toScreen' = Tail(toScreen))
      PROVE  ReportTypes'
  BY <1>1, <1>7 DEF ReportTypes
<1>8. ASSUME NEW plan \in Plans, Begin("screen", plan),
             at' = "coordinating", UNCHANGED <<reply, result>>
      PROVE  CoordTypes' /\ RequestTypes'
  <2>1. 1 \in 1 .. Attempts /\ FirstCall(plan) \in Calls /\ plan.text \in Texts
    BY TransactionAssumption DEF FirstCall, Calls, Kinds, Plans
  <2>2. coord' \in [Coordinators -> Plans] /\ Attempted' /\ RequestTypes'
    BY <1>1, <1>8, <2>1, SendTypes DEF Begin
  <2>3. QED
    BY <1>1, <1>8, <2>2 DEF CoordTypes
<1>9. CASE OpenTab
  <2>1. toPlugin' \in Seq(PluginRequests)
    BY <1>1, <1>9, ConstantTypes, Longer, Zenon DEF OpenTab, RequestTypes
  <2>2. RequestTypes' /\ ScreenTypes'
    BY <1>1, <1>9, <2>1 DEF OpenTab, RequestTypes, ScreenTypes
  <2>3. QED
    BY <1>3, <1>5, <1>7, <1>9, <2>2 DEF OpenTab
<1>10. CASE CloseTab
  BY <1>1, <1>3, <1>5, <1>6, <1>7, <1>10 DEF CloseTab, ScreenTypes
<1>11. CASE IgnoreMessage
  BY <1>3, <1>4, <1>5, <1>6, <1>7, <1>11 DEF IgnoreMessage, Receives
<1>12. CASE HandleApplyLayout
  <2>1. PICK plan \in ApplyPlans :
          /\ Begin("screen", plan)
          /\ tab' = IF plan.prepared THEN "prepared" ELSE tab
    BY <1>12 DEF HandleApplyLayout
  <2>2. plan \in Plans
    BY OwnPlans
  <2>3. CoordTypes' /\ RequestTypes'
    BY <1>8, <1>12, <2>1, <2>2 DEF HandleApplyLayout
  <2>4. QED
    BY <1>1, <1>3, <1>7, <1>12, <2>1, <2>3 DEF HandleApplyLayout, Receives, ScreenTypes
<1>13. CASE HandleMismatch
  <2>1. Plan("RejectByOwner", <<0, "mismatch">>, FALSE, FALSE) \in Plans
    BY OwnPlans
  <2>2. ScreenTypes'
    BY <1>1, <1>13, <2>1 DEF HandleMismatch, ScreenTypes
  <2>3. QED
    BY <1>3, <1>5, <1>6, <1>7, <1>13, <2>2 DEF HandleMismatch, Receives
<1>14. CASE HandlePreparationFailed
  <2>1. CASE Message.release
    <3> DEFINE plan == Plan("PreparationFailure", <<0, "preparation">>, FALSE, Message.ptyClean)
    <3>1. Message.ptyClean \in BOOLEAN
      BY <1>1, <1>14 DEF HandlePreparationFailed, Receives, Message, Reports, ApplyLayout,
                         PreparationFailed
    <3>2. plan \in Plans
      BY <3>1, OwnPlans
    <3>3. Begin("screen", plan) /\ at' = "coordinating" /\ UNCHANGED <<reply, result>>
          /\ UNCHANGED screenVars
      BY <1>14, <2>1 DEF HandlePreparationFailed
    <3> HIDE DEF plan
    <3>4. CoordTypes' /\ RequestTypes'
      BY <1>8, <3>2, <3>3
    <3>5. QED
      BY <1>3, <1>4, <1>7, <1>14, <3>3, <3>4 DEF HandlePreparationFailed, Receives
  <2>2. CASE ~Message.release
    <3>1. /\ DiscardTab /\ at' = "top" /\ UNCHANGED <<coord, reply, result, toPlugin, toPty>>
          /\ toScreen # <<>> /\ toScreen' = Tail(toScreen)
      BY <1>14, <2>2 DEF HandlePreparationFailed, Receives
    <3>2. ScreenTypes'
      BY <1>1, <3>1 DEF DiscardTab, DiscardedTab, ScreenTypes
    <3>3. QED
      BY <1>3, <1>5, <1>6, <1>7, <3>1, <3>2 DEF coordVars
  <2>3. QED
    BY <2>1, <2>2
<1>15. CASE LoopTop
  <2>1. ScreenTypes'
    <3>1. CASE CommitTab
      BY <1>1, <3>1, ConstantTypes DEF CommitTab, ScreenTypes
    <3>2. CASE RollbackTab
      BY <1>1, <3>2, ConstantTypes DEF RollbackTab, DiscardedTab, ScreenTypes
    <3>3. QED
      BY <1>4, <1>15, <3>1, <3>2 DEF LoopTop, Reconcile
  <2>2. quarantine' \in Plans
    BY <2>1 DEF ScreenTypes
  <2>3. CASE coord' = coord
    BY <1>1, <1>3, <1>6, <1>7, <1>15, <2>1, <2>3 DEF LoopTop, CoordTypes, Attempted
  <2>4. CASE coord' = [coord EXCEPT !["worker"] = [quarantine' EXCEPT !.call = "sleep"]]
    <3> DEFINE p == [quarantine' EXCEPT !.call = "sleep"]
    <3>1. p \in Plans /\ p.call \notin Calls
      BY <2>2 DEF Plans, Calls, Kinds, PtyCalls
    <3> HIDE DEF p
    <3>2. coord' \in [Coordinators -> Plans] /\ coord'["worker"] = p
          /\ \A b \in Coordinators : b # "worker" => coord'[b] = coord[b]
      BY <1>1, <2>4, <3>1 DEF p, CoordTypes
    <3>3. CoordTypes'
      BY <1>1, <1>15, <3>1, <3>2 DEF LoopTop, CoordTypes, Attempted
    <3>4. QED
      BY <1>3, <1>6, <1>7, <1>15, <2>1, <3>3 DEF LoopTop
  <2>5. QED
    BY <1>15, <2>3, <2>4 DEF LoopTop
<1>16. CASE Wake
  BY <1>3, <1>4, <1>5, <1>6, <1>7, <1>16 DEF Wake
<1>17. QED
  BY <1>9, <1>10, <1>11, <1>12, <1>13, <1>14, <1>15, <1>16 DEF ScreenStep

-----------------------------------------------------------------------------
\* Every step keeps the types.
LEMMA TypeStep ==
  ASSUME TypeInv, [Next]_vars
  PROVE  TypeInv'
<1>1. ASSUME UNCHANGED vars
      PROVE  TypeInv'
  <2>1. UNCHANGED <<pluginVars, ptyVars, screenVars, at, coordVars, toPlugin, toPty, toScreen,
                    lost, faults>>
    BY <1>1 DEF vars
  <2>2. PluginTypeOK' /\ PtyTypeOK(Texts)'
    BY <2>1 DEF pluginVars, ptyVars, PluginTypeOK, PtyTypeOK, TypeInv
  <2>3. QED
    BY <2>1, <2>2 DEF TypeInv, screenVars, coordVars, ScreenTypes, CoordTypes, Attempted,
                      RequestTypes, ReportTypes, BoundTypes
<1>2. ASSUME UNCHANGED <<pluginVars, ptyVars>>
      PROVE  PluginTypeOK' /\ PtyTypeOK(Texts)'
  BY <1>2 DEF pluginVars, ptyVars, PluginTypeOK, PtyTypeOK, TypeInv
<1>3. CASE OpenTab \/ CloseTab \/ ScreenStep
  <2>1. UNCHANGED <<pluginVars, ptyVars>>
    BY <1>3 DEF OpenTab, CloseTab, ScreenStep, IgnoreMessage, HandleApplyLayout,
                HandleMismatch, HandlePreparationFailed, LoopTop, Wake
  <2>2. QED
    BY <1>2, <1>3, <2>1, ScreenStepTypes DEF TypeInv
<1>4. ASSUME NEW by \in Coordinators,
             (WorkerStarts /\ by = "worker") \/ TakeReply(by) \/ Timeout(by)
      PROVE  TypeInv'
  <2>1. UNCHANGED <<pluginVars, ptyVars, toScreen>>
    BY <1>4 DEF WorkerStarts, TakeReply, Timeout
  <2>2. ReportTypes'
    BY <2>1 DEF TypeInv, ReportTypes
  <2>3. QED
    BY <1>2, <1>4, <2>1, <2>2, CoordinatorTypes DEF TypeInv
<1>5. CASE PluginReserves \/ PluginResolves \/ PluginLoaderFails
             \/ PtyPrepares \/ PtyResolves \/ PtyServesOthers
  <2>1. UNCHANGED <<screenVars, at, coord, result>>
    BY <1>5 DEF PluginReserves, PluginResolves, PluginLoaderFails, PtyPrepares, PtyResolves,
                PtyServesOthers, coordVars
  <2>2. ScreenTypes' /\ CoordTypes'
    BY <1>5, <2>1, OwnerTypes DEF TypeInv, screenVars, ScreenTypes, CoordTypes, Attempted
  <2>3. QED
    BY <1>5, <2>2, OwnerTypes DEF TypeInv
<1>6. CASE Settled
  BY <1>1, <1>6 DEF Settled
<1>7. "worker" \in Coordinators
  BY DEF Coordinators
<1>8. QED
  BY <1>1, <1>3, <1>4, <1>5, <1>6, <1>7 DEF Next, PluginStep, PtyStep

\* The initial states are well-typed.
LEMMA InitTypes == Init => TypeInv
<1> SUFFICES ASSUME Init
             PROVE  TypeInv
  OBVIOUS
<1>1. PluginTypeOK /\ PtyTypeOK(Texts)
  BY ShapesAssumption DEF Init, PluginInit, PtyInit, PluginTypeOK, PtyTypeOK, NoReceipt,
                          NoEntry, Entry
<1>2. ScreenTypes
  BY ConstantTypes DEF Init, ScreenTypes
<1>3. RequestTypes /\ ReportTypes
  <2>1. \A S : <<>> \in Seq(S)
    OBVIOUS
  <2>2. QED
    BY <2>1, Zenon DEF Init, RequestTypes, ReportTypes
<1>4. CoordTypes
  BY ConstantTypes DEF Init, CoordTypes, Attempted, Idle, Plan, Calls, Kinds, PtyCalls
<1>5. BoundTypes
  BY TransactionAssumption DEF Init, BoundTypes
<1>6. QED
  BY <1>1, <1>2, <1>3, <1>4, <1>5 DEF TypeInv

\* TypeOK, for any bounds on attempts, lost acks and faults: every variable has
\* its type, no call is attempted more than LAYOUT_COMMIT_ACK_ATTEMPTS times,
\* and each channel carries only the messages that its receiver handles.
THEOREM TypeCorrect == Spec => []TypeOK
<1>1. Init => TypeInv
  BY InitTypes
<1>2. TypeInv /\ [Next]_vars => TypeInv'
  BY TypeStep
<1>3. TypeInv => TypeOK
  <2> SUFFICES ASSUME TypeInv
               PROVE  TypeOK
    OBVIOUS
  <2>1. \A S, q : q \in Seq(S) => SeqOf(S, q)
    BY DEF SeqOf
  <2>2. /\ SeqOf(PluginRequests, toPlugin) /\ SeqOf(PtyRequests, toPty)
        /\ SeqOf(Reports, toScreen)
    BY <2>1 DEF TypeInv, RequestTypes, ReportTypes
  <2>3. QED
    BY <2>2 DEF TypeInv, TypeOK, PluginRequests, PtyRequests, Reports, ScreenTypes, CoordTypes,
                BoundTypes
<1>4. QED
  BY <1>1, <1>2, <1>3, PTL DEF Spec

-----------------------------------------------------------------------------
(* Screen and its worker. *)

\* What quarantine, gate and the two coordinations have to do with each other.
ScreenInv ==
  /\ tab = "absent" => ~active /\ ~gate /\ decision = "none"
  /\ at = "coordinating" <=> coord["screen"].intent # "none"
  /\ at = "coordinating" =>
       active /\ ~Quarantined /\ (coord["screen"].prepared => tab = "prepared")
  /\ Quarantined => active /\ (quarantine.prepared => tab = "prepared")
  /\ coord["worker"].intent # "none" =>
       Quarantined /\ coord["worker"].intent = quarantine.intent /\ result = "none"
  /\ result # "none" => Quarantined
  /\ active => decision = "none"
  /\ ~active \/ (Quarantined /\ quarantine.intent # "RejectByOwner") => ~gate
  /\ \A by \in Coordinators : coord[by].intent = "none" => coord[by] = Idle

(* Before Screen has the PTY thread's report. *)

\* Nobody coordinates and nothing was resolved.
Quiet ==
  /\ \A by \in Coordinators : coord[by].intent = "none" /\ reply[by] = "none"
  /\ ~Quarantined /\ result = "none" /\ decision = "none"
  /\ \A k \in Kinds : receipts[k] = NoReceipt

Opened == active /\ tab \in {"pending", "closed"}

\* The transaction's one message is with Plugin, PTY or Screen.
Early ==
  /\ Quiet
  /\ \/ /\ tab = "absent" /\ ~active
        /\ toPlugin = <<>> /\ toPty = <<>> /\ toScreen = <<>> /\ ledger = NoEntry
     \/ /\ Opened
        /\ toPlugin = <<NewTab>> /\ toPty = <<>> /\ toScreen = <<>> /\ ledger = NoEntry
     \/ /\ Opened
        /\ toPlugin = <<>> /\ toPty = <<NewTab>> /\ toScreen = <<>> /\ ledger = NoEntry
     \/ /\ Opened
        /\ toPlugin = <<>> /\ toPty = <<>> /\ toScreen = <<ApplyLayout>>
        /\ ledger = Entry("pending", NoOutcome, "none")

(* Afterwards. *)

Asked(call) ==
  \/ \E i \in DOMAIN toPlugin : toPlugin[i].is = call
  \/ \E by \in Coordinators : coord[by].call = call

HasReceipt(kind) == receipts[kind] # NoReceipt

Activated == receipts["Activate"].as = "Activated"

\* Plugins are not activated and will not be.
Cannot == ~Activated /\ reservation # "Reserved"

Activating == coord["screen"].intent = "Activate" \/ quarantine.intent = "Activate"

\* Nobody asks for an activation.
NeverAsked == ~Activated /\ ~Asked("Activate") /\ ~Activating

\* A coordinator that has no answer to its last call waits for one request.
Waits(queue, by, ack, call) ==
  /\ \A i \in DOMAIN queue : queue[i].by = by => ack = "none" /\ queue[i].is = call
  /\ \A i, j \in DOMAIN queue : queue[i].by = by /\ queue[j].by = by => i = j

Waiting(queue, by) == Waits(queue, by, reply[by], coord[by].call)

CallInv ==
  \A by \in Coordinators :
    /\ Waiting(toPlugin, by) /\ Waiting(toPty, by)
    /\ reply[by] # "none" => coord[by].call \in Calls
    /\ coord[by].call = "Activate" => coord[by].intent = "Activate"
    /\ coord[by].call \in {"Committed", "Compensate"} => Activated

NoMoreReports ==
  /\ \A i \in DOMAIN toPlugin : toPlugin[i].is # "NewTab"
  /\ \A i \in DOMAIN toPty : toPty[i].is # "NewTab"
  /\ \A i \in DOMAIN toScreen : toScreen[i].is # "ApplyLayout"

PluginInv ==
  /\ receipts["Activate"].ids = "panes"
  /\ HasReceipt("Activate") => reservation # "Reserved"
  /\ Asked("Release") \/ HasReceipt("Release") => Cannot \/ NeverAsked
  /\ Asked("Activate") \/ HasReceipt("Activate") => Activating \/ ~active

PtyCommitted == ledger = Entry("receipt", Committed, "Resolved") /\ terminals = "running"

PtyInv ==
  ledger.outcome = Committed =>
    /\ ledger.at = "resolutionDebt" => ledger.ack = "PtyRolledBack"
    /\ ledger.at = "receipt" /\ ledger.ack = "Resolved" => PtyCommitted

ReplyInv ==
  \A by \in Coordinators :
    /\ coord[by].call = "Activate" /\ reply[by] = "Activated" => Activated
    /\ coord[by].call = "Activate" /\ reply[by] \in PluginErrors => Cannot
    /\ coord[by].call = "Committed" /\ reply[by] = "Resolved" => PtyCommitted

Whole == Activated /\ ~HasReceipt("Release") /\ PtyCommitted

Later ==
  /\ tab # "absent"
  /\ NoMoreReports /\ CallInv /\ PluginInv /\ PtyInv /\ ReplyInv
  /\ result = "Commit" \/ decision = "Committed" => Whole

IInv == TypeInv /\ ScreenInv /\ (Early \/ Later)
-----------------------------------------------------------------------------
(* Screen and its worker keep ScreenInv. *)

\* An idle coordinator, and one that goes on.
LEMMA Coordination ==
  /\ Idle.intent = "none" /\ Idle.call = "none"
  /\ \A c \in Plans : \A call, attempt, text :
       /\ [c EXCEPT !.call = call, !.attempt = attempt, !.text = text].intent = c.intent
       /\ [c EXCEPT !.call = call, !.attempt = attempt, !.text = text].prepared = c.prepared
       /\ [c EXCEPT !.call = call, !.attempt = attempt, !.text = text].call = call
  /\ \A c \in Plans : \A attempt :
       /\ [c EXCEPT !.call = "none", !.attempt = attempt].intent = c.intent
       /\ [c EXCEPT !.call = "none", !.attempt = attempt].prepared = c.prepared
  /\ \A c \in Plans :
       /\ [c EXCEPT !.call = "sleep"].intent = c.intent
       /\ [c EXCEPT !.call = "sleep"].call = "sleep"
BY DEF Idle, Plan, Plans

\* What PTY says of its cleanup.
LEMMA ReportFields ==
  \A m \in Reports : m.ptyClean \in BOOLEAN
<1> TAKE m \in Reports
<1>1. m = ApplyLayout \/ m \in [is : {"PreparationFailed"}, release : BOOLEAN, ptyClean : BOOLEAN]
  BY DEF Reports, PreparationFailed
<1>2. CASE m = ApplyLayout
  <2>1. ApplyLayout.ptyClean = FALSE
    BY DEF ApplyLayout
  <2>2. QED
    BY <1>2, <2>1, Zenon
<1>3. CASE m \in [is : {"PreparationFailed"}, release : BOOLEAN, ptyClean : BOOLEAN]
  BY <1>3
<1>4. QED
  BY <1>1, <1>2, <1>3

\* Who has an answer coordinates.
LEMMA Answered ==
  ASSUME IInv, NEW by \in Coordinators,
         reply[by] # "none" \/ coord[by].call \in Calls \cup {"sleep"}
  PROVE  /\ coord[by].intent # "none" /\ coord[by] \in Plans /\ Later
         /\ reply[by] # "none" => coord[by].call \in Calls
<1>1. Idle.call \notin Calls \cup {"sleep"}
  BY Coordination DEF Calls, Kinds, PtyCalls
<1>2. coord[by].intent = "none" => coord[by] = Idle
  BY DEF IInv, ScreenInv
<1>3. coord[by] \in Plans
  BY DEF IInv, TypeInv, CoordTypes
<1>4. CASE Early
  BY <1>1, <1>2, <1>4 DEF Early, Quiet
<1>5. CASE Later
  BY <1>1, <1>2, <1>3, <1>5 DEF Later, CallInv
<1>6. QED
  BY <1>4, <1>5 DEF IInv

\* A step that no coordination begins or ends with.
LEMMA ScreenSame ==
  ASSUME ScreenInv, UNCHANGED <<screenVars, at, result>>,
         \A by \in Coordinators :
           /\ coord'[by].intent = coord[by].intent
           /\ coord'[by].prepared = coord[by].prepared
           /\ coord'[by].intent = "none" => coord'[by] = Idle
  PROVE  ScreenInv'
BY DEF ScreenInv, screenVars, Quarantined, Coordinators

\* Screen's own steps keep its invariant.
LEMMA ScreenOwn ==
  ASSUME IInv, OpenTab \/ CloseTab \/ ScreenStep
  PROVE  ScreenInv'
<1> USE Coordination DEF Quarantined
<1>1. /\ ScreenInv /\ coord \in [Coordinators -> Plans] /\ quarantine \in Plans
      /\ "screen" \in Coordinators /\ "worker" \in Coordinators
  BY DEF IInv, TypeInv, CoordTypes, ScreenTypes, Coordinators
<1>2. CASE OpenTab
  BY <1>1, <1>2 DEF OpenTab, ScreenInv, coordVars
<1>3. CASE CloseTab
  BY <1>1, <1>3 DEF CloseTab, Closable, ScreenInv, coordVars
<1>4. CASE IgnoreMessage \/ Wake
  BY <1>1, <1>4 DEF IgnoreMessage, Receives, Wake, ScreenInv, screenVars, coordVars
<1>5. ASSUME NEW plan \in Plans, plan.intent # "none", Begin("screen", plan),
             at = "recv", active, ~Quarantined, at' = "coordinating",
             UNCHANGED <<active, gate, quarantine, decision, reply, result>>,
             plan.prepared => tab' = "prepared", tab' # "absent"
      PROVE  ScreenInv'
  <2>1. /\ coord'["screen"].intent = plan.intent /\ coord'["screen"].prepared = plan.prepared
        /\ coord'["worker"] = coord["worker"]
    BY <1>1, <1>5 DEF Begin, Send
  <2>2. QED
    BY <1>1, <1>5, <2>1 DEF ScreenInv, Coordinators
<1>6. CASE HandleApplyLayout
  <2>1. PICK plan \in ApplyPlans :
          /\ Begin("screen", plan)
          /\ tab' = IF plan.prepared THEN "prepared" ELSE tab
    BY <1>6 DEF HandleApplyLayout
  <2>2. plan \in Plans /\ plan.intent # "none"
    BY OwnPlans DEF ApplyPlans, Plan
  <2>3. tab # "absent"
    BY <1>1, <1>6 DEF HandleApplyLayout, ScreenInv
  <2>4. QED
    BY <1>5, <1>6, <2>1, <2>2, <2>3 DEF HandleApplyLayout, Receives
<1>7. CASE HandleMismatch
  <2>1. quarantine'.intent = "RejectByOwner" /\ ~quarantine'.prepared
    BY <1>7 DEF HandleMismatch, Plan
  <2>2. UNCHANGED <<tab, active, gate, decision, coord, result>> /\ at = "recv" /\ at' = "top"
        /\ active /\ ~Quarantined
    BY <1>7 DEF HandleMismatch, Receives, coordVars
  <2>3. QED
    BY <1>1, <2>1, <2>2 DEF ScreenInv
<1>8. CASE HandlePreparationFailed
  <2>1. CASE Message.release
    <3> DEFINE plan == Plan("PreparationFailure", <<0, "preparation">>, FALSE, Message.ptyClean)
    <3>1. Begin("screen", plan) /\ plan.intent # "none" /\ ~plan.prepared
      BY <1>8, <2>1 DEF HandlePreparationFailed, Plan
    <3>2. plan \in Plans
      <4>1. toScreen \in Seq(Reports) /\ toScreen # <<>>
        BY <1>8 DEF HandlePreparationFailed, Receives, IInv, TypeInv, ReportTypes
      <4>2. Message \in Reports
        BY <4>1 DEF Message
      <4>3. Message.ptyClean \in BOOLEAN
        BY <4>2, ReportFields
      <4>4. QED
        BY <4>3, OwnPlans
    <3> HIDE DEF plan
    <3>3. tab # "absent"
      BY <1>1, <1>8 DEF HandlePreparationFailed, ScreenInv
    <3>4. QED
      BY <1>5, <1>8, <2>1, <3>1, <3>2, <3>3 DEF HandlePreparationFailed, Receives, screenVars
  <2>2. CASE ~Message.release
    <3>1. /\ DiscardTab /\ at = "recv" /\ at' = "top" /\ UNCHANGED <<coord, reply, result>>
          /\ ~Quarantined /\ active
      BY <1>8, <2>2 DEF HandlePreparationFailed, Receives
    <3>2. QED
      BY <1>1, <3>1 DEF DiscardTab, DiscardedTab, ScreenInv
  <2>3. QED
    BY <2>1, <2>2
<1>9. CASE LoopTop
  <2>1. CASE Quarantined /\ result \in {"Commit", "Rollback"} /\ (CommitTab \/ RollbackTab)
    <3>1. /\ quarantine' = Idle /\ ~active' /\ ~gate' /\ result' = "none"
          /\ tab' = "absent" => tab = "absent"
          /\ tab # "absent" \/ ~active
      BY <1>1, <2>1, <1>9 DEF CommitTab, RollbackTab, DiscardedTab, LoopTop, ScreenInv
    <3>2. coord' = coord /\ coord["worker"].intent = "none" /\ coord["screen"].intent = "none"
          /\ at' = "recv"
      BY <1>1, <1>9, <2>1, <3>1 DEF LoopTop, ScreenInv
    <3>3. QED
      BY <1>1, <2>1, <3>1, <3>2 DEF ScreenInv
  <2>2. CASE UNCHANGED screenVars
    <3>1. at = "top" /\ at' = "recv" /\ result' = "none" /\ coord["screen"].intent = "none"
      BY <1>1, <1>9 DEF LoopTop, ScreenInv
    <3>2. CASE coord' = coord
      BY <1>1, <2>2, <3>1, <3>2 DEF ScreenInv, screenVars
    <3>3. CASE /\ quarantine'.intent # "none"
               /\ coord' = [coord EXCEPT !["worker"] = [quarantine' EXCEPT !.call = "sleep"]]
      <4>1. quarantine' = quarantine
        BY <2>2 DEF screenVars
      <4>2. /\ coord'["worker"].intent = quarantine.intent
            /\ coord'["screen"] = coord["screen"]
        BY <1>1, <3>3, <4>1
      <4>3. QED
        BY <1>1, <2>2, <3>1, <3>3, <4>1, <4>2 DEF ScreenInv, screenVars, Coordinators
    <3>4. QED
      BY <1>9, <3>2, <3>3 DEF LoopTop
  <2>3. QED
    BY <1>9, <2>1, <2>2 DEF LoopTop, Reconcile, Applies
<1>10. QED
  BY <1>2, <1>3, <1>4, <1>6, <1>7, <1>8, <1>9 DEF ScreenStep

\* What Screen does with an outcome keeps its invariant.
LEMMA Concluded ==
  ASSUME IInv, NEW outcome \in {"Commit", "Rollback", "Unknown"},
         at = "coordinating", Conclude(coord["screen"], outcome), at' = "top",
         coord' = [coord EXCEPT !["screen"] = Idle], UNCHANGED result
  PROVE  ScreenInv'
<1> USE Coordination DEF Quarantined
<1> DEFINE c == coord["screen"]
<1>1. /\ ScreenInv /\ coord \in [Coordinators -> Plans] /\ c \in Plans
      /\ "screen" \in Coordinators /\ "worker" \in Coordinators
  BY DEF IInv, TypeInv, CoordTypes, Coordinators
<1>2. /\ coord'["screen"] = Idle /\ coord'["worker"] = coord["worker"]
      /\ coord["worker"].intent = "none" /\ result = "none"
      /\ active /\ ~Quarantined /\ (c.prepared => tab = "prepared") /\ tab # "absent"
  BY <1>1 DEF ScreenInv
<1> HIDE DEF c
<1>3. CASE CommitTab \/ RollbackTab
  <2>1. /\ quarantine' = Idle /\ ~active' /\ ~gate' /\ tab' # "absent"
    BY <1>2, <1>3 DEF CommitTab, RollbackTab, DiscardedTab
  <2>2. QED
    BY <1>1, <1>2, <2>1 DEF ScreenInv, Coordinators
<1>4. CASE QuarantineTab(c)
  <2>1. quarantine'.intent = c.intent /\ quarantine'.prepared = c.prepared
    BY <1>1, <1>4 DEF QuarantineTab
  <2>2. UNCHANGED <<tab, active, decision>> /\ ~gate'
    BY <1>4 DEF QuarantineTab
  <2>3. QED
    BY <1>1, <1>2, <2>1, <2>2 DEF ScreenInv, Coordinators
<1>5. CASE DiscardTab
  BY <1>1, <1>2, <1>5 DEF DiscardTab, DiscardedTab, ScreenInv, Coordinators
<1>6. CASE UNCHANGED screenVars
  BY <1>1, <1>2, <1>6 DEF screenVars, ScreenInv, Coordinators
<1>7. QED
  BY <1>3, <1>4, <1>5, <1>6 DEF Conclude, ConcludeApply, ConcludePreparation, c

\* The steps of a coordinator keep it.
LEMMA ScreenCoordinates ==
  ASSUME IInv, NEW by \in Coordinators,
         (WorkerStarts /\ by = "worker") \/ TakeReply(by) \/ Timeout(by)
  PROVE  ScreenInv'
<1> USE Coordination DEF Quarantined
<1> DEFINE c == coord[by]
           ack == reply[by]
<1>1. /\ ScreenInv /\ coord \in [Coordinators -> Plans] /\ c \in Plans /\ c.intent # "none"
  <2>1. reply[by] # "none" \/ coord[by].call \in Calls \cup {"sleep"}
    BY DEF WorkerStarts, TakeReply, Timeout, Calls
  <2>2. QED
    BY <2>1, Answered DEF IInv, TypeInv, CoordTypes
<1>2. ASSUME NEW call, NEW attempt, NEW text, Send(by, c, call, attempt, text),
             UNCHANGED <<screenVars, at, result>>
      PROVE  ScreenInv'
  <2>1. coord' = [coord EXCEPT ![by] = [c EXCEPT !.call = call, !.attempt = attempt,
                                                !.text = text]]
    BY <1>2 DEF Send
  <2>2. /\ coord'[by].intent = c.intent /\ coord'[by].prepared = c.prepared
        /\ \A b \in Coordinators : b # by => coord'[b] = coord[b]
    BY <1>1, <2>1
  <2>3. QED
    BY <1>1, <1>2, <2>2, ScreenSame DEF ScreenInv
<1>3. ASSUME NEW outcome \in {"Commit", "Rollback", "Unknown"},
             coord' = [coord EXCEPT ![by] = Idle],
             IF by = "worker" THEN result' = outcome /\ UNCHANGED <<screenVars, at>>
                              ELSE Conclude(c, outcome) /\ at' = "top" /\ UNCHANGED result
      PROVE  ScreenInv'
  <2>1. CASE by = "worker"
    <3>1. /\ coord'["worker"] = Idle /\ coord'["screen"] = coord["screen"]
          /\ Quarantined
      BY <1>1, <1>3, <2>1 DEF ScreenInv, Coordinators
    <3>2. QED
      BY <1>1, <1>3, <2>1, <3>1 DEF ScreenInv, screenVars, Coordinators
  <2>2. CASE by = "screen"
    <3>1. at = "coordinating"
      BY <1>1, <2>2 DEF ScreenInv
    <3>2. QED
      BY <1>3, <2>2, <3>1, Concluded
  <2>3. QED
    BY <2>1, <2>2 DEF Coordinators
<1> HIDE DEF c, ack
<1>4. CASE WorkerStarts /\ by = "worker"
  BY <1>2, <1>4 DEF WorkerStarts, Begin, c
<1>5. CASE TakeReply(by)
  <2>1. ASSUME NEW call, NEW attempt, NEW text, Proceed(by, call, attempt, text)
        PROVE  ScreenInv'
    BY <1>2, <2>1 DEF Proceed, c
  <2>2. ASSUME Finish(by, Outcome(c, ack))
        PROVE  ScreenInv'
    <3>1. Outcome(c, ack) \in {"Commit", "Rollback", "Unknown"}
      BY DEF Outcome
    <3>2. QED
      BY <1>3, <2>2, <3>1 DEF Finish, c
  <2>3. QED
    BY <1>5, <2>1, <2>2 DEF TakeReply, c, ack
<1>6. CASE Timeout(by)
  <2>1. IF c.attempt < Attempts
          THEN /\ coord' = [coord EXCEPT ![by].attempt = c.attempt + 1]
               /\ UNCHANGED <<screenVars, at, result>>
          ELSE /\ coord' = [coord EXCEPT ![by] = Idle]
               /\ IF by = "worker"
                    THEN result' = "Unknown" /\ UNCHANGED <<screenVars, at>>
                    ELSE Conclude(c, "Unknown") /\ at' = "top" /\ UNCHANGED result
    BY <1>6 DEF Timeout, c
  <2>2. CASE c.attempt < Attempts
    <3>1. coord' = [coord EXCEPT ![by] = [c EXCEPT !.attempt = c.attempt + 1]]
      BY <2>1, <2>2 DEF c
    <3>2. [c EXCEPT !.attempt = c.attempt + 1].intent = c.intent
          /\ [c EXCEPT !.attempt = c.attempt + 1].prepared = c.prepared
      BY <1>1 DEF Plans
    <3>3. /\ coord'[by].intent = c.intent /\ coord'[by].prepared = c.prepared
          /\ \A b \in Coordinators : b # by => coord'[b] = coord[b]
      BY <1>1, <3>1, <3>2
    <3>4. QED
      BY <1>1, <2>1, <2>2, <3>3, ScreenSame DEF ScreenInv, c
  <2>3. CASE ~(c.attempt < Attempts)
    BY <1>3, <2>1, <2>3
  <2>4. QED
    BY <2>2, <2>3
<1>7. QED
  BY <1>4, <1>5, <1>6

-----------------------------------------------------------------------------
(* Until Screen has the report of the PTY thread. *)

Unprepared ==
  /\ Quiet /\ (\A by \in Coordinators : coord[by] = Idle) /\ tab # "absent"
  /\ toPlugin = <<>> /\ toPty = <<>> /\ ledger.outcome = NoOutcome
  /\ \A i \in DOMAIN toScreen : toScreen[i].is # "ApplyLayout"

\* A transaction that was not reserved or not prepared.
LEMMA NothingAsked == Unprepared => Later
<1> SUFFICES ASSUME Unprepared
             PROVE  Later
  OBVIOUS
<1> USE DEF Unprepared
<1>1. Idle.call = "none" /\ Idle.intent = "none" /\ "none" \notin Calls
  BY Coordination DEF Calls, Kinds, PtyCalls
<1>2. NoMoreReports
  BY DEF NoMoreReports
<1>3. CallInv
  BY <1>1 DEF CallInv, Waiting, Waits, Quiet
<1>4. /\ receipts["Activate"] = NoReceipt /\ ~HasReceipt("Activate") /\ ~HasReceipt("Release")
      /\ ~Asked("Activate") /\ ~Asked("Release")
  BY <1>1 DEF Quiet, HasReceipt, Asked, Kinds
<1>5. PluginInv
  BY <1>4 DEF PluginInv, NoReceipt
<1>6. PtyInv
  BY DEF PtyInv, NoOutcome, Committed
<1>7. ReplyInv
  BY <1>1 DEF ReplyInv
<1>8. QED
  BY <1>2, <1>3, <1>5, <1>6, <1>7 DEF Later, Quiet

\* The reports of a failed preparation.
LEMMA FailureReports ==
  ASSUME NEW clean \in BOOLEAN, NEW debt \in BOOLEAN, NEW paid \in BOOLEAN
  PROVE  /\ PreparationFailed(TRUE, clean).is = "PreparationFailed"
         /\ PreparationFailed(FALSE, clean).is = "PreparationFailed"
         /\ \A i \in DOMAIN Paid(debt, paid) : Paid(debt, paid)[i].is = "PreparationFailed"
BY DEF PreparationFailed, Paid

\* A message is added to those of another kind.
LEMMA KindKept ==
  ASSUME NEW S, NEW q \in Seq(S), NEW m, NEW kind, m.is # kind,
         \A i \in DOMAIN q : q[i].is # kind
  PROVE  \A i \in DOMAIN Append(q, m) : Append(q, m)[i].is # kind
<1>1. ASSUME NEW i \in DOMAIN Append(q, m)
      PROVE  Append(q, m)[i].is # kind
  <2>1. CASE i \in DOMAIN q
    BY <2>1
  <2>2. CASE i \notin DOMAIN q
    <3>1. Append(q, m)[i] = m
      BY <1>1, <2>2
    <3>2. QED
      BY <3>1
  <2>3. QED
    BY <2>1, <2>2
<1>2. QED
  BY <1>1

\* So are several.
LEMMA KindsKept ==
  ASSUME NEW S, NEW q \in Seq(S), NEW r \in Seq(S), NEW kind,
         \A i \in DOMAIN q : q[i].is # kind,
         \A i \in DOMAIN r : r[i].is # kind
  PROVE  \A i \in DOMAIN (q \o r) : (q \o r)[i].is # kind
<1>1. ASSUME NEW i \in DOMAIN (q \o r)
      PROVE  (q \o r)[i].is # kind
  <2>1. CASE i \in DOMAIN q
    <3>1. (q \o r)[i] = q[i]
      BY <2>1
    <3>2. QED
      BY <2>1, <3>1
  <2>2. CASE i \notin DOMAIN q
    <3>1. i - Len(q) \in DOMAIN r /\ (q \o r)[i] = r[i - Len(q)]
      BY <1>1, <2>2
    <3>2. QED
      BY <3>1
  <2>3. QED
    BY <2>1, <2>2
<1>2. QED
  BY <1>1

\* A debt that is paid is reported.
LEMMA PaidType ==
  ASSUME NEW debt \in BOOLEAN, NEW paid \in BOOLEAN
  PROVE  Paid(debt, paid) \in Seq(Reports)
<1>1. <<>> \in Seq(Reports)
  OBVIOUS
<1>2. <<PreparationFailed(TRUE, TRUE)>> \in Seq(Reports)
  BY <1>1, ConstantTypes, Longer, Zenon
<1>3. QED
  BY <1>1, <1>2 DEF Paid

\* The step in which Screen takes the prepared layout.
LEMMA FirstCoordination ==
  ASSUME IInv, Early, HandleApplyLayout
  PROVE  Later'
<1> USE Coordination
<1>1. /\ toPlugin = <<>> /\ toPty = <<>> /\ toScreen = <<ApplyLayout>> /\ Quiet /\ Opened
      /\ ledger.at = "pending" /\ ledger.outcome = NoOutcome
  <2>1. toScreen # <<>>
    BY DEF HandleApplyLayout, Receives
  <2>2. QED
    BY <2>1 DEF Early, Entry
<1>2. PICK plan \in ApplyPlans : Begin("screen", plan)
  BY DEF HandleApplyLayout
<1>3. plan \in Plans /\ plan.intent \in {"Activate", "Reject"}
  BY OwnPlans DEF ApplyPlans, Plan
<1> DEFINE call == FirstCall(plan)
           p == [plan EXCEPT !.call = call, !.attempt = 1, !.text = plan.text]
           request == [is |-> call, text |-> plan.text, by |-> "screen"]
<1>4. /\ call = IF plan.intent = "Activate" THEN "Activate" ELSE "Release"
      /\ call \notin PtyCalls /\ call # "NewTab" /\ call # "none" /\ call \in Calls
  BY DEF FirstCall, PtyCalls, Calls, Kinds
<1>5. p.call = call /\ p.intent = plan.intent
  BY <1>3
<1>6. request.is = call /\ request.by = "screen"
  OBVIOUS
<1>7. /\ coord' = [coord EXCEPT !["screen"] = p]
      /\ toPlugin' = Append(toPlugin, request) /\ UNCHANGED toPty
  BY <1>2, <1>4 DEF Begin, Send
<1> HIDE DEF call, p, request
<1>8. toPlugin' = <<request>>
  BY <1>1, <1>7
<1>9. /\ coord'["screen"] = p /\ coord'["worker"].call = "none"
      /\ coord \in [Coordinators -> Plans]
  BY <1>1, <1>7 DEF Quiet, IInv, ScreenInv, TypeInv, CoordTypes, Coordinators
<1>10. /\ toScreen' = <<>>
       /\ UNCHANGED <<pluginVars, ptyVars, active, gate, quarantine, decision, reply, result>>
       /\ tab' # "absent"
  BY <1>1 DEF HandleApplyLayout, Receives, Opened
<1>11. NoMoreReports'
  BY <1>1, <1>4, <1>6, <1>7, <1>8, <1>10 DEF NoMoreReports
<1>12. CallInv'
  BY <1>1, <1>4, <1>5, <1>6, <1>7, <1>8, <1>9, <1>10
  DEF CallInv, Waiting, Waits, Quiet, Coordinators, Activated, Calls, Kinds, PtyCalls
<1>13. /\ receipts' = receipts /\ receipts["Activate"] = NoReceipt
       /\ ~HasReceipt("Activate")' /\ ~HasReceipt("Release")' /\ ~Activated'
  BY <1>1, <1>10 DEF Quiet, pluginVars, HasReceipt, Activated, Kinds, NoReceipt
<1>14. Activating' <=> plan.intent = "Activate"
  BY <1>1, <1>5, <1>9, <1>10 DEF Activating, Quiet, Quarantined
<1>15. Asked("Activate")' <=> call = "Activate"
  BY <1>4, <1>5, <1>6, <1>8, <1>9 DEF Asked, Coordinators
<1>16. Asked("Release")' <=> call = "Release"
  BY <1>4, <1>5, <1>6, <1>8, <1>9 DEF Asked, Coordinators
<1>17. PluginInv'
  BY <1>4, <1>13, <1>14, <1>15, <1>16 DEF PluginInv, NeverAsked, NoReceipt
<1>18. PtyInv'
  BY <1>1, <1>10 DEF PtyInv, ptyVars, NoOutcome, Committed
<1>19. ReplyInv'
  BY <1>1, <1>10 DEF ReplyInv, Quiet, PluginErrors
<1>20. QED
  BY <1>1, <1>10, <1>11, <1>12, <1>17, <1>18, <1>19 DEF Later, Quiet

\* NothingAsked, of the state after a step.
LEMMA LaterBegins == Unprepared' => Later'
BY NothingAsked, PTL

\* PTY's report of its preparation.
LEMMA EarlyPrepares ==
  ASSUME IInv, Early, PtyPrepares
  PROVE  Early' \/ Later'
<1>0. /\ Quiet /\ ScreenInv /\ (\A by \in Coordinators : coord[by] = Idle)
      /\ ledger.outcome = NoOutcome
  BY DEF Early, IInv, ScreenInv, Quiet, Coordinators, NoEntry, Entry
<1>1. toPlugin = <<>> /\ toPty = <<NewTab>> /\ toScreen = <<>> /\ Opened /\ ledger = NoEntry
  BY DEF PtyPrepares, Early
<1>2. UNCHANGED <<receipts, tab, active, quarantine, decision, coord, reply, result, toPlugin>>
      /\ toPty' = <<>>
  BY <1>1 DEF PtyPrepares, pluginVars, screenVars, coordVars
<1>3. CASE BeginCommit /\ toScreen' = Append(toScreen, ApplyLayout)
  <2>1. toScreen' = <<ApplyLayout>> /\ ledger' = Entry("pending", NoOutcome, "none")
    BY <1>1, <1>3 DEF BeginCommit
  <2>2. QED
    BY <1>0, <1>1, <1>2, <2>1 DEF Early, Quiet, Quarantined, Opened
<1>4. ASSUME NEW debt \in BOOLEAN, NEW paid \in BOOLEAN, NEW fails, PreparationFails(fails, paid),
             toScreen' = Append(toScreen, PreparationFailed(TRUE, ~debt)) \o Paid(debt, paid)
      PROVE  Later'
  <2>1. /\ Append(toScreen, PreparationFailed(TRUE, ~debt)) \in Seq(Reports)
        /\ Paid(debt, paid) \in Seq(Reports)
    <3>1. PreparationFailed(TRUE, ~debt) \in Reports /\ toScreen \in Seq(Reports)
      BY ConstantTypes DEF IInv, TypeInv, ReportTypes
    <3>2. QED
      BY <3>1, PaidType, Longer, Zenon
  <2>2. \A i \in DOMAIN toScreen : toScreen[i].is # "ApplyLayout"
    BY <1>1
  <2>3. PreparationFailed(TRUE, ~debt).is # "ApplyLayout"
    BY FailureReports
  <2>4. \A i \in DOMAIN Paid(debt, paid) : Paid(debt, paid)[i].is # "ApplyLayout"
    BY FailureReports
  <2> DEFINE reported == Append(toScreen, PreparationFailed(TRUE, ~debt))
  <2>5. \A i \in DOMAIN reported : reported[i].is # "ApplyLayout"
    <3>1. toScreen \in Seq(Reports)
      BY DEF IInv, TypeInv, ReportTypes
    <3> DEFINE m == PreparationFailed(TRUE, ~debt)
    <3>2. m.is # "ApplyLayout" /\ reported = Append(toScreen, m)
      BY <2>3
    <3> HIDE DEF m, reported
    <3>3. QED
      BY <2>2, <3>1, <3>2, KindKept
  <2> HIDE DEF reported
  <2>6. \A i \in DOMAIN toScreen' : toScreen'[i].is # "ApplyLayout"
    <3>1. toScreen' = reported \o Paid(debt, paid)
      BY <1>4 DEF reported
    <3>2. reported \in Seq(Reports)
      BY <2>1 DEF reported
    <3>3. QED
      BY <2>1, <2>4, <2>5, <3>1, <3>2, KindsKept
  <2>7. ledger'.outcome = NoOutcome
    BY <1>0, <1>4 DEF PreparationFails, Entry, ptyVars
  <2>8. Quiet' /\ tab' # "absent"
    BY <1>0, <1>1, <1>2 DEF Quiet, Quarantined, Opened
  <2>9. QED
    BY <1>0, <1>1, <1>2, <2>6, <2>7, <2>8, LaterBegins DEF Unprepared
<1>5. ASSUME NEW fails \in SUBSET (Faults \cap PtyFaults), NEW paid \in BOOLEAN,
             PreparationFails(fails, paid),
             toScreen' = Append(toScreen, PreparationFailed(TRUE, ~("close" \in fails)))
                           \o Paid("close" \in fails, paid)
      PROVE  Later'
  <2>1. ("close" \in fails) \in BOOLEAN
    OBVIOUS
  <2>2. QED
    BY <1>4, <1>5, <2>1, Zenon
<1>6. QED
  BY <1>3, <1>5 DEF PtyPrepares

\* Until then every step hands the one message on or ends the wait.
LEMMA EarlyStep ==
  ASSUME IInv, Early, [Next]_vars
  PROVE  Early' \/ Later'
<1> USE Coordination
<1>1. /\ Quiet /\ ScreenInv /\ \A by \in Coordinators : coord[by] = Idle
      /\ "screen" \in Coordinators /\ "worker" \in Coordinators
      /\ result = "none" /\ ~Quarantined
      /\ ledger.at \in {"absent", "pending"} /\ ledger.outcome = NoOutcome
  BY DEF Early, IInv, ScreenInv, Quiet, Coordinators, NoEntry, Entry
<1>2. ASSUME UNCHANGED vars
      PROVE  Early'
  <2>1. UNCHANGED <<receipts, ledger, tab, active, quarantine, decision, coord, reply, result,
                    toPlugin, toPty, toScreen>>
    BY <1>2 DEF vars, pluginVars, ptyVars, screenVars, coordVars
  <2>2. QED
    BY <2>1 DEF Early, Quiet, Quarantined, Opened
<1>3. CASE OpenTab
  <2>1. tab = "absent" /\ toPlugin = <<>> /\ toPlugin' = Append(toPlugin, NewTab)
    BY <1>3 DEF OpenTab, Early, Opened
  <2>2. toPlugin' = <<NewTab>>
    BY <2>1
  <2>3. QED
    BY <1>1, <1>3, <2>1, <2>2
    DEF OpenTab, Early, Opened, Quiet, Quarantined, pluginVars, ptyVars, coordVars
<1>4. CASE CloseTab
  <2>1. tab = "pending" /\ tab' = "closed"
        /\ UNCHANGED <<receipts, ledger, active, quarantine, decision, coord, reply, result,
                       toPlugin, toPty, toScreen>>
    BY <1>4 DEF CloseTab, Closable, Early, Opened, pluginVars, ptyVars, coordVars
  <2>2. QED
    BY <2>1 DEF Early, Quiet, Quarantined, Opened
<1>5. CASE IgnoreMessage \/ HandleMismatch \/ HandlePreparationFailed
  <2>1. toScreen = <<ApplyLayout>> /\ active
    BY <1>5 DEF IgnoreMessage, HandleMismatch, HandlePreparationFailed, Receives, Early, Opened
  <2>2. Message = ApplyLayout /\ ApplyLayout.is = "ApplyLayout"
    BY <2>1 DEF Message, ApplyLayout
  <2>3. QED
    BY <1>1, <1>5, <2>1, <2>2 DEF IgnoreMessage, HandleMismatch, HandlePreparationFailed, Receives
<1>6. CASE HandleApplyLayout
  BY <1>6, FirstCoordination
<1>7. CASE LoopTop
  <2>1. UNCHANGED screenVars /\ result' = "none"
    BY <1>1, <1>7 DEF LoopTop, Reconcile, Applies
  <2>2. quarantine'.intent = "none"
    BY <1>1, <2>1 DEF screenVars, Quarantined
  <2>3. coord' = coord
    BY <1>7, <2>2 DEF LoopTop
  <2>4. UNCHANGED <<receipts, ledger, tab, active, quarantine, decision, coord, reply, result,
                    toPlugin, toPty, toScreen>>
    BY <1>1, <1>7, <2>1, <2>3 DEF LoopTop, screenVars, pluginVars, ptyVars
  <2>5. QED
    BY <2>4 DEF Early, Quiet, Quarantined, Opened
<1>8. CASE Wake
  BY <1>1, <1>8 DEF Wake
<1>9. ASSUME NEW by \in Coordinators,
             (WorkerStarts /\ by = "worker") \/ TakeReply(by) \/ Timeout(by)
      PROVE  FALSE
  <2>1. coord[by].call = "none" /\ reply[by] = "none"
    BY <1>1 DEF Quiet
  <2>2. QED
    BY <1>9, <2>1 DEF WorkerStarts, TakeReply, Timeout, Kinds, PtyCalls
<1>10. CASE PluginReserves
  <2>1. toPlugin = <<NewTab>> /\ toPty = <<>> /\ toScreen = <<>> /\ Opened /\ ledger = NoEntry
    BY <1>10 DEF PluginReserves, Early
  <2>2. UNCHANGED <<ledger, tab, active, quarantine, decision, coord, reply, result>>
        /\ toPlugin' = <<>>
    BY <1>10, <2>1 DEF PluginReserves, ptyVars, screenVars, coordVars
  <2>3. CASE Reserve /\ toPty' = Append(toPty, NewTab) /\ UNCHANGED toScreen
    <3>1. toPty' = <<NewTab>> /\ receipts' = receipts
      BY <2>1, <2>3 DEF Reserve
    <3>2. QED
      BY <2>1, <2>2, <2>3, <3>1, <1>1 DEF Early, Quiet, Quarantined, Opened
  <2>4. CASE /\ toScreen' = Append(toScreen, PreparationFailed(FALSE, TRUE))
             /\ UNCHANGED <<pluginVars, toPty>>
    <3>1. toScreen' = <<PreparationFailed(FALSE, TRUE)>>
      BY <2>1, <2>4
    <3>2. \A i \in DOMAIN toScreen' : toScreen'[i].is # "ApplyLayout"
      <4> DEFINE m == PreparationFailed(FALSE, TRUE)
      <4>1. toScreen' = <<m>> /\ m.is # "ApplyLayout"
        BY <3>1, FailureReports
      <4> HIDE DEF m
      <4>2. QED
        BY <4>1
    <3>3. Quiet'
      BY <1>1, <2>2, <2>4 DEF Quiet, Quarantined, pluginVars
    <3>4. tab' # "absent"
      BY <2>1, <2>2 DEF Opened
    <3>5. QED
      BY <1>1, <2>1, <2>2, <2>4, <3>2, <3>3, <3>4, LaterBegins DEF Unprepared
  <2>5. QED
    BY <1>10, <2>3, <2>4 DEF PluginReserves
<1>11. CASE PluginResolves
  BY <1>11 DEF PluginResolves, Early
<1>12. CASE PluginLoaderFails
  BY <1>1, <1>12 DEF PluginLoaderFails, LoaderFails, Quiet, NoReceipt, Kinds
<1>13. CASE PtyPrepares
  BY <1>13, EarlyPrepares
<1>14. CASE PtyResolves
  BY <1>14 DEF PtyResolves, Early
<1>15. CASE PtyServesOthers
  BY <1>1, <1>15 DEF PtyServesOthers
<1>16. QED
  BY <1>1, <1>2, <1>3, <1>4, <1>5, <1>6, <1>7, <1>8, <1>9, <1>10, <1>11, <1>12, <1>13, <1>14, <1>15
  DEF Next, ScreenStep, PluginStep, PtyStep, Settled

-----------------------------------------------------------------------------
(* Requests and who waits for them. *)

\* A request is taken from its channel.
LEMMA WaitsTail ==
  ASSUME NEW S, NEW q \in Seq(S), q # <<>>, NEW by, NEW ack, NEW call, Waits(q, by, ack, call)
  PROVE  /\ Waits(Tail(q), by, ack, call)
         /\ Head(q).by = by => ack = "none" /\ Head(q).is = call
         /\ Head(q).by = by => \A a, c : Waits(Tail(q), by, a, c)
<1>1. DOMAIN q = 1 .. Len(q) /\ Len(q) \in Nat \ {0} /\ Head(q) = q[1]
  OBVIOUS
<1>2. DOMAIN Tail(q) = 1 .. Len(q) - 1 /\ \A i \in DOMAIN Tail(q) : Tail(q)[i] = q[i + 1]
  OBVIOUS
<1>3. \A i \in DOMAIN Tail(q) : i + 1 \in DOMAIN q /\ i + 1 # 1
  BY <1>1, <1>2
<1>4. Waits(Tail(q), by, ack, call)
  <2>1. \A i, j \in DOMAIN Tail(q) : i + 1 = j + 1 => i = j
    BY <1>1, <1>2
  <2>2. QED
    BY <1>2, <1>3, <2>1 DEF Waits
<1>5. 1 \in DOMAIN q
  BY <1>1
<1>6. ASSUME Head(q).by = by
      PROVE  \A i \in DOMAIN Tail(q) : Tail(q)[i].by # by
  BY <1>1, <1>2, <1>3, <1>5, <1>6 DEF Waits
<1>7. QED
  BY <1>1, <1>4, <1>5, <1>6 DEF Waits

\* A request is added to a channel, of another coordinator or the first of this one.
LEMMA WaitsAppend ==
  ASSUME NEW S, NEW q \in Seq(S), NEW m, NEW by, NEW ack, NEW call,
         \/ Waits(q, by, ack, call) /\ m.by # by
         \/ (\A i \in DOMAIN q : q[i].by # by) /\ (m.by = by => m.is = call /\ ack = "none")
  PROVE  Waits(Append(q, m), by, ack, call)
<1> DEFINE r == Append(q, m)
<1>1. /\ DOMAIN r = 1 .. Len(q) + 1 /\ DOMAIN q = 1 .. Len(q) /\ Len(q) \in Nat
      /\ r[Len(q) + 1] = m /\ \A i \in DOMAIN q : r[i] = q[i]
  OBVIOUS
<1>2. \A i \in DOMAIN r : i \in DOMAIN q \/ i = Len(q) + 1
  BY <1>1
<1> HIDE DEF r
<1>3. CASE Waits(q, by, ack, call) /\ m.by # by
  BY <1>1, <1>2, <1>3 DEF Waits
<1>4. CASE (\A i \in DOMAIN q : q[i].by # by) /\ (m.by = by => m.is = call /\ ack = "none")
  BY <1>1, <1>2, <1>4 DEF Waits
<1>5. QED
  BY <1>3, <1>4 DEF r

\* A coordinator's requests are orphaned, the other's are not.
LEMMA WaitsOrphan ==
  ASSUME NEW calls, NEW q \in Seq(Requests(calls)), NEW by \in Coordinators, NEW b \in Coordinators,
         NEW ack, NEW call
  PROVE  /\ \A i \in DOMAIN Orphan(q, by) : Orphan(q, by)[i].by # by
         /\ b # by /\ Waits(q, b, ack, call) => Waits(Orphan(q, by), b, ack, call)
<1>1. by # "nobody" /\ b # "nobody"
  BY DEF Coordinators
<1>2. /\ DOMAIN Orphan(q, by) = DOMAIN q
      /\ \A i \in DOMAIN q : /\ Orphan(q, by)[i].is = q[i].is
                             /\ Orphan(q, by)[i].by = IF q[i].by = by THEN "nobody" ELSE q[i].by
  BY Orphaned
<1> DEFINE r == Orphan(q, by)
<1> HIDE DEF r
<1>3. QED
  BY <1>1, <1>2 DEF Waits

-----------------------------------------------------------------------------
(* The Plugin thread, afterwards. *)

\* What a resolution, or the failure of a loader, does to the plugins.
PluginsKept(kind, ack) ==
  /\ receipts'["Activate"].ids = "panes"
  /\ receipts'["Activate"] # NoReceipt => reservation' # "Reserved"
  /\ HasReceipt("Activate") \/ kind # "Activate" => receipts'["Activate"] = receipts["Activate"]
  /\ kind # "Release" => receipts'["Release"] = receipts["Release"]
  /\ ~Activated /\ reservation # "Reserved" =>
       receipts'["Activate"].as # "Activated" /\ reservation' # "Reserved"
  /\ kind = "Activate" /\ ack = "Activated" => receipts'["Activate"].as = "Activated"
  /\ kind = "Activate" /\ ack \in PluginErrors =>
       receipts'["Activate"].as # "Activated" /\ reservation' # "Reserved"

\* The first of the kinds that is recorded stays, and who asks is told.
LEMMA PluginKeeps ==
  ASSUME PluginTypeOK, PluginInv, NEW fails, NEW kind \in Kinds, NEW ack \in PluginAcks,
         ResolvePlugins(kind, fails, ack) \/ (LoaderFails(fails) /\ kind = "Compensate")
  PROVE  PluginsKept(kind, ack)
<1>1. /\ receipts["Activate"].ids = "panes"
      /\ receipts["Activate"] # NoReceipt => reservation # "Reserved"
      /\ kind \in Received <=> receipts[kind] # NoReceipt
      /\ "Activate" \in Kinds /\ "Release" \in Kinds /\ "Compensate" \in Kinds
  BY DEF PluginInv, HasReceipt, Received, Kinds
<1>2. receipts \in [Kinds -> [as : {"none"} \cup (PluginAcks \ PluginErrors),
                            ids : {"panes", "runtimes"}]]
  BY DEF PluginTypeOK
<1>3. receipts["Activate"].as \notin PluginErrors
  BY <1>1, <1>2 DEF PluginErrors
<1>4. receipts["Activate"] = NoReceipt <=> receipts["Activate"].as = "none"
  <2>1. CASE receipts["Activate"].as = "none"
    BY <1>1, <1>2, <2>1 DEF NoReceipt
  <2>2. CASE receipts["Activate"].as # "none"
    BY <2>2 DEF NoReceipt
  <2>3. QED
    BY <2>1, <2>2
<1>5. CASE UNCHANGED pluginVars /\ kind # "Activate"
  BY <1>1, <1>5 DEF PluginsKept, pluginVars, Activated
<1>6. CASE Replay(kind, ack) /\ kind = "Activate"
  <2>1. ack = receipts["Activate"].as /\ reservation # "Reserved"
    BY <1>1, <1>6 DEF Replay, ExpectedIds
  <2>2. QED
    BY <1>1, <1>3, <1>6, <2>1 DEF Replay, PluginsKept, pluginVars, Activated
<1>7. CASE (RefuseUnreserved(kind, ack) \/ RefuseState(kind, ack)) /\ kind = "Activate"
  <2>1. reservation # "Reserved" /\ receipts["Activate"].as = "none" /\ UNCHANGED pluginVars
        /\ ack # "Activated"
    BY <1>1, <1>4, <1>7 DEF RefuseUnreserved, RefuseState, ResolvableFrom
  <2>2. QED
    BY <1>1, <1>7, <2>1 DEF PluginsKept, pluginVars, Activated
<1>8. ASSUME NEW as, NEW ids, Record(kind, as, ids), kind # "Activate",
             reservation' = "absent"
      PROVE  PluginsKept(kind, ack)
  <2>1. receipts'["Activate"] = receipts["Activate"]
        /\ (kind # "Release" => receipts'["Release"] = receipts["Release"])
    BY <1>1, <1>2, <1>8 DEF Record
  <2>2. QED
    BY <1>1, <1>8, <2>1 DEF PluginsKept, Activated
<1>9. CASE CompensateEmpty(kind, ack)
  BY <1>8, <1>9 DEF CompensateEmpty
<1>10. CASE kind = "Activate" /\ kind \notin Received /\ reservation = "Reserved"
            /\ Activate(fails, ack)
  <2>1. /\ receipts'["Activate"] = [as |-> "Activated", ids |-> "panes"]
        /\ receipts'["Release"] = receipts["Release"]
    BY <1>1, <1>2, <1>10 DEF Activate, Record
  <2>2. ack = "Activated" /\ reservation' # "Reserved"
    BY <1>10 DEF Activate
  <2>3. QED
    BY <1>1, <1>10, <2>1, <2>2 DEF PluginsKept, HasReceipt, PluginErrors
<1>11. CASE kind = "Activate" /\ kind \notin Received /\ reservation = "Reserved"
            /\ ActivateRollsBack(fails, ack)
  <2>1. CASE CleansUp(fails)
    <3>1. /\ receipts'["Activate"] = [as |-> "ActivationRolledBack", ids |-> "panes"]
          /\ receipts'["Release"] = receipts["Release"]
          /\ ack = "ActivationRolledBack" /\ reservation' # "Reserved"
      BY <1>1, <1>2, <1>11, <2>1 DEF ActivateRollsBack, Record
    <3>2. QED
      BY <1>1, <1>11, <3>1 DEF PluginsKept, HasReceipt, PluginErrors
  <2>2. CASE ~CleansUp(fails)
    <3>1. receipts' = receipts /\ ack = "Unclean" /\ reservation' # "Reserved"
      BY <1>11, <2>2 DEF ActivateRollsBack
    <3>2. QED
      BY <1>1, <1>4, <1>11, <3>1 DEF PluginsKept
  <2>3. QED
    BY <2>1, <2>2
<1>12. CASE kind = "Release" /\ Release(fails, ack)
  <2>1. CASE CleansUp(fails)
    BY <1>8, <1>12, <2>1 DEF Release
  <2>2. CASE ~CleansUp(fails)
    BY <1>5, <1>12, <2>2 DEF Release
  <2>3. QED
    BY <2>1, <2>2
<1>13. CASE kind = "Compensate" /\ Compensate(fails, ack)
  <2>1. CASE CleansUp(fails)
    BY <1>8, <1>13, <2>1 DEF Compensate
  <2>2. CASE ~CleansUp(fails)
    BY <1>1, <1>13, <2>2 DEF Compensate, PluginsKept, Activated
  <2>3. QED
    BY <2>1, <2>2
<1>14. CASE LoaderFails(fails) /\ kind = "Compensate"
  <2>1. CASE CleansUp(fails)
    BY <1>8, <1>14, <2>1 DEF LoaderFails
  <2>2. CASE ~CleansUp(fails)
    BY <1>1, <1>14, <2>2 DEF LoaderFails, PluginsKept, Activated
  <2>3. QED
    BY <2>1, <2>2
<1>15. QED
  BY <1>1, <1>5, <1>6, <1>7, <1>9, <1>10, <1>11, <1>12, <1>13, <1>14
  DEF ResolvePlugins, Replay, RefuseUnreserved, RefuseState, ResolvableFrom

\* What the channels of Plugin and PTY carry.
LEMMA ChannelKinds ==
  ASSUME TypeInv
  PROVE  /\ \A i \in DOMAIN toPlugin : toPlugin[i].is \in Kinds \cup {"NewTab"}
         /\ \A i \in DOMAIN toPty : toPty[i].is \in PtyCalls \cup {"NewTab"}
         /\ Kinds \cap (PtyCalls \cup {"NewTab"}) = {} /\ "NewTab" \notin PtyCalls
         /\ toPlugin # <<>> =>
              /\ 1 \in DOMAIN toPlugin /\ Head(toPlugin) = toPlugin[1]
              /\ Head(toPlugin).is \in Kinds \cup {"NewTab"}
              /\ \A i \in DOMAIN Tail(toPlugin) :
                   i + 1 \in DOMAIN toPlugin /\ Tail(toPlugin)[i] = toPlugin[i + 1]
         /\ toPty # <<>> =>
              /\ 1 \in DOMAIN toPty /\ Head(toPty) = toPty[1]
              /\ Head(toPty).is \in PtyCalls \cup {"NewTab"}
              /\ \A i \in DOMAIN Tail(toPty) :
                   i + 1 \in DOMAIN toPty /\ Tail(toPty)[i] = toPty[i + 1]
         /\ toScreen # <<>> =>
              /\ 1 \in DOMAIN toScreen /\ Head(toScreen) = toScreen[1]
              /\ \A i \in DOMAIN Tail(toScreen) :
                   i + 1 \in DOMAIN toScreen /\ Tail(toScreen)[i] = toScreen[i + 1]
<1>1. /\ toPlugin \in Seq(PluginRequests) /\ toPty \in Seq(PtyRequests)
      /\ toScreen \in Seq(Reports)
  BY DEF TypeInv, RequestTypes, ReportTypes
<1>2. \A i \in DOMAIN toPlugin : toPlugin[i].is \in Kinds \cup {"NewTab"}
  <2> TAKE i \in DOMAIN toPlugin
  <2>1. toPlugin[i] \in PluginRequests
    BY <1>1
  <2>2. QED
    BY <2>1 DEF PluginRequests, Requests
<1>3. \A i \in DOMAIN toPty : toPty[i].is \in PtyCalls \cup {"NewTab"}
  <2> TAKE i \in DOMAIN toPty
  <2>1. toPty[i] \in PtyRequests
    BY <1>1
  <2>2. QED
    BY <2>1 DEF PtyRequests, Requests
<1>4. Kinds \cap (PtyCalls \cup {"NewTab"}) = {} /\ "NewTab" \notin PtyCalls
  BY DEF Kinds, PtyCalls
<1>5. ASSUME NEW S, NEW q \in Seq(S), q # <<>>
      PROVE  /\ 1 \in DOMAIN q /\ Head(q) = q[1]
             /\ \A i \in DOMAIN Tail(q) : i + 1 \in DOMAIN q /\ Tail(q)[i] = q[i + 1]
  BY <1>5
<1>6. QED
  BY <1>1, <1>2, <1>3, <1>4, <1>5

\* What was asked for stays so, or is done.
LEMMA PluginInvKept ==
  ASSUME PluginInv, NEW kind, NEW ack, PluginsKept(kind, ack),
         Asked("Activate")' => Asked("Activate"), Asked("Release")' => Asked("Release"),
         kind \in {"Activate", "Release"} => Asked(kind),
         UNCHANGED <<coord, quarantine, active>>
  PROVE  PluginInv'
<1>1. Activating' <=> Activating
  BY DEF Activating
<1>2. HasReceipt("Activate")' => HasReceipt("Activate") \/ Asked("Activate")
  BY DEF HasReceipt, PluginsKept
<1>3. Asked("Release")' \/ HasReceipt("Release")' => Asked("Release") \/ HasReceipt("Release")
  BY DEF HasReceipt, PluginsKept
<1>4. Cannot => Cannot'
  BY DEF Cannot, PluginsKept, Activated
<1>5. ASSUME NeverAsked
      PROVE  NeverAsked'
  <2>1. kind # "Activate"
    BY <1>5 DEF NeverAsked
  <2>2. receipts'["Activate"] = receipts["Activate"]
    BY <2>1 DEF PluginsKept
  <2>3. QED
    BY <1>1, <1>5, <2>2 DEF NeverAsked, Activated
<1>6. receipts'["Activate"].ids = "panes" /\ (HasReceipt("Activate")' => reservation' # "Reserved")
  BY DEF PluginsKept, HasReceipt
<1>7. QED
  BY <1>1, <1>2, <1>3, <1>4, <1>5, <1>6 DEF PluginInv

\* The Plugin thread keeps what Screen relies on.
LEMMA LaterPlugin ==
  ASSUME IInv, Later, PluginReserves \/ PluginResolves \/ PluginLoaderFails
  PROVE  Later'
<1>1. /\ TypeInv /\ PluginTypeOK /\ PluginInv /\ NoMoreReports /\ CallInv /\ PtyInv /\ ReplyInv
      /\ toPlugin \in Seq(PluginRequests) /\ tab # "absent"
      /\ reply \in [Coordinators -> {"none"} \cup PluginAcks \cup PtyAcks]
  BY DEF IInv, Later, TypeInv, RequestTypes, CoordTypes
<1>2. ASSUME PluginReserves
      PROVE  FALSE
  <2>1. toPlugin # <<>> /\ Head(toPlugin).is = "NewTab"
    BY <1>2 DEF PluginReserves, NewTab
  <2>2. QED
    BY <1>1, <2>1, ChannelKinds DEF NoMoreReports
<1>3. UNCHANGED <<ptyVars, screenVars, coord, result, toPty, toScreen>>
  BY <1>2 DEF PluginResolves, PluginLoaderFails, coordVars
<1>4. PtyInv' /\ (PtyCommitted => PtyCommitted') /\ tab' # "absent"
  BY <1>1, <1>3 DEF PtyInv, PtyCommitted, ptyVars, screenVars
<1>5. ASSUME NEW kind, NEW ack, PluginsKept(kind, ack)
      PROVE  /\ Activated => Activated'
             /\ Cannot => Cannot'
             /\ kind # "Release" /\ Whole => Whole'
  <2>1. Activated => HasReceipt("Activate")
    BY DEF Activated, HasReceipt, NoReceipt
  <2>2. Activated => Activated'
    BY <1>5, <2>1 DEF PluginsKept, Activated
  <2>3. Cannot => Cannot'
    BY <1>5 DEF PluginsKept, Activated, Cannot
  <2>4. kind # "Release" /\ Whole => Whole'
    BY <1>4, <1>5, <2>2 DEF PluginsKept, HasReceipt, Whole
  <2>5. QED
    BY <2>2, <2>3, <2>4
<1>6. result' = result /\ decision' = decision /\ quarantine' = quarantine /\ active' = active
  BY <1>3 DEF screenVars
<1>7. CASE PluginLoaderFails
  <2>1. PICK fails : LoaderFails(fails)
    BY <1>7 DEF PluginLoaderFails
  <2>2. UNCHANGED <<reply, toPlugin>>
    BY <1>7 DEF PluginLoaderFails, coordVars
  <2>3. PluginsKept("Compensate", "Compensated")
    BY <1>1, <2>1, PluginKeeps DEF Kinds, PluginAcks
  <2>4. NoMoreReports'
    BY <1>1, <1>3, <2>2 DEF NoMoreReports
  <2>5. CallInv'
    BY <1>1, <1>3, <1>5, <2>2, <2>3 DEF CallInv, Waiting
  <2>6. PluginInv'
    BY <1>1, <1>3, <1>6, <2>2, <2>3, PluginInvKept DEF Asked
  <2>7. ReplyInv'
    BY <1>1, <1>3, <1>4, <1>5, <2>2, <2>3 DEF ReplyInv
  <2>8. QED
    BY <1>4, <1>5, <1>6, <2>3, <2>4, <2>5, <2>6, <2>7 DEF Later
<1>8. CASE PluginResolves
  <2> DEFINE kind == Head(toPlugin).is
             by == Head(toPlugin).by
  <2>1. PICK fails \in SUBSET (Faults \cap PluginFaults), ack \in PluginAcks :
          /\ ResolvePlugins(kind, fails, ack)
          /\ Answer(by, ack)
    BY <1>8 DEF PluginResolves
  <2>2. /\ toPlugin # <<>> /\ toPlugin' = Tail(toPlugin)
        /\ 1 \in DOMAIN toPlugin /\ Head(toPlugin) = toPlugin[1]
        /\ \A i \in DOMAIN toPlugin' :
             i + 1 \in DOMAIN toPlugin /\ toPlugin'[i] = toPlugin[i + 1]
    BY <1>1, <1>8, ChannelKinds DEF PluginResolves
  <2>3. kind \in Kinds
    BY <1>1, <2>2, ChannelKinds DEF NoMoreReports
  <2> HIDE DEF kind, by
  <2>4. PluginsKept(kind, ack)
    BY <1>1, <2>1, <2>3, PluginKeeps
  <2>5. NoMoreReports'
    BY <1>1, <1>3, <2>2 DEF NoMoreReports
  <2>6. ASSUME NEW call
        PROVE  Asked(call)' => Asked(call)
    BY <1>3, <2>2 DEF Asked
  <2>7. Asked(kind)
    BY <2>2 DEF Asked, kind
  <2>8. PluginInv'
    BY <1>1, <1>3, <1>6, <2>4, <2>6, <2>7, PluginInvKept
  <2>9. Whole => kind # "Release"
    BY <1>1, <2>7 DEF Whole, PluginInv, Cannot, NeverAsked
  <2>10. ASSUME NEW b \in Coordinators, b = by
         PROVE  /\ coord[b].call = kind /\ reply[b] = "none" /\ reply'[b] = ack
                /\ Waits(toPlugin', b, reply'[b], coord[b].call)
                /\ Waits(toPty, b, reply'[b], coord[b].call)
    <3>1. Waits(toPlugin, b, reply[b], coord[b].call) /\ Waits(toPty, b, reply[b], coord[b].call)
      BY <1>1 DEF CallInv, Waiting
    <3>2. /\ coord[b].call = kind /\ reply[b] = "none"
          /\ \A a, c : Waits(Tail(toPlugin), b, a, c)
      BY <1>1, <2>2, <2>10, <3>1, WaitsTail DEF kind, by
    <3>3. \A i \in DOMAIN toPty : toPty[i].by # b
      BY <1>1, <2>3, <3>1, <3>2, ChannelKinds DEF Waits
    <3>4. reply'[b] = ack
      BY <1>1, <2>1, <2>10 DEF Answer
    <3>5. QED
      BY <2>2, <3>2, <3>3, <3>4 DEF Waits
  <2>11. ASSUME NEW b \in Coordinators, b # by
         PROVE  /\ reply'[b] = reply[b]
                /\ Waits(toPlugin', b, reply'[b], coord[b].call)
                /\ Waits(toPty, b, reply'[b], coord[b].call)
    <3>1. Waits(toPlugin, b, reply[b], coord[b].call) /\ Waits(toPty, b, reply[b], coord[b].call)
      BY <1>1 DEF CallInv, Waiting
    <3>2. reply'[b] = reply[b]
      BY <1>1, <2>1, <2>11 DEF Answer
    <3>3. QED
      BY <1>1, <2>2, <3>1, <3>2, WaitsTail
  <2>12. CallInv'
    <3> SUFFICES ASSUME NEW b \in Coordinators
                 PROVE  /\ Waiting(toPlugin, b)' /\ Waiting(toPty, b)'
                        /\ reply'[b] # "none" => coord'[b].call \in Calls
                        /\ coord'[b].call = "Activate" => coord'[b].intent = "Activate"
                        /\ coord'[b].call \in {"Committed", "Compensate"} => Activated'
      BY DEF CallInv
    <3>1. Waiting(toPlugin, b)' /\ Waiting(toPty, b)'
      BY <1>3, <2>10, <2>11 DEF Waiting
    <3>2. reply'[b] # "none" => coord'[b].call \in Calls
      BY <1>1, <1>3, <2>3, <2>10, <2>11 DEF CallInv, Calls
    <3>3. QED
      BY <1>1, <1>3, <1>5, <2>4, <3>1, <3>2 DEF CallInv
  <2>13. ReplyInv'
    <3> SUFFICES ASSUME NEW b \in Coordinators
                 PROVE  /\ coord'[b].call = "Activate" /\ reply'[b] = "Activated" => Activated'
                        /\ coord'[b].call = "Activate" /\ reply'[b] \in PluginErrors => Cannot'
                        /\ coord'[b].call = "Committed" /\ reply'[b] = "Resolved" => PtyCommitted'
      BY DEF ReplyInv
    <3>1. CASE b = by
      BY <1>3, <2>3, <2>4, <2>10, <3>1 DEF PluginsKept, Activated, Cannot, Kinds
    <3>2. CASE b # by
      BY <1>1, <1>3, <1>4, <1>5, <2>4, <2>11, <3>2 DEF ReplyInv
    <3>3. QED
      BY <3>1, <3>2
  <2>14. QED
    BY <1>4, <1>5, <1>6, <2>4, <2>5, <2>8, <2>9, <2>12, <2>13 DEF Later
<1>9. QED
  BY <1>2, <1>7, <1>8

-----------------------------------------------------------------------------
(* The PTY thread, afterwards. *)

\* A committed ledger stays committed, and its commitment is acknowledged by
\* what it is.
PtyKept(outcome, ack) ==
  /\ PtyInv' /\ (PtyCommitted => PtyCommitted')
  /\ outcome = Committed /\ ack = "Resolved" => PtyCommitted'

\* A resolution, or the payment of a debt, keeps the ledger's history.
LEMMA PtyKeeps ==
  ASSUME PtyInv, NEW fails, NEW paid, NEW outcome \in Outcomes, NEW ack \in PtyAcks,
         \/ ResolveCommit(outcome, fails, paid, ack)
         \/ RetryPreparationDebt(paid) /\ ack = "StillDirty"
  PROVE  PtyKept(outcome, ack)
<1>1. Committed # NoOutcome
  BY DEF Committed, NoOutcome
<1>2. CASE UNCHANGED ptyVars /\ ack # "Resolved"
  BY <1>2 DEF PtyKept, PtyInv, PtyCommitted, ptyVars
<1>3. CASE ReplayCommit(outcome, ack)
  BY <1>3 DEF ReplayCommit, SameOutcome, PtyKept, PtyInv, PtyCommitted, ptyVars
<1>4. ASSUME NEW success, Settle(outcome, fails, success, ack), ledger.at # "receipt",
             outcome = Committed => success = "PtyRolledBack"
      PROVE  PtyKept(outcome, ack)
  <2>1. ~PtyCommitted
    BY <1>4 DEF PtyCommitted, Entry
  <2>2. /\ ledger'.outcome = outcome /\ ledger'.ack = success
        /\ outcome = Committed => ack # "Resolved"
    BY <1>4 DEF Settle, Entry
  <2>3. QED
    BY <1>4, <2>1, <2>2 DEF PtyKept, PtyInv
<1>5. CASE RetryCleanup(outcome, fails, ack)
  <2>1. CASE SameOutcome(ledger.outcome, outcome)
    <3>1. Settle(outcome, fails, ledger.ack, ack) /\ ledger.at # "receipt"
      BY <1>5, <2>1 DEF RetryCleanup
    <3>2. outcome = Committed => ledger.ack = "PtyRolledBack"
      BY <1>5, <2>1 DEF RetryCleanup, SameOutcome, PtyInv
    <3>3. QED
      BY <1>4, <3>1, <3>2
  <2>2. CASE ~SameOutcome(ledger.outcome, outcome)
    BY <1>2, <1>5, <2>2 DEF RetryCleanup
  <2>3. QED
    BY <2>1, <2>2
<1>6. CASE RetryPreparationDebt(paid) /\ ack # "Resolved"
  <2>1. CASE ledger' = NoEntry /\ ledger.at = "preparationDebt"
    <3>1. ~PtyCommitted /\ ledger'.outcome = NoOutcome
      BY <2>1 DEF PtyCommitted, NoEntry, Entry
    <3>2. QED
      BY <1>1, <1>6, <3>1 DEF PtyKept, PtyInv
  <2>2. QED
    BY <1>2, <1>6, <2>1 DEF RetryPreparationDebt
<1>7. CASE Commit(outcome, fails, ack)
  <2>1. CASE "activate" \in fails
    BY <1>4, <1>7, <2>1 DEF Commit
  <2>2. CASE "activate" \notin fails
    <3>1. PtyCommitted'
      BY <1>7, <2>2 DEF Commit, PtyCommitted
    <3>2. ledger'.at = "receipt"
      BY <1>7, <2>2 DEF Commit, Entry
    <3>3. QED
      BY <3>1, <3>2 DEF PtyKept, PtyInv
  <2>3. QED
    BY <2>1, <2>2
<1>8. CASE Reject(outcome, fails, ack)
  BY <1>4, <1>8 DEF Reject
<1>9. QED
  BY <1>2, <1>3, <1>5, <1>6, <1>7, <1>8 DEF ResolveCommit, StillPreparing, UnknownCommit

\* The PTY thread keeps what Screen relies on.
LEMMA LaterPty ==
  ASSUME IInv, Later, PtyPrepares \/ PtyResolves \/ PtyServesOthers
  PROVE  Later'
<1>1. /\ TypeInv /\ PtyTypeOK(Texts) /\ PluginInv /\ NoMoreReports /\ CallInv /\ PtyInv
      /\ ReplyInv /\ toPty \in Seq(PtyRequests) /\ toScreen \in Seq(Reports) /\ tab # "absent"
      /\ reply \in [Coordinators -> {"none"} \cup PluginAcks \cup PtyAcks]
  BY DEF IInv, Later, TypeInv, RequestTypes, ReportTypes, CoordTypes
<1>2. ASSUME PtyPrepares
      PROVE  FALSE
  <2>1. toPty # <<>> /\ Head(toPty).is = "NewTab"
    BY <1>2 DEF PtyPrepares, NewTab
  <2>2. QED
    BY <1>1, <2>1, ChannelKinds DEF NoMoreReports
<1>3. UNCHANGED <<pluginVars, screenVars, coord, result, toPlugin>>
  BY <1>2 DEF PtyResolves, PtyServesOthers, coordVars
<1>4. /\ UNCHANGED <<reservation, receipts, tab, active, quarantine, decision>>
      /\ (Activated' <=> Activated) /\ (Cannot' <=> Cannot)
      /\ (HasReceipt("Release")' <=> HasReceipt("Release"))
      /\ (HasReceipt("Activate")' <=> HasReceipt("Activate"))
      /\ (Activating' <=> Activating) /\ tab' # "absent"
  BY <1>1, <1>3
  DEF pluginVars, screenVars, Activated, Cannot, HasReceipt, Activating
<1>5. \A call : Asked(call)' <=> Asked(call)
  BY <1>3 DEF Asked
<1>6. PluginInv'
  BY <1>1, <1>4, <1>5 DEF PluginInv, NeverAsked
<1>7. ASSUME NEW debt \in BOOLEAN, NEW paid \in BOOLEAN, toScreen' = toScreen \o Paid(debt, paid)
      PROVE  \A i \in DOMAIN toScreen' : toScreen'[i].is # "ApplyLayout"
  <2>1. Paid(debt, paid) \in Seq(Reports)
    BY PaidType
  <2>2. \A i \in DOMAIN Paid(debt, paid) : Paid(debt, paid)[i].is # "ApplyLayout"
    BY FailureReports
  <2> DEFINE r == Paid(debt, paid)
  <2> HIDE DEF r
  <2>3. QED
    BY <1>1, <1>7, <2>1, <2>2, KindsKept DEF r, NoMoreReports
<1>8. CASE PtyServesOthers
  <2>1. /\ RetryPreparationDebt(TRUE) /\ UNCHANGED <<reply, toPty>>
        /\ toScreen' = toScreen \o Paid(TRUE, TRUE)
    BY <1>8 DEF PtyServesOthers, coordVars
  <2>2. PtyInv' /\ (PtyCommitted => PtyCommitted')
    <3>1. Committed \in Outcomes /\ "StillDirty" \in PtyAcks
      BY DEF Outcomes, PtyAcks, PtyErrors
    <3>2. QED
      BY <1>1, <2>1, <3>1, PtyKeeps DEF PtyKept
  <2>3. \A i \in DOMAIN toScreen' : toScreen'[i].is # "ApplyLayout"
    BY <1>7, <2>1
  <2>4. NoMoreReports'
    BY <1>1, <1>3, <2>1, <2>3 DEF NoMoreReports
  <2>5. CallInv' /\ ReplyInv'
    BY <1>1, <1>3, <1>4, <2>1, <2>2 DEF CallInv, Waiting, ReplyInv
  <2>6. QED
    BY <1>3, <1>4, <1>6, <2>2, <2>4, <2>5 DEF Later, Whole
<1>9. CASE PtyResolves
  <2> DEFINE call == Head(toPty).is
             by == Head(toPty).by
             outcome == PtyOutcome(Head(toPty))
  <2>1. PICK fails \in SUBSET (Faults \cap PtyFaults), paid \in BOOLEAN, ack \in PtyAcks :
          /\ ResolveCommit(outcome, fails, paid, ack)
          /\ toScreen' = toScreen \o Paid(ledger.at = "preparationDebt", paid)
          /\ Answer(by, ack)
    BY <1>9 DEF PtyResolves
  <2>2. /\ toPty # <<>> /\ toPty' = Tail(toPty)
        /\ 1 \in DOMAIN toPty /\ Head(toPty) = toPty[1]
        /\ \A i \in DOMAIN toPty' : i + 1 \in DOMAIN toPty /\ toPty'[i] = toPty[i + 1]
    BY <1>1, <1>9, ChannelKinds DEF PtyResolves
  <2>3. call \in PtyCalls
    BY <1>1, <2>2, ChannelKinds DEF NoMoreReports
  <2>4. outcome \in Outcomes
    <3>1. Head(toPty) \in PtyRequests
      BY <1>1, <2>2
    <3>2. Head(toPty).text \in Texts
      BY <3>1 DEF PtyRequests, Requests
    <3>3. QED
      BY <3>2 DEF PtyOutcome, Outcomes
  <2>5. call = "Committed" => outcome = Committed
    BY DEF PtyOutcome
  <2> HIDE DEF call, by, outcome
  <2>6. PtyKept(outcome, ack)
    BY <1>1, <2>1, <2>4, PtyKeeps
  <2>7. NoMoreReports'
    <3> DEFINE debt == ledger.at = "preparationDebt"
    <3>1. debt \in BOOLEAN /\ toScreen' = toScreen \o Paid(debt, paid)
      BY <2>1
    <3> HIDE DEF debt
    <3>2. \A i \in DOMAIN toScreen' : toScreen'[i].is # "ApplyLayout"
      BY <1>7, <3>1
    <3>3. QED
      BY <1>1, <1>3, <2>2, <3>2 DEF NoMoreReports
  <2>8. ASSUME NEW b \in Coordinators, b = by
        PROVE  /\ coord[b].call = call /\ reply[b] = "none" /\ reply'[b] = ack
               /\ Waits(toPlugin, b, reply'[b], coord[b].call)
               /\ Waits(toPty', b, reply'[b], coord[b].call)
    <3>1. Waits(toPlugin, b, reply[b], coord[b].call) /\ Waits(toPty, b, reply[b], coord[b].call)
      BY <1>1 DEF CallInv, Waiting
    <3>2. /\ coord[b].call = call /\ reply[b] = "none"
          /\ \A a, c : Waits(Tail(toPty), b, a, c)
      BY <1>1, <2>2, <2>8, <3>1, WaitsTail DEF call, by
    <3>3. \A i \in DOMAIN toPlugin : toPlugin[i].by # b
      BY <1>1, <2>3, <3>1, <3>2, ChannelKinds DEF Waits
    <3>4. reply'[b] = ack
      BY <1>1, <2>1, <2>8 DEF Answer
    <3>5. QED
      BY <2>2, <3>2, <3>3, <3>4 DEF Waits
  <2>9. ASSUME NEW b \in Coordinators, b # by
        PROVE  /\ reply'[b] = reply[b]
               /\ Waits(toPlugin, b, reply'[b], coord[b].call)
               /\ Waits(toPty', b, reply'[b], coord[b].call)
    <3>1. Waits(toPlugin, b, reply[b], coord[b].call) /\ Waits(toPty, b, reply[b], coord[b].call)
      BY <1>1 DEF CallInv, Waiting
    <3>2. reply'[b] = reply[b]
      BY <1>1, <2>1, <2>9 DEF Answer
    <3>3. QED
      BY <1>1, <2>2, <3>1, <3>2, WaitsTail
  <2>10. CallInv'
    <3> SUFFICES ASSUME NEW b \in Coordinators
                 PROVE  /\ Waiting(toPlugin, b)' /\ Waiting(toPty, b)'
                        /\ reply'[b] # "none" => coord'[b].call \in Calls
                        /\ coord'[b].call = "Activate" => coord'[b].intent = "Activate"
                        /\ coord'[b].call \in {"Committed", "Compensate"} => Activated'
      BY DEF CallInv
    <3>1. Waiting(toPlugin, b)' /\ Waiting(toPty, b)'
      BY <1>3, <2>8, <2>9 DEF Waiting
    <3>2. reply'[b] # "none" => coord'[b].call \in Calls
      BY <1>1, <1>3, <2>3, <2>8, <2>9 DEF CallInv, Calls
    <3>3. QED
      BY <1>1, <1>3, <1>4, <3>1, <3>2 DEF CallInv
  <2>11. ReplyInv'
    <3> SUFFICES ASSUME NEW b \in Coordinators
                 PROVE  /\ coord'[b].call = "Activate" /\ reply'[b] = "Activated" => Activated'
                        /\ coord'[b].call = "Activate" /\ reply'[b] \in PluginErrors => Cannot'
                        /\ coord'[b].call = "Committed" /\ reply'[b] = "Resolved" => PtyCommitted'
      BY DEF ReplyInv
    <3>1. CASE b = by
      BY <1>3, <2>3, <2>5, <2>6, <2>8, <3>1 DEF PtyKept, PtyCalls
    <3>2. CASE b # by
      BY <1>1, <1>3, <1>4, <2>6, <2>9, <3>2 DEF ReplyInv, PtyKept
    <3>3. QED
      BY <3>1, <3>2
  <2>12. QED
    BY <1>1, <1>3, <1>4, <1>6, <2>6, <2>7, <2>10, <2>11 DEF Later, Whole, PtyKept
<1>10. QED
  BY <1>2, <1>8, <1>9

-----------------------------------------------------------------------------
(* Screen and its worker, afterwards. *)

\* A channel without requests of a coordinator.
Stripped(p, queue, by) ==
  /\ \A i \in DOMAIN p : p[i].by # by /\ \E j \in DOMAIN queue : p[i].is = queue[j].is
  /\ \A b \in Coordinators : b # by => Waits(p, b, reply[b], coord[b].call)

\* Who has an answer, or asks nothing, has no request; orphaned requests are nobody's.
LEMMA StrippedTypes ==
  ASSUME IInv, Later, NEW by \in Coordinators
  PROVE  /\ reply[by] # "none" \/ coord[by].call \notin Calls =>
              Stripped(toPlugin, toPlugin, by) /\ Stripped(toPty, toPty, by)
         /\ Stripped(Orphan(toPlugin, by), toPlugin, by)
         /\ Stripped(Orphan(toPty, by), toPty, by)
         /\ Orphan(toPlugin, by) \in Seq(PluginRequests)
         /\ Orphan(toPty, by) \in Seq(PtyRequests)
<1>1. /\ TypeInv /\ CallInv /\ NoMoreReports
      /\ toPlugin \in Seq(PluginRequests) /\ toPty \in Seq(PtyRequests)
  BY DEF IInv, Later, TypeInv, RequestTypes
<1>2. /\ \A i \in DOMAIN toPlugin : toPlugin[i].is \in Calls
      /\ \A i \in DOMAIN toPty : toPty[i].is \in Calls
  BY <1>1, ChannelKinds DEF NoMoreReports, Calls
<1>3. \A b \in Coordinators :
        Waits(toPlugin, b, reply[b], coord[b].call) /\ Waits(toPty, b, reply[b], coord[b].call)
  BY <1>1 DEF CallInv, Waiting
<1>4. ASSUME reply[by] # "none" \/ coord[by].call \notin Calls
      PROVE  Stripped(toPlugin, toPlugin, by) /\ Stripped(toPty, toPty, by)
  BY <1>2, <1>3, <1>4 DEF Stripped, Waits
<1>5. ASSUME NEW calls, NEW queue \in Seq(Requests(calls)),
             \A b \in Coordinators : Waits(queue, b, reply[b], coord[b].call)
      PROVE  Stripped(Orphan(queue, by), queue, by) /\ Orphan(queue, by) \in Seq(Requests(calls))
  <2>1. /\ DOMAIN Orphan(queue, by) = DOMAIN queue
        /\ \A i \in DOMAIN queue : Orphan(queue, by)[i].is = queue[i].is
        /\ Orphan(queue, by) \in Seq(Requests(calls))
    BY Orphaned
  <2>2. \A i \in DOMAIN Orphan(queue, by) : Orphan(queue, by)[i].by # by
    BY WaitsOrphan
  <2>3. \A b \in Coordinators : b # by => Waits(Orphan(queue, by), b, reply[b], coord[b].call)
    BY <1>5, WaitsOrphan
  <2>4. QED
    BY <2>1, <2>2, <2>3 DEF Stripped
<1>6. QED
  BY <1>1, <1>3, <1>4, <1>5 DEF PluginRequests, PtyRequests

\* A request is added to a stripped channel, or none.
Extended(next, p, by, call) ==
  next = p \/ \E m : m.is = call /\ m.by = by /\ next = Append(p, m)

SameKinds(next, queue, call) ==
  \A i \in DOMAIN next : next[i].is = call \/ \E j \in DOMAIN queue : next[i].is = queue[j].is

\* What is in it then.
LEMMA OneRequest ==
  ASSUME NEW S, NEW p \in Seq(S), NEW queue, NEW by \in Coordinators, NEW call,
         Stripped(p, queue, by), NEW next, Extended(next, p, by, call)
  PROVE  /\ \A b \in Coordinators : b # by => Waits(next, b, reply[b], coord[b].call)
         /\ Waits(next, by, "none", call)
         /\ SameKinds(next, queue, call)
<1>1. CASE next = p
  BY <1>1 DEF Stripped, Waits, SameKinds
<1>2. ASSUME NEW m, m.is = call, m.by = by, next = Append(p, m)
      PROVE  /\ \A b \in Coordinators : b # by => Waits(next, b, reply[b], coord[b].call)
             /\ Waits(next, by, "none", call)
             /\ SameKinds(next, queue, call)
  <2>1. ASSUME NEW b \in Coordinators, b # by
        PROVE  Waits(next, b, reply[b], coord[b].call)
    <3>1. Waits(p, b, reply[b], coord[b].call)
      BY <2>1 DEF Stripped
    <3>2. QED
      BY <1>2, <2>1, <3>1, WaitsAppend
  <2>2. Waits(next, by, "none", call)
    <3>1. \A i \in DOMAIN p : p[i].by # by
      BY DEF Stripped
    <3>2. QED
      BY <1>2, <3>1, WaitsAppend
  <2>3. \A i \in DOMAIN next : (i \in DOMAIN p /\ next[i] = p[i]) \/ next[i] = m
    BY <1>2
  <2>4. QED
    BY <1>2, <2>1, <2>2, <2>3 DEF Stripped, SameKinds
<1>3. QED
  BY <1>1, <1>2 DEF Extended

\* The channels after a call, which may be none.
Called(call) ==
  /\ \A b \in Coordinators : Waiting(toPlugin, b)' /\ Waiting(toPty, b)'
  /\ \A i \in DOMAIN toPlugin' : toPlugin'[i].is # "NewTab"
  /\ \A i \in DOMAIN toPty' : toPty'[i].is # "NewTab"
  /\ \A x : Asked(x)' => Asked(x) \/ x = call

\* A coordinator's next call, if any, is what it waits for.
LEMMA Requested ==
  ASSUME IInv, Later, NEW by \in Coordinators, NEW call, call # "NewTab",
         NEW p \in Seq(PluginRequests), NEW q \in Seq(PtyRequests),
         Stripped(p, toPlugin, by), Stripped(q, toPty, by),
         Extended(toPlugin', p, by, call), Extended(toPty', q, by, call),
         reply'[by] = "none", coord'[by].call = call,
         \A b \in Coordinators : b # by => coord'[b] = coord[b] /\ reply'[b] = reply[b]
  PROVE  Called(call)
<1>1. NoMoreReports
  BY DEF Later
<1>2. /\ \A b \in Coordinators : b # by => Waits(toPlugin', b, reply[b], coord[b].call)
      /\ Waits(toPlugin', by, "none", call) /\ SameKinds(toPlugin', toPlugin, call)
  BY OneRequest
<1>3. /\ \A b \in Coordinators : b # by => Waits(toPty', b, reply[b], coord[b].call)
      /\ Waits(toPty', by, "none", call) /\ SameKinds(toPty', toPty, call)
  BY OneRequest
<1>4. \A b \in Coordinators : Waiting(toPlugin, b)' /\ Waiting(toPty, b)'
  <2> TAKE b \in Coordinators
  <2>1. CASE b = by
    BY <1>2, <1>3, <2>1 DEF Waiting
  <2>2. CASE b # by
    BY <1>2, <1>3, <2>2 DEF Waiting
  <2>3. QED
    BY <2>1, <2>2
<1>5. ASSUME NEW x, Asked(x)', x # call
      PROVE  Asked(x)
  <2>1. CASE \E i \in DOMAIN toPlugin' : toPlugin'[i].is = x
    BY <1>2, <1>5, <2>1 DEF Asked, SameKinds
  <2>2. CASE \E b \in Coordinators : coord'[b].call = x
    BY <1>5, <2>2 DEF Asked
  <2>3. QED
    BY <1>5, <2>1, <2>2 DEF Asked
<1>6. QED
  BY <1>1, <1>2, <1>3, <1>4, <1>5 DEF NoMoreReports, SameKinds, Called

\* What a coordinator must know to make a call, and Screen to draw a conclusion.
LEMMA LaterCall ==
  ASSUME IInv, Later, NEW by \in Coordinators, NEW call, Called(call),
         \A i \in DOMAIN toScreen' : toScreen'[i].is # "ApplyLayout",
         reply'[by] = "none", coord'[by].call = call,
         \A b \in Coordinators : b # by => coord'[b] = coord[b] /\ reply'[b] = reply[b],
         UNCHANGED <<pluginVars, ptyVars>>, tab' # "absent",
         call = "Release" => Asked("Release") \/ Cannot \/ NeverAsked,
         call = "Activate" => Activating /\ coord'[by].intent = "Activate",
         call \in {"Committed", "Compensate"} => Activated,
         Activating' => Activating, Activating => Activating' \/ ~active', active' => active,
         result' = "Commit" \/ decision' = "Committed" => Whole
  PROVE  Later'
<1>1. /\ CallInv /\ PluginInv /\ PtyInv /\ ReplyInv
  BY DEF Later
<1>2. /\ UNCHANGED <<reservation, receipts, ledger, terminals>>
      /\ (Activated' <=> Activated) /\ (Cannot' <=> Cannot)
      /\ (HasReceipt("Release")' <=> HasReceipt("Release"))
      /\ (HasReceipt("Activate")' <=> HasReceipt("Activate"))
      /\ (PtyCommitted' <=> PtyCommitted)
  BY DEF pluginVars, ptyVars, Activated, Cannot, HasReceipt, PtyCommitted
<1>3. NoMoreReports'
  BY DEF NoMoreReports, Called
<1>4. CallInv'
  <2> SUFFICES ASSUME NEW b \in Coordinators
               PROVE  /\ reply'[b] # "none" => coord'[b].call \in Calls
                      /\ coord'[b].call = "Activate" => coord'[b].intent = "Activate"
                      /\ coord'[b].call \in {"Committed", "Compensate"} => Activated'
    BY DEF CallInv, Called
  <2>1. CASE b = by
    BY <1>2, <2>1
  <2>2. CASE b # by
    BY <1>1, <1>2, <2>2 DEF CallInv
  <2>3. QED
    BY <2>1, <2>2
<1>5. NeverAsked => NeverAsked'
  BY <1>2 DEF NeverAsked, Called
<1>6. PluginInv'
  BY <1>1, <1>2, <1>5 DEF PluginInv, Called
<1>7. PtyInv'
  BY <1>1, <1>2 DEF PtyInv
<1>8. ReplyInv'
  <2> SUFFICES ASSUME NEW b \in Coordinators
               PROVE  /\ coord'[b].call = "Activate" /\ reply'[b] = "Activated" => Activated'
                      /\ coord'[b].call = "Activate" /\ reply'[b] \in PluginErrors => Cannot'
                      /\ coord'[b].call = "Committed" /\ reply'[b] = "Resolved" => PtyCommitted'
    BY DEF ReplyInv
  <2>1. CASE b = by
    BY <2>1 DEF PluginErrors
  <2>2. CASE b # by
    BY <1>1, <1>2, <2>2 DEF ReplyInv
  <2>3. QED
    BY <2>1, <2>2
<1>9. Whole => Whole'
  BY <1>2 DEF Whole
<1>10. QED
  BY <1>3, <1>4, <1>6, <1>7, <1>8, <1>9 DEF Later

\* Nobody coordinates an activation of a transaction that nobody activates.
LEMMA NotActivating ==
  ASSUME Later, active, ~Activating
  PROVE  NeverAsked
<1>1. Activated => HasReceipt("Activate")
  BY DEF Activated, HasReceipt, NoReceipt
<1>2. QED
  BY <1>1 DEF Later, PluginInv, NeverAsked

\* Screen's own steps keep what it relies on.
LEMMA LaterScreen ==
  ASSUME IInv, Later, OpenTab \/ CloseTab \/ ScreenStep
  PROVE  Later'
<1> USE Coordination
<1>1. /\ TypeInv /\ ScreenInv /\ NoMoreReports /\ CallInv /\ PluginInv /\ tab # "absent"
      /\ toPlugin \in Seq(PluginRequests) /\ toPty \in Seq(PtyRequests)
      /\ coord \in [Coordinators -> Plans] /\ quarantine \in Plans
      /\ reply \in [Coordinators -> {"none"} \cup PluginAcks \cup PtyAcks]
      /\ "screen" \in Coordinators /\ "worker" \in Coordinators
      /\ "none" \notin Calls /\ "sleep" \notin Calls
      /\ result = "Commit" \/ decision = "Committed" => Whole
  BY DEF IInv, Later, TypeInv, RequestTypes, CoordTypes, ScreenTypes, Coordinators,
         Calls, Kinds, PtyCalls
<1>2. ASSUME toScreen # <<>>
      PROVE  /\ Message.is # "ApplyLayout"
             /\ \A i \in DOMAIN Tail(toScreen) : Tail(toScreen)[i].is # "ApplyLayout"
  BY <1>1, <1>2, ChannelKinds DEF NoMoreReports, Message
<1>3. ASSUME at # "coordinating"
      PROVE  /\ coord["screen"].intent = "none" /\ coord["screen"].call = "none"
             /\ reply["screen"] = "none"
             /\ ~Quarantined => ~Activating
  <2>1. coord["screen"] = Idle
    BY <1>1, <1>3 DEF ScreenInv
  <2>2. QED
    BY <1>1, <2>1 DEF CallInv, Activating, Quarantined
<1>4. ASSUME UNCHANGED <<coord, reply, toPlugin, toPty, pluginVars, ptyVars>>, at # "coordinating",
             \A i \in DOMAIN toScreen' : toScreen'[i].is # "ApplyLayout", tab' # "absent",
             Activating' => Activating, Activating => Activating' \/ ~active', active' => active,
             result' = "Commit" \/ decision' = "Committed" => Whole
      PROVE  Later'
  <2>1. Stripped(toPlugin, toPlugin, "screen") /\ Stripped(toPty, toPty, "screen")
    BY <1>1, <1>3, <1>4, StrippedTypes
  <2>2. Extended(toPlugin', toPlugin, "screen", "none") /\ Extended(toPty', toPty, "screen", "none")
    BY <1>4 DEF Extended
  <2>3. /\ reply'["screen"] = "none" /\ coord'["screen"].call = "none"
        /\ \A b \in Coordinators : b # "screen" => coord'[b] = coord[b] /\ reply'[b] = reply[b]
    BY <1>3, <1>4
  <2>4. Called("none")
    BY <1>1, <2>1, <2>2, <2>3, Requested
  <2>5. QED
    BY <1>1, <1>4, <2>3, <2>4, LaterCall
<1>5. CASE OpenTab
  BY <1>1, <1>5 DEF OpenTab
<1>6. CASE CloseTab
  BY <1>1, <1>4, <1>6 DEF CloseTab, coordVars, NoMoreReports, Activating
<1>7. CASE IgnoreMessage
  BY <1>1, <1>2, <1>4, <1>7 DEF IgnoreMessage, Receives, coordVars, screenVars, Activating
<1>8. CASE HandleApplyLayout
  BY <1>2, <1>8 DEF HandleApplyLayout, Receives
<1>9. CASE HandleMismatch
  <2>1. /\ UNCHANGED <<coord, reply, result, toPlugin, toPty, pluginVars, ptyVars, tab, active,
                       decision>>
        /\ at = "recv" /\ ~Quarantined /\ toScreen # <<>> /\ toScreen' = Tail(toScreen)
        /\ quarantine'.intent = "RejectByOwner"
    BY <1>9 DEF HandleMismatch, Receives, coordVars, Plan
  <2>2. ~Activating /\ ~Activating'
    BY <1>3, <2>1 DEF Activating
  <2>3. QED
    BY <1>1, <1>2, <1>4, <2>1, <2>2
<1>10. CASE HandlePreparationFailed
  <2>1. /\ UNCHANGED <<pluginVars, ptyVars, reply, result>>
        /\ at = "recv" /\ active /\ ~Quarantined /\ toScreen # <<>> /\ toScreen' = Tail(toScreen)
    BY <1>10 DEF HandlePreparationFailed, Receives
  <2>2. ~Activating
    BY <1>3, <2>1
  <2>3. CASE Message.release
    <3> DEFINE plan == Plan("PreparationFailure", <<0, "preparation">>, FALSE, Message.ptyClean)
               request == [is |-> "Release", text |-> plan.text, by |-> "screen"]
    <3>1. Begin("screen", plan) /\ UNCHANGED screenVars
      BY <1>10, <2>3 DEF HandlePreparationFailed
    <3>2. plan.intent = "PreparationFailure" /\ plan \in Plans
      <4>1. Message \in Reports
        BY <1>1, <2>1, ChannelKinds DEF Message, TypeInv, ReportTypes
      <4>2. QED
        BY <4>1, ReportFields, OwnPlans DEF Plan
    <3>3. request.is = "Release" /\ request.by = "screen"
      OBVIOUS
    <3>4. FirstCall(plan) = "Release" /\ "Release" \notin PtyCalls
      BY <3>2 DEF FirstCall, PtyCalls
    <3> DEFINE p == [plan EXCEPT !.call = "Release", !.attempt = 1, !.text = plan.text]
    <3> HIDE DEF plan
    <3>5. p.call = "Release" /\ p.intent = "PreparationFailure"
      BY <3>2
    <3>6. /\ coord' = [coord EXCEPT !["screen"] = p]
          /\ toPlugin' = Append(toPlugin, request) /\ UNCHANGED toPty
      BY <3>1, <3>4 DEF Begin, Send
    <3> HIDE DEF request, p
    <3>7. /\ reply'["screen"] = "none" /\ coord'["screen"].call = "Release"
          /\ coord'["screen"].intent = "PreparationFailure"
          /\ \A b \in Coordinators : b # "screen" => coord'[b] = coord[b] /\ reply'[b] = reply[b]
      BY <1>1, <1>3, <2>1, <3>5, <3>6
    <3>8. /\ Extended(toPlugin', toPlugin, "screen", "Release")
          /\ Extended(toPty', toPty, "screen", "Release")
      BY <3>3, <3>6 DEF Extended
    <3>9. Stripped(toPlugin, toPlugin, "screen") /\ Stripped(toPty, toPty, "screen")
      BY <1>1, <1>3, <2>1, StrippedTypes
    <3>10. Called("Release")
      BY <1>1, <3>7, <3>8, <3>9, Requested
    <3>11. NeverAsked
      BY <2>1, <2>2, NotActivating
    <3>12. ~Activating'
      BY <2>1, <3>1, <3>7 DEF Activating, screenVars, Quarantined
    <3>13. QED
      BY <1>1, <1>2, <2>1, <2>2, <3>1, <3>7, <3>10, <3>11, <3>12, LaterCall, SMTT(30) DEF screenVars
  <2>4. CASE ~Message.release
    <3>1. DiscardTab /\ UNCHANGED <<coord, toPlugin, toPty>>
      BY <1>10, <2>4 DEF HandlePreparationFailed
    <3>2. /\ ~active' /\ UNCHANGED <<quarantine, decision>> /\ tab' # "absent"
      BY <1>1, <3>1 DEF DiscardTab, DiscardedTab
    <3>3. ~Activating'
      BY <2>2, <3>1, <3>2 DEF Activating
    <3>4. QED
      BY <1>1, <1>2, <1>4, <2>1, <2>2, <3>1, <3>2, <3>3
  <2>5. QED
    BY <2>3, <2>4
<1>11. CASE LoopTop
  <2>1. /\ UNCHANGED <<pluginVars, ptyVars, reply, toPlugin, toPty, toScreen>>
        /\ at = "top" /\ result' = "none" /\ coord["screen"].intent = "none"
        /\ \A i \in DOMAIN toScreen' : toScreen'[i].is # "ApplyLayout"
    BY <1>1, <1>3, <1>11 DEF LoopTop, NoMoreReports
  <2>2. /\ tab' # "absent" /\ (active' => active)
        /\ decision' = "Committed" => Whole
        /\ \/ UNCHANGED screenVars
           \/ ~active' /\ quarantine' = Idle
    BY <1>1, <1>11
    DEF LoopTop, Reconcile, Applies, CommitTab, RollbackTab, DiscardedTab, screenVars
  <2>3. coord'["screen"] = coord["screen"]
    BY <1>1, <1>11 DEF LoopTop
  <2>4. (Activating' => Activating) /\ (Activating => Activating' \/ ~active')
    BY <2>1, <2>2, <2>3 DEF Activating, screenVars
  <2>5. CASE coord' = coord
    BY <1>4, <2>1, <2>2, <2>4, <2>5
  <2>6. CASE /\ coord["worker"] = Idle
             /\ coord' = [coord EXCEPT !["worker"] = [quarantine' EXCEPT !.call = "sleep"]]
    <3>1. quarantine' \in Plans
      BY <1>1, <2>2, ConstantTypes DEF screenVars
    <3>2. /\ coord'["worker"].call = "sleep" /\ coord["worker"].call = "none"
          /\ \A b \in Coordinators : b # "worker" => coord'[b] = coord[b] /\ reply'[b] = reply[b]
      BY <1>1, <2>1, <2>6, <3>1
    <3>3. reply'["worker"] = "none"
      BY <1>1, <2>1, <3>2 DEF CallInv
    <3>4. Stripped(toPlugin, toPlugin, "worker") /\ Stripped(toPty, toPty, "worker")
      BY <1>1, <3>2, StrippedTypes
    <3>5. Extended(toPlugin', toPlugin, "worker", "sleep") /\ Extended(toPty', toPty, "worker", "sleep")
      BY <2>1 DEF Extended
    <3>6. Called("sleep")
      BY <1>1, <3>2, <3>3, <3>4, <3>5, Requested
    <3>7. QED
      BY <1>1, <2>1, <2>2, <2>4, <3>2, <3>3, <3>6, LaterCall
  <2>7. QED
    BY <1>11, <2>5, <2>6 DEF LoopTop
<1>12. CASE Wake
  BY <1>1, <1>4, <1>12 DEF Wake, coordVars, screenVars, NoMoreReports, Activating
<1>13. QED
  BY <1>5, <1>6, <1>7, <1>8, <1>9, <1>10, <1>11, <1>12 DEF ScreenStep

\* What Screen does with an outcome keeps what it relies on.
LEMMA Outcomed ==
  ASSUME IInv, Later, NEW outcome \in {"Commit", "Rollback", "Unknown"},
         at = "coordinating", Conclude(coord["screen"], outcome),
         outcome = "Commit" => Whole, coord' = [coord EXCEPT !["screen"] = Idle]
  PROVE  /\ tab' # "absent" /\ (active' => active)
         /\ decision' = "Committed" => Whole
         /\ Activating' => Activating
         /\ Activating => Activating' \/ ~active'
<1> USE Coordination
<1> DEFINE c == coord["screen"]
<1>1. /\ c \in Plans /\ tab # "absent" /\ ~Quarantined
      /\ decision = "Committed" => Whole
      /\ coord'["screen"].intent = "none"
  BY DEF IInv, Later, TypeInv, CoordTypes, ScreenInv, Coordinators
<1> HIDE DEF c
<1>2. /\ Activating => c.intent = "Activate"
      /\ Activating' => quarantine'.intent = "Activate"
      /\ c.intent = "Activate" => Activating
      /\ quarantine'.intent = "Activate" => Activating'
  BY <1>1 DEF Activating, Quarantined, c
<1>3. CASE (CommitTab /\ outcome = "Commit") \/ RollbackTab
  BY <1>1, <1>2, <1>3 DEF CommitTab, RollbackTab, DiscardedTab
<1>4. CASE QuarantineTab(c)
  BY <1>1, <1>2, <1>4 DEF QuarantineTab
<1>5. CASE (DiscardTab \/ UNCHANGED screenVars) /\ c.intent = "PreparationFailure"
  BY <1>1, <1>2, <1>5 DEF DiscardTab, DiscardedTab, screenVars, Quarantined
<1>6. QED
  BY <1>3, <1>4, <1>5 DEF Conclude, ConcludeApply, ConcludePreparation, c

\* The steps of a coordinator keep it.
LEMMA LaterCoordinates ==
  ASSUME IInv, Later, NEW by \in Coordinators,
         (WorkerStarts /\ by = "worker") \/ TakeReply(by) \/ Timeout(by)
  PROVE  Later'
<1> USE Coordination
<1> DEFINE c == coord[by]
           ack == reply[by]
<1>1. /\ TypeInv /\ ScreenInv /\ NoMoreReports /\ CallInv /\ PluginInv /\ ReplyInv /\ tab # "absent"
      /\ toPlugin \in Seq(PluginRequests) /\ toPty \in Seq(PtyRequests)
      /\ coord \in [Coordinators -> Plans] /\ quarantine \in Plans
      /\ c \in Plans /\ c.intent # "none"
      /\ reply \in [Coordinators -> {"none"} \cup PluginAcks \cup PtyAcks]
      /\ "screen" \in Coordinators /\ "worker" \in Coordinators
      /\ "none" \notin Calls /\ "sleep" \notin Calls
      /\ result = "Commit" \/ decision = "Committed" => Whole
  <2>1. ack # "none" \/ c.call \in Calls \cup {"sleep"}
    BY DEF WorkerStarts, TakeReply, Timeout, Calls
  <2>2. QED
    BY <2>1, Answered
    DEF IInv, Later, TypeInv, RequestTypes, CoordTypes, ScreenTypes, Coordinators,
        Calls, Kinds, PtyCalls
<1>2. UNCHANGED <<pluginVars, ptyVars, toScreen>>
  BY DEF WorkerStarts, TakeReply, Timeout
<1>3. \A i \in DOMAIN toScreen' : toScreen'[i].is # "ApplyLayout"
  BY <1>1, <1>2 DEF NoMoreReports
<1>4. ASSUME c.intent = "Activate"
      PROVE  Activating
  <2>1. CASE by = "screen"
    BY <1>4, <2>1 DEF Activating
  <2>2. CASE by = "worker"
    BY <1>1, <1>4, <2>2 DEF Activating, ScreenInv
  <2>3. QED
    BY <2>1, <2>2 DEF Coordinators
<1>5. Activated => HasReceipt("Activate")
  BY DEF Activated, HasReceipt, NoReceipt
<1>6. ASSUME c.call = "Committed", ack = "Resolved"
      PROVE  Whole
  BY <1>1, <1>5, <1>6 DEF CallInv, ReplyInv, PluginInv, Whole, Cannot, NeverAsked
<1> HIDE DEF c, ack
\* a call is made, from channels without requests of this coordinator
<1>7. ASSUME NEW call \in Calls, NEW p \in Seq(PluginRequests), NEW q \in Seq(PtyRequests),
             Stripped(p, toPlugin, by), Stripped(q, toPty, by),
             Extended(toPlugin', p, by, call), Extended(toPty', q, by, call),
             reply'[by] = "none", coord'[by].call = call, coord'[by].intent = c.intent,
             \A b \in Coordinators : b # by => coord'[b] = coord[b] /\ reply'[b] = reply[b],
             UNCHANGED <<screenVars, at, result>>,
             call = "Release" => Asked("Release") \/ Cannot \/ NeverAsked,
             call = "Activate" => c.intent = "Activate",
             call \in {"Committed", "Compensate"} => Activated
      PROVE  Later'
  <2>1. call # "NewTab"
    BY DEF Calls, Kinds, PtyCalls
  <2>2. Called(call)
    BY <1>7, <2>1, Requested
  <2>3. Activating' <=> Activating
    BY <1>1, <1>7 DEF Activating, screenVars, c
  <2>4. /\ tab' # "absent" /\ (active' => active)
        /\ result' = "Commit" \/ decision' = "Committed" => Whole
    BY <1>1, <1>7 DEF screenVars
  <2>5. call = "Activate" => Activating /\ coord'[by].intent = "Activate"
    BY <1>4, <1>7
  <2>6. QED
    BY <1>2, <1>3, <1>7, <2>2, <2>3, <2>4, <2>5, LaterCall
\* a request is sent
<1>8. ASSUME NEW call \in Calls, NEW attempt, NEW text, Send(by, c, call, attempt, text),
             ack # "none" \/ c.call \notin Calls, reply'[by] = "none",
             \A b \in Coordinators : b # by => reply'[b] = reply[b],
             UNCHANGED <<screenVars, at, result>>,
             call = "Release" => Asked("Release") \/ Cannot \/ NeverAsked,
             call = "Activate" => c.intent = "Activate",
             call \in {"Committed", "Compensate"} => Activated
      PROVE  Later'
  <2> DEFINE request == [is |-> call, text |-> text, by |-> by]
             d == [c EXCEPT !.call = call, !.attempt = attempt, !.text = text]
  <2>1. request.is = call /\ request.by = by
    OBVIOUS
  <2>2. d.call = call /\ d.intent = c.intent
    BY <1>1
  <2>3. /\ coord' = [coord EXCEPT ![by] = d]
        /\ \/ toPty' = Append(toPty, request) /\ UNCHANGED toPlugin
           \/ toPlugin' = Append(toPlugin, request) /\ UNCHANGED toPty
    BY <1>8 DEF Send
  <2> HIDE DEF request, d
  <2>4. /\ coord'[by].call = call /\ coord'[by].intent = c.intent
        /\ \A b \in Coordinators : b # by => coord'[b] = coord[b]
    BY <1>1, <2>2, <2>3
  <2>5. Extended(toPlugin', toPlugin, by, call) /\ Extended(toPty', toPty, by, call)
    BY <2>1, <2>3 DEF Extended
  <2>6. Stripped(toPlugin, toPlugin, by) /\ Stripped(toPty, toPty, by)
    BY <1>8, StrippedTypes DEF c, ack
  <2>7. QED
    BY <1>1, <1>7, <1>8, <2>4, <2>5, <2>6
\* a coordination ends
<1>9. ASSUME NEW p \in Seq(PluginRequests), NEW q \in Seq(PtyRequests),
             Stripped(p, toPlugin, by), Stripped(q, toPty, by), toPlugin' = p, toPty' = q,
             NEW outcome \in {"Commit", "Rollback", "Unknown"}, outcome = "Commit" => Whole,
             coord' = [coord EXCEPT ![by] = Idle], reply'[by] = "none",
             \A b \in Coordinators : b # by => reply'[b] = reply[b],
             IF by = "worker" THEN result' = outcome /\ UNCHANGED <<screenVars, at>>
                              ELSE Conclude(c, outcome) /\ at' = "top" /\ UNCHANGED result
      PROVE  Later'
  <2>1. /\ coord'[by].call = "none"
        /\ \A b \in Coordinators : b # by => coord'[b] = coord[b]
    BY <1>1, <1>9
  <2>2. Extended(toPlugin', p, by, "none") /\ Extended(toPty', q, by, "none")
    BY <1>9 DEF Extended
  <2>3. Called("none")
    BY <1>9, <2>1, <2>2, Requested
  <2>4. /\ tab' # "absent" /\ (active' => active)
        /\ result' = "Commit" \/ decision' = "Committed" => Whole
        /\ Activating' => Activating
        /\ Activating => Activating' \/ ~active'
    <3>1. CASE by = "worker"
      BY <1>1, <1>9, <2>1, <3>1 DEF screenVars, Activating
    <3>2. CASE by = "screen"
      <4>1. at = "coordinating"
        BY <1>1, <3>2 DEF ScreenInv, c
      <4>2. Conclude(coord["screen"], outcome) /\ UNCHANGED result
        BY <1>9, <3>2 DEF c
      <4>3. /\ tab' # "absent" /\ (active' => active)
            /\ decision' = "Committed" => Whole
            /\ Activating' => Activating
            /\ Activating => Activating' \/ ~active'
        BY <1>9, <3>2, <4>1, <4>2, Outcomed
      <4>4. QED
        BY <1>1, <4>2, <4>3
    <3>3. QED
      BY <3>1, <3>2 DEF Coordinators
  <2>5. QED
    BY <1>2, <1>3, <1>9, <2>1, <2>3, <2>4, LaterCall
<1>10. CASE WorkerStarts /\ by = "worker"
  <2>1. /\ c.call = "sleep" /\ Send(by, c, FirstCall(c), 1, c.text)
        /\ UNCHANGED <<screenVars, at, reply, result>>
    BY <1>10 DEF WorkerStarts, Begin, c
  <2>2. /\ FirstCall(c) \in Calls /\ FirstCall(c) \notin {"Committed", "Compensate"}
        /\ FirstCall(c) = "Activate" <=> c.intent = "Activate"
    BY DEF FirstCall, Calls, Kinds
  <2>3. reply[by] = "none"
    BY <1>1, <2>1 DEF CallInv, c
  <2>4. active /\ (c.intent # "Activate" => ~Activating)
    BY <1>1, <1>10 DEF ScreenInv, Activating, c
  <2>5. c.intent # "Activate" => NeverAsked
    BY <2>4, NotActivating
  <2>6. QED
    BY <1>1, <1>8, <2>1, <2>2, <2>3, <2>5
<1>11. CASE TakeReply(by)
  <2>1. /\ reply' = [reply EXCEPT ![by] = "none"] /\ ack # "none"
        /\ \/ Retries(c, ack) /\ Proceed(by, c.call, c.attempt + 1, c.text)
           \/ \E call \in NextCalls(c, ack) : Proceed(by, call, 1, NextText(c, ack))
           \/ Finish(by, Outcome(c, ack))
    BY <1>11 DEF TakeReply, c, ack
  <2>2. reply'[by] = "none" /\ \A b \in Coordinators : b # by => reply'[b] = reply[b]
    BY <1>1, <2>1
  <2>3. CASE Retries(c, ack) /\ Proceed(by, c.call, c.attempt + 1, c.text)
    <3>1. /\ c.call \in PtyCalls /\ c.call \in Calls
          /\ Send(by, c, c.call, c.attempt + 1, c.text) /\ UNCHANGED <<screenVars, at, result>>
      BY <2>3 DEF Retries, Proceed, Calls, c
    <3>2. c.call = "Committed" => Activated
      BY <1>1 DEF CallInv, c
    <3>3. c.call \notin {"Release", "Activate", "Compensate"}
      BY <3>1 DEF PtyCalls
    <3>4. QED
      BY <1>8, <2>1, <2>2, <3>1, <3>2, <3>3
  <2>4. CASE \E call \in NextCalls(c, ack) : Proceed(by, call, 1, NextText(c, ack))
    <3>1. PICK call \in NextCalls(c, ack) : Proceed(by, call, 1, NextText(c, ack))
      BY <2>4
    <3>2. call \in Calls /\ <<c.call, ack, call>> \in Continues
      BY DEF NextCalls, Calls
    <3>3. Send(by, c, call, 1, NextText(c, ack)) /\ UNCHANGED <<screenVars, at, result>>
      BY <3>1 DEF Proceed, c
    <3>4. /\ call = "Committed" => c.call = "Activate" /\ ack = "Activated"
          /\ call = "Compensate" => c.call = "Committed"
          /\ call = "Release" => c.call = "Activate" /\ ack \in PluginErrors
          /\ call # "Activate"
      BY <3>2 DEF Continues
    <3>5. /\ call \in {"Committed", "Compensate"} => Activated
          /\ call = "Release" => Cannot
      BY <1>1, <3>4 DEF CallInv, ReplyInv, c, ack
    <3>6. QED
      BY <1>8, <2>1, <2>2, <3>2, <3>3, <3>4, <3>5
  <2>5. CASE Finish(by, Outcome(c, ack))
    <3>1. Outcome(c, ack) \in {"Commit", "Rollback", "Unknown"}
      BY DEF Outcome
    <3>2. Outcome(c, ack) = "Commit" => <<c.call, ack, "Commit">> \in Certifies
      BY DEF Outcome
    <3>3. Outcome(c, ack) = "Commit" => Whole
      BY <1>6, <3>2 DEF Certifies
    <3>4. Stripped(toPlugin, toPlugin, by) /\ Stripped(toPty, toPty, by)
      BY <2>1, StrippedTypes DEF ack
    <3>5. QED
      BY <1>1, <1>9, <2>2, <2>5, <3>1, <3>3, <3>4 DEF Finish, c
  <2>6. QED
    BY <2>1, <2>3, <2>4, <2>5
<1>12. CASE Timeout(by)
  <2> DEFINE again == [is |-> c.call, text |-> c.text, by |-> by]
             p == Orphan(toPlugin, by)
             q == Orphan(toPty, by)
  <2>1. /\ c.call \in Calls /\ reply[by] = "none" /\ UNCHANGED reply
        /\ toPlugin' = p \o (IF c.call \in Kinds /\ c.attempt < Attempts THEN <<again>> ELSE <<>>)
        /\ toPty' = q \o (IF c.call \in PtyCalls /\ c.attempt < Attempts THEN <<again>> ELSE <<>>)
        /\ IF c.attempt < Attempts
             THEN /\ coord' = [coord EXCEPT ![by].attempt = c.attempt + 1]
                  /\ UNCHANGED <<screenVars, at, result>>
             ELSE /\ coord' = [coord EXCEPT ![by] = Idle]
                  /\ IF by = "worker"
                       THEN result' = "Unknown" /\ UNCHANGED <<screenVars, at>>
                       ELSE Conclude(c, "Unknown") /\ at' = "top" /\ UNCHANGED result
    BY <1>12 DEF Timeout, Calls, c
  <2>2. again.is = c.call /\ again.by = by
    OBVIOUS
  <2>3. /\ Stripped(p, toPlugin, by) /\ Stripped(q, toPty, by)
        /\ p \in Seq(PluginRequests) /\ q \in Seq(PtyRequests)
    BY StrippedTypes
  <2> HIDE DEF again, p, q
  <2>4. /\ p \o <<>> = p /\ p \o <<again>> = Append(p, again)
        /\ q \o <<>> = q /\ q \o <<again>> = Append(q, again)
    BY <2>3
  <2>5. CASE c.attempt < Attempts
    <3>1. Extended(toPlugin', p, by, c.call) /\ Extended(toPty', q, by, c.call)
      BY <2>1, <2>2, <2>4 DEF Extended
    <3>2. coord' = [coord EXCEPT ![by] = [c EXCEPT !.attempt = c.attempt + 1]]
      BY <2>1, <2>5 DEF c
    <3>3. [c EXCEPT !.attempt = c.attempt + 1].call = c.call
          /\ [c EXCEPT !.attempt = c.attempt + 1].intent = c.intent
      BY <1>1 DEF Plans
    <3>4. /\ coord'[by].call = c.call /\ coord'[by].intent = c.intent
          /\ \A b \in Coordinators : b # by => coord'[b] = coord[b]
      BY <1>1, <3>2, <3>3
    <3>5. /\ c.call = "Release" => Asked("Release")
          /\ c.call = "Activate" => c.intent = "Activate"
          /\ c.call \in {"Committed", "Compensate"} => Activated
      BY <1>1 DEF Asked, CallInv, c
    <3>6. QED
      BY <1>7, <2>1, <2>3, <2>5, <3>1, <3>4, <3>5
  <2>6. CASE ~(c.attempt < Attempts)
    BY <1>9, <2>1, <2>3, <2>4, <2>6
  <2>7. QED
    BY <2>5, <2>6
<1>13. QED
  BY <1>10, <1>11, <1>12

-----------------------------------------------------------------------------
\* Every step keeps the invariant.
LEMMA InvStep == IInv /\ [Next]_vars => IInv'
<1> SUFFICES ASSUME IInv, [Next]_vars
             PROVE  IInv'
  OBVIOUS
<1>1. TypeInv'
  BY TypeStep DEF IInv
<1>2. ASSUME UNCHANGED vars
      PROVE  ScreenInv' /\ (Later => Later')
  <2>1. UNCHANGED <<shape, reservation, receipts, ledger, terminals, tab, active, gate, quarantine,
                    decision, at, coord, reply, result, toPlugin, toPty, toScreen>>
    BY <1>2 DEF vars, pluginVars, ptyVars, screenVars, coordVars
  <2>2. ScreenInv'
    BY <2>1 DEF IInv, ScreenInv, Quarantined
  <2>3. Later => Later'
    BY <2>1
    DEF Later, NoMoreReports, CallInv, Waiting, PluginInv, PtyInv, ReplyInv, Whole, PtyCommitted,
        Activated, HasReceipt, Cannot, NeverAsked, Asked, Activating
  <2>4. QED
    BY <2>2, <2>3
<1>3. ScreenInv'
  <2>1. CASE OpenTab \/ CloseTab \/ ScreenStep
    BY <2>1, ScreenOwn
  <2>2. CASE WorkerStarts \/ \E by \in Coordinators : TakeReply(by) \/ Timeout(by)
    BY <2>2, ScreenCoordinates DEF Coordinators
  <2>3. CASE PluginStep \/ PluginLoaderFails \/ PtyStep \/ PtyServesOthers
    <3>1. UNCHANGED <<screenVars, at, coord, result>>
      BY <2>3
      DEF PluginStep, PtyStep, PluginReserves, PluginResolves, PluginLoaderFails, PtyPrepares,
          PtyResolves, PtyServesOthers, coordVars
    <3>2. QED
      BY <3>1, ScreenSame DEF IInv, ScreenInv
  <2>4. QED
    BY <1>2, <2>1, <2>2, <2>3 DEF Next, Settled
<1>4. CASE Early
  BY <1>1, <1>3, <1>4, EarlyStep DEF IInv
<1>5. CASE Later
  <2>1. ASSUME OpenTab \/ CloseTab \/ ScreenStep
        PROVE  Later'
    BY <1>5, <2>1, LaterScreen
  <2>2. ASSUME WorkerStarts \/ \E by \in Coordinators : TakeReply(by) \/ Timeout(by)
        PROVE  Later'
    BY <1>5, <2>2, LaterCoordinates DEF Coordinators
  <2>3. ASSUME PluginStep \/ PluginLoaderFails \/ PtyStep \/ PtyServesOthers
        PROVE  Later'
    BY <1>5, <2>3, LaterPlugin, LaterPty DEF PluginStep, PtyStep
  <2>4. Later'
    BY <1>2, <1>5, <2>1, <2>2, <2>3 DEF Next, Settled
  <2>5. QED
    BY <1>1, <1>3, <2>4 DEF IInv
<1>6. QED
  BY <1>4, <1>5 DEF IInv

\* The invariant holds of every behaviour.
LEMMA Invariant == Spec => []IInv
<1>1. Init => IInv
  <2> SUFFICES ASSUME Init
               PROVE  IInv
    OBVIOUS
  <2>1. TypeInv
    BY InitTypes
  <2>2. Idle.intent = "none" /\ Idle.call = "none"
    BY Coordination
  <2>3. ScreenInv
    BY <2>2 DEF Init, ScreenInv, Quarantined, Coordinators
  <2>4. Early
    BY <2>2 DEF Init, PluginInit, PtyInit, Early, Quiet, Quarantined
  <2>5. QED
    BY <2>1, <2>3, <2>4 DEF IInv
<1>2. QED
  BY <1>1, InvStep, PTL DEF Spec

\* CommitIsWhole, for any bounds: Screen commits a layout only when the Plugin
\* thread has activated it and released nothing and the PTY thread has run every
\* prepared terminal, although acks are lost and calls repeated.
THEOREM CommitsWhole == Spec => []CommitIsWhole
<1>1. IInv => CommitIsWhole
  <2> SUFFICES ASSUME IInv, decision = "Committed"
               PROVE  /\ receipts["Activate"].as = "Activated" /\ receipts["Release"] = NoReceipt
                      /\ ledger = Entry("receipt", Committed, "Resolved") /\ terminals = "running"
    BY DEF CommitIsWhole
  <2>1. Whole
    BY DEF IInv, Early, Quiet, Later
  <2>2. QED
    BY <2>1 DEF Whole, Activated, HasReceipt, PtyCommitted
<1>2. QED
  BY <1>1, Invariant, PTL

\* QuarantineKeepsTab, for any bounds: the tab of a quarantined transaction is
\* kept, and Screen and the worker do not coordinate it both.
THEOREM QuarantineKeeps == Spec => []QuarantineKeepsTab
<1>1. IInv => QuarantineKeepsTab
  BY Coordination DEF IInv, ScreenInv, QuarantineKeepsTab, Coordinators
<1>2. QED
  BY <1>1, Invariant, PTL

\* GateOpens, for any bounds: no transaction holds the pending-tab gate once it
\* is over or quarantined, except for a report that did not fit the tab.
THEOREM GateIsOpen == Spec => []GateOpens
<1>1. IInv => GateOpens
  BY DEF IInv, ScreenInv, GateOpens, Over
<1>2. QED
  BY <1>1, Invariant, PTL

-----------------------------------------------------------------------------
(* What a decision leaves: nothing of a transaction that was given up,     *)
(* nothing that may still change after the decision, and, step by step,    *)
(* what LayoutOutcome promises.                                            *)
(*                                                                         *)
(* All three rest on what a call presupposes and an answer certifies: PTY  *)
(* is asked to commit only what Plugin activated, to reject only what      *)
(* Plugin holds no more, and Plugin to compensate only what PTY undid.     *)

PtyUndone ==
  ledger.at = "receipt" /\ ledger.outcome = Committed /\ ledger.ack = "PtyRolledBack"

\* Nothing is left of the plugins, and an activation was compensated.
PluginsGone ==
  /\ reservation = "absent" /\ runtimes = "none" /\ projectors = "unbound"
  /\ Activated => HasReceipt("Compensate")

TerminalsGone == terminals = "none" /\ ledger.at \in {"absent", "receipt"}

\* The plugins never were active.
Refused == PluginsGone /\ ~Activated

\* Of the plugins that were active nothing is left.
Undone == PluginsGone /\ HasReceipt("Compensate")

\* What the Plugin thread keeps, by the state of the reservation.
PluginsFit ==
  /\ reservation \in {"absent", "Reserved"} => runtimes = "none"
  /\ projectors = "bound" => Activated /\ "projectors" \in shape
  /\ receipts["Activate"].as \in {"none", "Activated", "ActivationRolledBack"}
  /\ receipts["Activate"].as = "ActivationRolledBack" => reservation = "absent"
  /\ HasReceipt("Release") => ~Activated /\ reservation = "absent"
  /\ HasReceipt("Compensate") =>
       /\ Activated /\ reservation = "absent" /\ receipts["Compensate"].as = "Compensated"
       /\ receipts["Compensate"].ids = "panes" => PtyUndone /\ projectors = "unbound"

\* What the PTY thread keeps, by the state of the ledger.
TerminalsFit ==
  /\ ledger.at = "absent" => terminals = "none"
  /\ ledger.at = "receipt" => terminals = IF PtyCommitted THEN "running" ELSE "none"

\* A call is in PTY's channel or made.
AskedPty(call) ==
  \/ \E i \in DOMAIN toPty : toPty[i].is = call
  \/ \E by \in Coordinators : coord[by].call = call

\* What must have happened before a call is made.
CallsFit ==
  /\ AskedPty("Committed") \/ PtyCommitted => Activated
  /\ AskedPty("Rejected") => Refused
  /\ Asked("Compensate") => Activated /\ PtyUndone
  /\ (Asked("Activate") \/ Activating) /\ reservation = "Reserved" => ledger.at = "pending"

\* What an answer certifies.
AnswersFit ==
  \A by \in Coordinators :
    /\ coord[by].call = "Activate" /\ reply[by] = "ActivationRolledBack" => Refused
    /\ coord[by].call = "Release" /\ reply[by] = "Released" => Refused
    /\ coord[by].call = "Committed" /\ reply[by] = "PtyRolledBack" => PtyUndone
    /\ coord[by].call = "Rejected" /\ reply[by] = "Resolved" =>
         ledger.at = "receipt" /\ ledger.outcome # Committed
    /\ coord[by].call = "Compensate" /\ reply[by] = "Compensated" => Undone

\* PTY's own certificate is of terminals it holds no more.
CleanFits(c) == c.intent = "PreparationFailure" /\ c.ptyClean => ledger.at = "absent"

\* What the reports of a failed preparation say.
ReportsFit ==
  /\ \A i \in DOMAIN toScreen : toScreen[i].is = "PreparationFailed" =>
       /\ toScreen[i].ptyClean => ledger.at = "absent"
       /\ ~toScreen[i].release => toScreen[i].ptyClean /\ Refused
  /\ CleanFits(quarantine) /\ \A by \in Coordinators : CleanFits(coord[by])

\* What is over was decided, and nothing is held for what was not committed.
EndFits ==
  /\ result = "Rollback" \/ (Over /\ decision # "Committed") => PluginsGone /\ TerminalsGone
  /\ ~active => tab \notin {"pending", "prepared"}

\* The plugins are reserved while PTY has the layout or Screen its answer.
ReservedFits ==
  /\ tab = "absent" \/ (\E i \in DOMAIN toPlugin : toPlugin[i].is = "NewTab") =>
       reservation = "absent"
  /\ (\E i \in DOMAIN toPty : toPty[i].is = "NewTab")
       \/ (\E i \in DOMAIN toScreen : toScreen[i].is = "ApplyLayout") =>
       reservation = "Reserved"

OutcomeInv ==
  PluginsFit /\ TerminalsFit /\ CallsFit /\ AnswersFit /\ ReportsFit /\ EndFits /\ ReservedFits

-----------------------------------------------------------------------------
(* The Plugin thread. *)

\* What a request is made with, and what its resolution does.
Requestable(kind) ==
  /\ kind = "Release" => ~Activated
  /\ kind = "Compensate" => Activated /\ PtyUndone

PluginsMove(kind, ack) ==
  /\ PluginsFit'
  /\ PluginsGone => UNCHANGED pluginVars
  /\ Activated => Activated'
  /\ reservation' = "Reserved" => reservation = "Reserved"
  /\ kind = "Activate" /\ ack = "ActivationRolledBack" => Refused'
  /\ kind = "Release" /\ ack = "Released" => Refused'
  /\ kind = "Compensate" /\ ack = "Compensated" => Undone'

\* Resolutions and failing loaders keep what Plugin holds in order.
LEMMA PluginsMoved ==
  ASSUME PluginTypeOK, PluginInv, PluginsFit, UNCHANGED ptyVars,
         NEW fails, NEW kind \in Kinds, NEW ack, Requestable(kind),
         ResolvePlugins(kind, fails, ack)
  PROVE  PluginsMove(kind, ack)
<1> USE DEF PluginsMove, Requestable
<1>1. /\ receipts["Activate"].ids = "panes"
      /\ HasReceipt("Activate") => reservation # "Reserved"
      /\ kind \in Received <=> HasReceipt(kind)
      /\ "Activate" \in Kinds /\ "Release" \in Kinds /\ "Compensate" \in Kinds
      /\ "Activate" \in Received <=> HasReceipt("Activate")
      /\ Activated => HasReceipt("Activate")
      /\ PtyUndone' <=> PtyUndone
  BY DEF PluginInv, HasReceipt, Received, Kinds, Activated, NoReceipt, ptyVars, PtyUndone
<1>2. /\ receipts \in [Kinds -> [as : {"none"} \cup (PluginAcks \ PluginErrors),
                                ids : {"panes", "runtimes"}]]
      /\ projectors \in {"unbound", "bound"} /\ runtimes \in {"none", "loaded"}
  BY DEF PluginTypeOK
<1>3. /\ HasReceipt("Release") => Refused
      /\ receipts["Activate"].as = "ActivationRolledBack" => Refused
      /\ HasReceipt("Compensate") /\ projectors = "unbound" => Undone
  BY <1>2 DEF PluginsFit, Refused, Undone, PluginsGone, Activated
<1>4. CASE Replay(kind, ack)
  <2>1. UNCHANGED pluginVars /\ HasReceipt(kind)
    BY <1>1, <1>4 DEF Replay
  <2>2. PluginsFit' /\ (Activated' <=> Activated) /\ (Refused' <=> Refused) /\ (Undone' <=> Undone)
    BY <1>1, <2>1
    DEF pluginVars, PluginsFit, Activated, HasReceipt, Refused, Undone, PluginsGone
  <2>3. kind = "Activate" => ack = receipts["Activate"].as
    BY <1>1, <1>4 DEF Replay, ExpectedIds
  <2>4. kind = "Compensate" /\ ack = "Compensated" => projectors = "unbound"
    BY <1>2, <1>4, <2>1 DEF Replay, ExpectedIds, PluginsFit
  <2>5. QED
    BY <1>3, <2>1, <2>2, <2>3, <2>4 DEF pluginVars
<1>5. CASE UNCHANGED pluginVars /\ ack \in PluginErrors
  <2>1. PluginsFit' /\ (Activated' <=> Activated)
    BY <1>1, <1>5 DEF pluginVars, PluginsFit, Activated, HasReceipt
  <2>2. QED
    BY <1>5, <2>1 DEF pluginVars, PluginErrors
\* the plugins that are compensated
<1>6. ASSUME kind = "Compensate", ~HasReceipt(kind), Record(kind, "Compensated", "panes"),
             reservation' = "absent", runtimes' = "none", projectors' = "unbound", shape' = shape
      PROVE  PluginsMove(kind, ack)
  <2>1. /\ receipts'["Activate"] = receipts["Activate"]
        /\ receipts'["Release"] = receipts["Release"]
        /\ receipts'["Compensate"] = [as |-> "Compensated", ids |-> "panes"]
    BY <1>1, <1>2, <1>6 DEF Record
  <2>2. HasReceipt("Compensate")' /\ (Activated' <=> Activated) /\ Activated
        /\ (HasReceipt("Release")' <=> HasReceipt("Release"))
    BY <1>6, <2>1 DEF HasReceipt, Activated, NoReceipt
  <2>3. ~PluginsGone
    BY <1>6, <2>2 DEF PluginsGone
  <2>4. PluginsFit'
    BY <1>1, <1>3, <1>6, <2>1, <2>2 DEF PluginsFit, Refused
  <2>5. Undone'
    BY <1>6, <2>2 DEF Undone, PluginsGone
  <2>6. QED
    BY <1>6, <2>2, <2>3, <2>4, <2>5
<1>7. CASE CompensateEmpty(kind, ack)
  <2>1. reservation = "absent" /\ shape = {} /\ ~HasReceipt(kind)
    BY <1>1, <1>7 DEF CompensateEmpty
  <2>2. runtimes = "none" /\ projectors = "unbound"
    BY <1>2, <2>1 DEF PluginsFit
  <2>3. QED
    BY <1>6, <1>7, <2>1, <2>2 DEF CompensateEmpty
<1>8. CASE ~HasReceipt("Activate") /\ kind = "Activate" /\ reservation = "Reserved" /\ Activate(fails, ack)
  <2>1. /\ receipts'["Activate"] = [as |-> "Activated", ids |-> "panes"]
        /\ receipts'["Release"] = receipts["Release"]
        /\ receipts'["Compensate"] = receipts["Compensate"]
    BY <1>1, <1>2, <1>8 DEF Activate, Record
  <2>2. /\ reservation' = IF shape = {} THEN "absent" ELSE "Activated"
        /\ runtimes' = IF "runtimes" \in shape THEN "loaded" ELSE "none"
        /\ projectors' = IF "projectors" \in shape THEN "bound" ELSE "unbound"
        /\ ack = "Activated" /\ shape' = shape
    BY <1>8 DEF Activate
  <2>3. ~HasReceipt("Release")' /\ ~HasReceipt("Compensate")' /\ Activated'
    BY <1>8, <2>1 DEF PluginsFit, HasReceipt, Activated
  <2>4. PluginsFit'
    BY <2>1, <2>2, <2>3 DEF PluginsFit
  <2>5. QED
    BY <1>8, <2>2, <2>3, <2>4 DEF PluginsGone
<1>9. CASE ~HasReceipt("Activate") /\ kind = "Activate" /\ reservation = "Reserved" /\ ActivateRollsBack(fails, ack)
  <2>1. ~Activated /\ runtimes = "none" /\ projectors = "unbound" /\ ~PluginsGone
        /\ ~HasReceipt("Release") /\ ~HasReceipt("Compensate")
    BY <1>1, <1>2, <1>9 DEF PluginsFit, PluginsGone
  <2>2. CASE CleansUp(fails)
    <3>1. /\ receipts'["Activate"] = [as |-> "ActivationRolledBack", ids |-> "panes"]
          /\ receipts'["Release"] = receipts["Release"]
          /\ receipts'["Compensate"] = receipts["Compensate"]
          /\ reservation' = "absent" /\ UNCHANGED <<shape, runtimes, projectors>>
      BY <1>1, <1>2, <1>9, <2>2 DEF ActivateRollsBack, Record
    <3>2. ~Activated' /\ ~HasReceipt("Release")' /\ ~HasReceipt("Compensate")'
      BY <2>1, <3>1 DEF Activated, HasReceipt
    <3>3. PluginsFit' /\ Refused'
      BY <2>1, <3>1, <3>2 DEF PluginsFit, Refused, PluginsGone
    <3>4. QED
      BY <1>9, <2>1, <3>1, <3>3
  <2>3. CASE ~CleansUp(fails)
    <3>1. /\ reservation' = "ActivationFailed" /\ ack = "Unclean"
          /\ UNCHANGED <<shape, receipts, projectors>>
      BY <1>9, <2>3 DEF ActivateRollsBack
    <3>2. ~Activated' /\ ~HasReceipt("Release")' /\ ~HasReceipt("Compensate")'
      BY <2>1, <3>1 DEF Activated, HasReceipt
    <3>3. receipts["Activate"].as = "none"
      BY <1>9 DEF HasReceipt, NoReceipt
    <3>4. PluginsFit'
      BY <2>1, <3>1, <3>2, <3>3 DEF PluginsFit
    <3>5. QED
      BY <1>9, <2>1, <3>1, <3>4
  <2>4. QED
    BY <2>2, <2>3
<1>10. CASE /\ ~HasReceipt(kind) /\ kind = "Release" /\ reservation \in {"Reserved", "ActivationFailed"}
            /\ Release(fails, ack)
  <2>1. ~Activated /\ projectors = "unbound" /\ ~PluginsGone /\ ~HasReceipt("Compensate")
    BY <1>2, <1>10 DEF PluginsFit, PluginsGone
  <2>2. CASE CleansUp(fails)
    <3>1. /\ receipts'["Activate"] = receipts["Activate"]
          /\ receipts'["Compensate"] = receipts["Compensate"]
          /\ reservation' = "absent" /\ runtimes' = "none" /\ UNCHANGED <<shape, projectors>>
      BY <1>1, <1>2, <1>10, <2>2 DEF Release, Record
    <3>2. ~Activated' /\ ~HasReceipt("Compensate")'
      BY <2>1, <3>1 DEF Activated, HasReceipt
    <3>3. PluginsFit' /\ Refused'
      BY <2>1, <3>1, <3>2 DEF PluginsFit, Refused, PluginsGone
    <3>4. QED
      BY <1>10, <2>1, <3>1, <3>3
  <2>3. CASE ~CleansUp(fails)
    BY <1>5, <1>10, <2>3 DEF Release, PluginErrors
  <2>4. QED
    BY <2>2, <2>3
<1>11. CASE /\ ~HasReceipt(kind) /\ kind = "Compensate" /\ reservation \in {"Activated", "ActivationFailed"}
            /\ Compensate(fails, ack)
  <2>1. CASE CleansUp(fails)
    <3>1. projectors' = "unbound"
      BY <1>11, <2>1 DEF Compensate, CleansUp
    <3>2. QED
      BY <1>6, <1>11, <2>1, <3>1 DEF Compensate
  <2>2. CASE ~CleansUp(fails)
    <3>1. /\ projectors' \in {projectors, "unbound"} /\ ack = "Unclean"
          /\ UNCHANGED <<shape, reservation, receipts, runtimes>>
      BY <1>11, <2>2 DEF Compensate
    <3>2. /\ Activated' <=> Activated
          /\ HasReceipt("Release")' <=> HasReceipt("Release")
          /\ HasReceipt("Compensate")' <=> HasReceipt("Compensate")
      BY <3>1 DEF Activated, HasReceipt
    <3>3. PluginsFit'
      BY <1>1, <1>11, <3>1, <3>2 DEF PluginsFit
    <3>4. QED
      BY <1>11, <3>1, <3>2, <3>3 DEF PluginsGone
  <2>3. QED
    BY <2>1, <2>2
<1>12. QED
  BY <1>1, <1>4, <1>5, <1>7, <1>8, <1>9, <1>10, <1>11
  DEF ResolvePlugins, RefuseUnreserved, RefuseState, ResolvableFrom, PluginErrors

\* A loader that fails leaves no runtime, or the reservation as failed.
LEMMA LoadersMoved ==
  ASSUME PluginTypeOK, PluginInv, PluginsFit, UNCHANGED ptyVars, NEW fails, LoaderFails(fails)
  PROVE  PluginsMove("none", "none")
<1>1. /\ Activated /\ reservation # "absent" /\ shape' = shape /\ projectors' = projectors
      /\ ~HasReceipt("Release") /\ ~HasReceipt("Compensate") /\ ~PluginsGone
      /\ PtyUndone' <=> PtyUndone
  BY DEF LoaderFails, Activated, PluginsFit, PluginsGone, ptyVars, PtyUndone
<1>2. CASE CleansUp(fails)
  <2>1. /\ receipts'["Activate"] = receipts["Activate"]
        /\ receipts'["Release"] = receipts["Release"]
        /\ receipts'["Compensate"] = [as |-> "Compensated", ids |-> "runtimes"]
        /\ reservation' = "absent" /\ runtimes' = "none"
    BY <1>2 DEF LoaderFails, Record, PluginTypeOK, Kinds
  <2>2. Activated' /\ ~HasReceipt("Release")'
    BY <1>1, <2>1 DEF Activated, HasReceipt
  <2>3. PluginsFit'
    BY <1>1, <2>1, <2>2 DEF PluginsFit
  <2>4. QED
    BY <1>1, <2>1, <2>2, <2>3 DEF PluginsMove
<1>3. CASE ~CleansUp(fails)
  <2>1. reservation' = "ActivationFailed" /\ UNCHANGED <<receipts, runtimes>>
    BY <1>3 DEF LoaderFails
  <2>2. Activated' /\ ~HasReceipt("Release")' /\ ~HasReceipt("Compensate")'
    BY <1>1, <2>1 DEF Activated, HasReceipt
  <2>3. PluginsFit'
    BY <1>1, <2>1, <2>2 DEF PluginsFit, Activated
  <2>4. QED
    BY <1>1, <2>1, <2>2, <2>3 DEF PluginsMove
<1>4. QED
  BY <1>2, <1>3

-----------------------------------------------------------------------------
(* The PTY thread, once Screen has had its report. *)

TerminalsMove(outcome, ack) ==
  /\ TerminalsFit'
  /\ ledger.at \in {"absent", "receipt"} => UNCHANGED ptyVars
  /\ PtyCommitted' => PtyCommitted \/ outcome = Committed
  /\ outcome = Committed /\ ack = "PtyRolledBack" => PtyUndone'
  /\ outcome # Committed /\ ack = "Resolved" => ledger'.at = "receipt" /\ ledger'.outcome # Committed

\* Resolutions and payments keep what PTY holds in order.
LEMMA TerminalsMoved ==
  ASSUME TerminalsFit, NEW fails, NEW paid, NEW outcome, outcome # NoOutcome, NEW ack,
         \/ ResolveCommit(outcome, fails, paid, ack)
         \/ RetryPreparationDebt(paid) /\ ack = "none"
  PROVE  TerminalsMove(outcome, ack)
<1> USE DEF TerminalsMove
<1>1. Committed # NoOutcome
  BY DEF Committed, NoOutcome
<1>2. ASSUME UNCHANGED ptyVars
      PROVE  TerminalsFit' /\ (PtyCommitted' <=> PtyCommitted)
  BY <1>2 DEF ptyVars, TerminalsFit, PtyCommitted
<1>3. CASE UNCHANGED ptyVars /\ ack \notin {"Resolved", "PtyRolledBack"}
  BY <1>2, <1>3
<1>4. CASE ReplayCommit(outcome, ack)
  <2>1. UNCHANGED ptyVars /\ ledger.at = "receipt"
    BY <1>4 DEF ReplayCommit
  <2>2. ack \in {"Resolved", "PtyRolledBack"} => ledger.outcome = outcome /\ ledger.ack = ack
    BY <1>4 DEF ReplayCommit, SameOutcome
  <2>3. QED
    BY <1>2, <2>1, <2>2 DEF ptyVars, PtyUndone
<1>5. ASSUME NEW success, Settle(outcome, fails, success, ack), ledger.at \notin {"absent", "receipt"}
      PROVE  TerminalsMove(outcome, ack)
  <2>1. /\ ledger'.outcome = outcome /\ ledger'.ack = success
        /\ ledger'.at = IF "close" \in fails THEN "resolutionDebt" ELSE "receipt"
        /\ terminals' = IF "close" \in fails THEN "leftover" ELSE "none"
        /\ ack = IF "close" \in fails THEN "StillDirty" ELSE success
    BY <1>5 DEF Settle, Entry
  <2>2. ~PtyCommitted'
    BY <2>1 DEF PtyCommitted
  <2>3. TerminalsFit'
    BY <2>1, <2>2 DEF TerminalsFit
  <2>4. QED
    BY <1>5, <2>1, <2>2, <2>3 DEF PtyUndone
<1>6. CASE RetryCleanup(outcome, fails, ack)
  <2>1. CASE SameOutcome(ledger.outcome, outcome)
    BY <1>5, <1>6, <2>1 DEF RetryCleanup
  <2>2. CASE ~SameOutcome(ledger.outcome, outcome)
    BY <1>3, <1>6, <2>2 DEF RetryCleanup
  <2>3. QED
    BY <2>1, <2>2
<1>7. CASE RetryPreparationDebt(paid) /\ ack \notin {"Resolved", "PtyRolledBack"}
  <2>1. CASE ledger.at = "preparationDebt" /\ ledger' = NoEntry /\ terminals' = "none"
    <3>1. ledger'.at = "absent" /\ ~PtyCommitted'
      BY <2>1 DEF NoEntry, Entry, PtyCommitted
    <3>2. TerminalsFit'
      BY <2>1, <3>1 DEF TerminalsFit
    <3>3. QED
      BY <1>7, <2>1, <3>1, <3>2
  <2>2. QED
    BY <1>3, <1>7, <2>1 DEF RetryPreparationDebt
<1>8. CASE Commit(outcome, fails, ack)
  <2>1. CASE "activate" \in fails
    BY <1>5, <1>8, <2>1 DEF Commit
  <2>2. CASE "activate" \notin fails
    <3>1. /\ outcome = Committed /\ ledger.at = "pending" /\ ack = "Resolved"
          /\ PtyCommitted' /\ ledger'.at = "receipt" /\ terminals' = "running"
      BY <1>8, <2>2 DEF Commit, PtyCommitted, Entry
    <3>2. TerminalsFit'
      BY <3>1 DEF TerminalsFit
    <3>3. QED
      BY <3>1, <3>2
  <2>3. QED
    BY <2>1, <2>2
<1>9. CASE Reject(outcome, fails, ack)
  BY <1>5, <1>9 DEF Reject
<1>10. QED
  BY <1>3, <1>4, <1>6, <1>7, <1>8, <1>9 DEF ResolveCommit, StillPreparing, UnknownCommit

-----------------------------------------------------------------------------
(* The owners keep the invariant, once Screen has had PTY's report. *)

\* What does not change plugins and terminals does not change what is said of them.
LEMMA Unmoved ==
  /\ UNCHANGED pluginVars =>
       /\ Activated' <=> Activated
       /\ \A kind : HasReceipt(kind)' <=> HasReceipt(kind)
       /\ PluginsGone' <=> PluginsGone
       /\ Refused' <=> Refused
       /\ Undone' <=> Undone
       /\ reservation' = reservation /\ shape' = shape
  /\ UNCHANGED ptyVars =>
       /\ PtyCommitted' <=> PtyCommitted
       /\ PtyUndone' <=> PtyUndone
       /\ TerminalsGone' <=> TerminalsGone
       /\ TerminalsFit' <=> TerminalsFit
       /\ ledger' = ledger
  /\ UNCHANGED <<pluginVars, ptyVars>> => (PluginsFit' <=> PluginsFit)
BY DEF pluginVars, ptyVars, Activated, HasReceipt, PluginsGone, Refused, Undone, PtyCommitted,
       PtyUndone, TerminalsGone, TerminalsFit, PluginsFit

\* A coordinator that has a call in a channel waits for its answer.
LEMMA CallHeads ==
  ASSUME IInv, Later
  PROVE  /\ toPlugin # <<>> =>
              /\ Head(toPlugin).is \in Kinds /\ Asked(Head(toPlugin).is)
              /\ \A by \in Coordinators :
                   by = Head(toPlugin).by => coord[by].call = Head(toPlugin).is
              /\ \A call : (\E i \in DOMAIN Tail(toPlugin) : Tail(toPlugin)[i].is = call)
                             => \E i \in DOMAIN toPlugin : toPlugin[i].is = call
         /\ toPty # <<>> =>
              /\ Head(toPty).is \in PtyCalls /\ AskedPty(Head(toPty).is)
              /\ \A by \in Coordinators : by = Head(toPty).by => coord[by].call = Head(toPty).is
              /\ \A call : (\E i \in DOMAIN Tail(toPty) : Tail(toPty)[i].is = call)
                             => \E i \in DOMAIN toPty : toPty[i].is = call
<1>1. TypeInv /\ NoMoreReports /\ CallInv /\ toPlugin \in Seq(PluginRequests) /\ toPty \in Seq(PtyRequests)
  BY DEF IInv, Later, TypeInv, RequestTypes
<1>2. ASSUME toPlugin # <<>>
      PROVE  /\ Head(toPlugin).is \in Kinds /\ Asked(Head(toPlugin).is)
             /\ \A by \in Coordinators :
                  by = Head(toPlugin).by => coord[by].call = Head(toPlugin).is
             /\ \A call : (\E i \in DOMAIN Tail(toPlugin) : Tail(toPlugin)[i].is = call)
                            => \E i \in DOMAIN toPlugin : toPlugin[i].is = call
  <2>1. /\ 1 \in DOMAIN toPlugin /\ Head(toPlugin) = toPlugin[1]
        /\ toPlugin[1].is \in Kinds
        /\ \A i \in DOMAIN Tail(toPlugin) : i + 1 \in DOMAIN toPlugin /\ Tail(toPlugin)[i] = toPlugin[i + 1]
    BY <1>1, <1>2, ChannelKinds DEF NoMoreReports
  <2>2. \A by \in Coordinators : toPlugin[1].by = by => coord[by].call = toPlugin[1].is
    BY <1>1, <2>1 DEF CallInv, Waiting, Waits
  <2>3. Asked(toPlugin[1].is)
    BY <2>1 DEF Asked
  <2>4. \A call : (\E i \in DOMAIN Tail(toPlugin) : Tail(toPlugin)[i].is = call)
                    => \E i \in DOMAIN toPlugin : toPlugin[i].is = call
    <3>1. ASSUME NEW call, NEW i \in DOMAIN Tail(toPlugin), Tail(toPlugin)[i].is = call
          PROVE  \E j \in DOMAIN toPlugin : toPlugin[j].is = call
      <4>1. i + 1 \in DOMAIN toPlugin /\ toPlugin[i + 1].is = call
        BY <2>1, <3>1
      <4>2. QED
        BY <4>1
    <3>2. QED
      BY <3>1
  <2>5. Head(toPlugin).is \in Kinds /\ Asked(Head(toPlugin).is)
    BY <2>1, <2>3, Zenon
  <2>6. \A by \in Coordinators : by = Head(toPlugin).by => coord[by].call = Head(toPlugin).is
    BY <2>1, <2>2, Zenon
  <2>7. QED
    BY <2>4, <2>5, <2>6, Zenon
<1>3. ASSUME toPty # <<>>
      PROVE  /\ Head(toPty).is \in PtyCalls /\ AskedPty(Head(toPty).is)
             /\ \A by \in Coordinators : by = Head(toPty).by => coord[by].call = Head(toPty).is
             /\ \A call : (\E i \in DOMAIN Tail(toPty) : Tail(toPty)[i].is = call)
                            => \E i \in DOMAIN toPty : toPty[i].is = call
  <2>1. /\ 1 \in DOMAIN toPty /\ Head(toPty) = toPty[1]
        /\ toPty[1].is \in PtyCalls
        /\ \A i \in DOMAIN Tail(toPty) : i + 1 \in DOMAIN toPty /\ Tail(toPty)[i] = toPty[i + 1]
    BY <1>1, <1>3, ChannelKinds DEF NoMoreReports
  <2>2. \A by \in Coordinators : toPty[1].by = by => coord[by].call = toPty[1].is
    BY <1>1, <2>1 DEF CallInv, Waiting, Waits
  <2>3. AskedPty(toPty[1].is)
    BY <2>1 DEF AskedPty
  <2>4. \A call : (\E i \in DOMAIN Tail(toPty) : Tail(toPty)[i].is = call)
                    => \E i \in DOMAIN toPty : toPty[i].is = call
    <3>1. ASSUME NEW call, NEW i \in DOMAIN Tail(toPty), Tail(toPty)[i].is = call
          PROVE  \E j \in DOMAIN toPty : toPty[j].is = call
      <4>1. i + 1 \in DOMAIN toPty /\ toPty[i + 1].is = call
        BY <2>1, <3>1
      <4>2. QED
        BY <4>1
    <3>2. QED
      BY <3>1
  <2>5. Head(toPty).is \in PtyCalls /\ AskedPty(Head(toPty).is)
    BY <2>1, <2>3, Zenon
  <2>6. \A by \in Coordinators : by = Head(toPty).by => coord[by].call = Head(toPty).is
    BY <2>1, <2>2, Zenon
  <2>7. QED
    BY <2>4, <2>5, <2>6, Zenon
<1>4. QED
  BY <1>2, <1>3, Zenon

\* The Plugin thread keeps the invariant.
LEMMA OutcomePlugin ==
  ASSUME IInv, Later, OutcomeInv, PluginReserves \/ PluginResolves \/ PluginLoaderFails
  PROVE  OutcomeInv'
<1> DEFINE kind == IF PluginResolves THEN Head(toPlugin).is ELSE "none"
           by == IF PluginResolves THEN Head(toPlugin).by ELSE "nobody"
<1>1. /\ TypeInv /\ PluginTypeOK /\ PluginInv /\ NoMoreReports /\ CallInv
      /\ reply \in [Coordinators -> {"none"} \cup PluginAcks \cup PtyAcks]
      /\ PluginsFit /\ TerminalsFit /\ CallsFit /\ AnswersFit /\ ReportsFit /\ EndFits
      /\ tab # "absent"
  BY DEF IInv, Later, TypeInv, CoordTypes, OutcomeInv
<1>2. ASSUME PluginReserves
      PROVE  FALSE
  <2>1. toPlugin # <<>> /\ Head(toPlugin).is = "NewTab"
    BY <1>2 DEF PluginReserves, NewTab
  <2>2. QED
    BY <1>1, <2>1, ChannelKinds DEF NoMoreReports
<1>3. UNCHANGED <<ptyVars, screenVars, coord, result, toPty, toScreen>>
  BY <1>2 DEF PluginResolves, PluginLoaderFails, coordVars
<1>4. \E ack : PluginsMove(kind, ack) /\ \A b \in Coordinators : reply'[b] = IF b = by THEN ack ELSE reply[b]
  <2>1. CASE PluginResolves
    <3>1. PICK fails \in SUBSET (Faults \cap PluginFaults), ack \in PluginAcks :
            ResolvePlugins(kind, fails, ack) /\ Answer(by, ack) /\ toPlugin # <<>>
      BY <2>1 DEF PluginResolves
    <3>2. kind \in Kinds /\ Asked(kind)
      BY <2>1, <3>1, CallHeads
    <3>3. Requestable(kind)
      BY <1>1, <3>2 DEF Requestable, CallsFit, PluginInv, Cannot, NeverAsked
    <3> HIDE DEF kind, by
    <3>4. PluginsMove(kind, ack)
      BY <1>1, <1>3, <3>1, <3>2, <3>3, PluginsMoved
    <3>5. \A b \in Coordinators : reply'[b] = IF b = by THEN ack ELSE reply[b]
      BY <1>1, <3>1 DEF Answer
    <3>6. QED
      BY <3>4, <3>5
  <2>2. CASE PluginLoaderFails /\ ~PluginResolves
    <3>1. PICK fails : LoaderFails(fails)
      BY <2>2 DEF PluginLoaderFails
    <3>2. PluginsMove("none", "none")
      BY <1>1, <1>3, <3>1, LoadersMoved
    <3>3. reply' = reply /\ kind = "none" /\ by = "nobody"
      BY <2>2 DEF PluginLoaderFails, coordVars
    <3>4. QED
      BY <3>2, <3>3 DEF Coordinators
  <2>3. QED
    BY <1>2, <2>1, <2>2
<1>5. /\ \A b \in Coordinators : b = by => coord[b].call = kind
      /\ \A call : (\E i \in DOMAIN toPlugin' : toPlugin'[i].is = call)
                     => \E i \in DOMAIN toPlugin : toPlugin[i].is = call
  <2>1. CASE PluginResolves
    <3>1. toPlugin # <<>> /\ toPlugin' = Tail(toPlugin)
      BY <2>1 DEF PluginResolves
    <3>2. QED
      BY <2>1, <3>1, CallHeads
  <2>2. CASE PluginLoaderFails /\ ~PluginResolves
    BY <2>2 DEF PluginLoaderFails, Coordinators
  <2>3. QED
    BY <1>2, <2>1, <2>2
<1> HIDE DEF kind, by
<1>6. PICK ack : /\ PluginsMove(kind, ack)
                 /\ \A b \in Coordinators : reply'[b] = IF b = by THEN ack ELSE reply[b]
  BY <1>4
<1>7. /\ PluginsGone => PluginsGone'
      /\ Refused => Refused'
      /\ Undone => Undone'
      /\ Activated => Activated'
      /\ reservation' = "Reserved" => reservation = "Reserved"
  BY <1>6, Unmoved DEF PluginsMove, Refused, Undone
<1>8. TerminalsFit' /\ (PtyUndone' <=> PtyUndone) /\ (PtyCommitted' <=> PtyCommitted)
      /\ (TerminalsGone' <=> TerminalsGone) /\ ledger' = ledger
  BY <1>1, <1>3, Unmoved
<1>9. \A call : /\ Asked(call)' => Asked(call)
                /\ AskedPty(call)' => AskedPty(call)
  BY <1>3, <1>5 DEF Asked, AskedPty
<1>10. CallsFit'
  BY <1>1, <1>3, <1>7, <1>8, <1>9 DEF CallsFit, Activating, screenVars
<1>11. AnswersFit'
  <2> SUFFICES ASSUME NEW b \in Coordinators
               PROVE  /\ coord'[b].call = "Activate" /\ reply'[b] = "ActivationRolledBack" => Refused'
                      /\ coord'[b].call = "Release" /\ reply'[b] = "Released" => Refused'
                      /\ coord'[b].call = "Committed" /\ reply'[b] = "PtyRolledBack" => PtyUndone'
                      /\ coord'[b].call = "Rejected" /\ reply'[b] = "Resolved" =>
                           ledger'.at = "receipt" /\ ledger'.outcome # Committed
                      /\ coord'[b].call = "Compensate" /\ reply'[b] = "Compensated" => Undone'
    BY DEF AnswersFit
  <2>1. CASE b = by
    <3>1. coord'[b].call = kind /\ reply'[b] = ack
      BY <1>3, <1>5, <1>6, <2>1
    <3>2. kind \notin PtyCalls
      <4>1. CASE PluginResolves
        <5>1. toPlugin # <<>>
          BY <4>1 DEF PluginResolves
        <5>2. QED
          BY <4>1, <5>1, CallHeads DEF kind, Kinds, PtyCalls
      <4>2. QED
        BY <4>1 DEF kind, PtyCalls
    <3>3. QED
      BY <1>6, <3>1, <3>2 DEF PluginsMove, PtyCalls
  <2>2. CASE b # by
    BY <1>1, <1>3, <1>6, <1>7, <1>8, <2>2 DEF AnswersFit
  <2>3. QED
    BY <2>1, <2>2
<1>12. ReportsFit'
  BY <1>1, <1>3, <1>7, <1>8 DEF ReportsFit, CleanFits, screenVars
<1>13. EndFits'
  BY <1>1, <1>3, <1>7, <1>8 DEF EndFits, Over, screenVars
<1>14. ReservedFits'
  BY <1>1, <1>3, <1>5 DEF ReservedFits, NoMoreReports, screenVars
<1>15. PluginsFit'
  BY <1>6 DEF PluginsMove
<1>16. QED
  BY <1>8, <1>10, <1>11, <1>12, <1>13, <1>14, <1>15 DEF OutcomeInv

\* The PTY thread keeps the invariant.
LEMMA OutcomePty ==
  ASSUME IInv, Later, OutcomeInv, PtyPrepares \/ PtyResolves \/ PtyServesOthers
  PROVE  OutcomeInv'
<1> DEFINE call == IF PtyResolves THEN Head(toPty).is ELSE "none"
           by == IF PtyResolves THEN Head(toPty).by ELSE "nobody"
           outcome == IF PtyResolves THEN PtyOutcome(Head(toPty)) ELSE Rejected(NoText)
<1>1. /\ TypeInv /\ NoMoreReports /\ CallInv /\ PluginInv /\ toScreen \in Seq(Reports)
      /\ reply \in [Coordinators -> {"none"} \cup PluginAcks \cup PtyAcks]
      /\ PluginsFit /\ TerminalsFit /\ CallsFit /\ AnswersFit /\ ReportsFit /\ EndFits
      /\ tab # "absent"
  BY DEF IInv, Later, TypeInv, CoordTypes, ReportTypes, OutcomeInv
<1>2. ASSUME PtyPrepares
      PROVE  FALSE
  <2>1. toPty # <<>> /\ Head(toPty).is = "NewTab"
    BY <1>2 DEF PtyPrepares, NewTab
  <2>2. QED
    BY <1>1, <2>1, ChannelKinds DEF NoMoreReports
<1>3. UNCHANGED <<pluginVars, screenVars, coord, result, toPlugin>>
  BY <1>2 DEF PtyResolves, PtyServesOthers, coordVars
<1>4. /\ outcome # NoOutcome
      /\ PtyResolves => (call = "Committed" <=> outcome = Committed)
  BY DEF PtyOutcome, Committed, Rejected, NoOutcome
<1>5. \E ack : TerminalsMove(outcome, ack) /\ \A b \in Coordinators : reply'[b] = IF b = by THEN ack ELSE reply[b]
  <2>1. CASE PtyResolves
    <3>1. PICK fails \in SUBSET (Faults \cap PtyFaults), paid \in BOOLEAN, ack \in PtyAcks :
            ResolveCommit(outcome, fails, paid, ack) /\ Answer(by, ack)
      BY <2>1 DEF PtyResolves
    <3> HIDE DEF outcome, by
    <3>2. TerminalsMove(outcome, ack)
      BY <1>1, <1>4, <3>1, TerminalsMoved
    <3>3. \A b \in Coordinators : reply'[b] = IF b = by THEN ack ELSE reply[b]
      BY <1>1, <3>1 DEF Answer
    <3>4. QED
      BY <3>2, <3>3
  <2>2. CASE PtyServesOthers /\ ~PtyResolves
    <3>1. RetryPreparationDebt(TRUE) /\ reply' = reply
      BY <2>2 DEF PtyServesOthers, coordVars
    <3> HIDE DEF outcome
    <3>2. TerminalsMove(outcome, "none")
      BY <1>1, <1>4, <3>1, TerminalsMoved
    <3>3. by = "nobody"
      BY <2>2
    <3>4. QED
      BY <3>1, <3>2, <3>3 DEF Coordinators
  <2>3. QED
    BY <1>2, <2>1, <2>2
<1>6. /\ PtyResolves => call \in PtyCalls /\ AskedPty(call)
      /\ \A b \in Coordinators : b = by => coord[b].call = call
      /\ \A x : (\E i \in DOMAIN toPty' : toPty'[i].is = x) => \E i \in DOMAIN toPty : toPty[i].is = x
  <2>1. CASE PtyResolves
    <3>1. toPty # <<>> /\ toPty' = Tail(toPty)
      BY <2>1 DEF PtyResolves
    <3>2. QED
      BY <2>1, <3>1, CallHeads
  <2>2. CASE PtyServesOthers /\ ~PtyResolves
    BY <2>2 DEF PtyServesOthers, Coordinators
  <2>3. QED
    BY <1>2, <2>1, <2>2
\* a debt that is paid leaves nothing
<1>7. \A i \in DOMAIN toScreen' :
        \/ i \in DOMAIN toScreen /\ toScreen'[i] = toScreen[i]
        \/ ledger'.at = "absent" /\ toScreen'[i] = PreparationFailed(TRUE, TRUE)
  <2>1. PICK paid \in BOOLEAN :
          /\ toScreen' = toScreen \o Paid(ledger.at = "preparationDebt", paid)
          /\ ledger.at = "preparationDebt" => RetryPreparationDebt(paid)
    <3>1. CASE PtyResolves
      <4>1. PICK fails \in SUBSET (Faults \cap PtyFaults), paid \in BOOLEAN, ack \in PtyAcks :
              /\ ResolveCommit(PtyOutcome(Head(toPty)), fails, paid, ack)
              /\ toScreen' = toScreen \o Paid(ledger.at = "preparationDebt", paid)
        BY <3>1 DEF PtyResolves
      <4>2. ledger.at = "preparationDebt" => RetryPreparationDebt(paid)
        BY <4>1
        DEF ResolveCommit, ReplayCommit, RetryCleanup, StillPreparing, UnknownCommit, Commit, Reject
      <4>3. QED
        BY <4>1, <4>2
    <3>2. CASE PtyServesOthers
      <4>1. /\ ledger.at = "preparationDebt" /\ RetryPreparationDebt(TRUE)
            /\ toScreen' = toScreen \o Paid(TRUE, TRUE)
        BY <3>2 DEF PtyServesOthers
      <4>2. Paid(ledger.at = "preparationDebt", TRUE) = Paid(TRUE, TRUE)
        BY <4>1 DEF Paid
      <4>3. QED
        BY <4>1, <4>2
    <3>3. QED
      BY <1>2, <3>1, <3>2
  <2>2. CASE ledger.at = "preparationDebt" /\ paid
    <3> DEFINE m == PreparationFailed(TRUE, TRUE)
    <3>1. toScreen' = Append(toScreen, m)
      <4>1. Paid(ledger.at = "preparationDebt", paid) = <<m>>
        BY <2>2 DEF Paid
      <4> HIDE DEF m
      <4>2. toScreen' = toScreen \o <<m>>
        BY <2>1, <4>1, Zenon
      <4>3. toScreen \o <<m>> = Append(toScreen, m)
        BY <1>1
      <4>4. QED
        BY <4>2, <4>3, Zenon
    <3>2. ledger'.at = "absent"
      BY <2>1, <2>2 DEF RetryPreparationDebt, NoEntry, Entry
    <3> HIDE DEF m
    <3>3. \A i \in DOMAIN toScreen' : (i \in DOMAIN toScreen /\ toScreen'[i] = toScreen[i]) \/ toScreen'[i] = m
      BY <1>1, <3>1
    <3>4. QED
      BY <3>2, <3>3 DEF m
  <2>3. CASE ~(ledger.at = "preparationDebt" /\ paid)
    <3>1. toScreen' = toScreen
      <4>1. Paid(ledger.at = "preparationDebt", paid) = <<>>
        BY <2>3 DEF Paid
      <4>2. toScreen' = toScreen \o <<>>
        BY <2>1, <4>1, Zenon
      <4>3. toScreen \o <<>> = toScreen
        BY <1>1
      <4>4. QED
        BY <4>2, <4>3, Zenon
    <3>2. QED
      BY <3>1
  <2>4. QED
    BY <2>2, <2>3
<1> HIDE DEF call, by, outcome
<1>8. PICK ack : /\ TerminalsMove(outcome, ack)
                 /\ \A b \in Coordinators : reply'[b] = IF b = by THEN ack ELSE reply[b]
  BY <1>5
<1>9. /\ ledger.at \in {"absent", "receipt"} => UNCHANGED ptyVars
      /\ PtyUndone => PtyUndone'
      /\ TerminalsGone => TerminalsGone'
      /\ ledger.at = "absent" => ledger'.at = "absent"
  <2>1. ledger.at \in {"absent", "receipt"} => UNCHANGED ptyVars
    BY <1>8 DEF TerminalsMove
  <2>2. QED
    BY <2>1, Unmoved DEF PtyUndone, TerminalsGone, ptyVars
<1>10. /\ PluginsGone' <=> PluginsGone
       /\ Refused' <=> Refused
       /\ Undone' <=> Undone
       /\ Activated' <=> Activated
       /\ reservation' = reservation
       /\ UNCHANGED <<receipts, shape, runtimes, projectors, tab, active, quarantine, decision>>
       /\ Activating' <=> Activating
       /\ \A kind : HasReceipt(kind)' <=> HasReceipt(kind)
  BY <1>3, Unmoved DEF pluginVars, screenVars, Activating
<1>11. \A x : /\ Asked(x)' => Asked(x)
              /\ AskedPty(x)' => AskedPty(x)
  BY <1>3, <1>6 DEF Asked, AskedPty
<1>12. outcome = Committed => Activated
  <2>1. CASE PtyResolves
    BY <1>1, <1>4, <1>6, <2>1 DEF CallsFit
  <2>2. CASE ~PtyResolves
    BY <2>2 DEF outcome, Committed, Rejected
  <2>3. QED
    BY <2>1, <2>2
<1>13. CallsFit'
  <2>1. AskedPty("Committed")' \/ PtyCommitted' => Activated'
    BY <1>1, <1>8, <1>10, <1>11, <1>12 DEF CallsFit, TerminalsMove
  <2>2. AskedPty("Rejected")' => Refused'
    BY <1>1, <1>10, <1>11 DEF CallsFit
  <2>3. Asked("Compensate")' => Activated' /\ PtyUndone'
    BY <1>1, <1>9, <1>10, <1>11 DEF CallsFit
  <2>4. (Asked("Activate")' \/ Activating') /\ reservation' = "Reserved" => ledger'.at = "pending"
    <3>1. SUFFICES ASSUME Asked("Activate") \/ Activating, reservation = "Reserved"
                   PROVE  ledger'.at = "pending"
      BY <1>10, <1>11
    <3>2. ledger.at = "pending" /\ ~Activated /\ ~Refused
      BY <1>1, <3>1 DEF CallsFit, PluginInv, Activated, HasReceipt, NoReceipt, Refused, PluginsGone
    <3>3. ~PtyServesOthers
      BY <3>2 DEF PtyServesOthers
    <3>4. PtyResolves /\ call \in {"Committed", "Rejected"} /\ AskedPty(call)
      BY <1>2, <1>6, <3>3 DEF PtyCalls
    <3>5. QED
      BY <1>1, <3>2, <3>4 DEF CallsFit
  <2>5. QED
    BY <2>1, <2>2, <2>3, <2>4 DEF CallsFit
<1>14. AnswersFit'
  <2> SUFFICES ASSUME NEW b \in Coordinators
               PROVE  /\ coord'[b].call = "Activate" /\ reply'[b] = "ActivationRolledBack" => Refused'
                      /\ coord'[b].call = "Release" /\ reply'[b] = "Released" => Refused'
                      /\ coord'[b].call = "Committed" /\ reply'[b] = "PtyRolledBack" => PtyUndone'
                      /\ coord'[b].call = "Rejected" /\ reply'[b] = "Resolved" =>
                           ledger'.at = "receipt" /\ ledger'.outcome # Committed
                      /\ coord'[b].call = "Compensate" /\ reply'[b] = "Compensated" => Undone'
    BY DEF AnswersFit
  <2>1. CASE b = by
    <3>1. coord'[b].call = call /\ reply'[b] = ack /\ PtyResolves
      <4>1. ~PtyResolves => by \notin Coordinators
        BY DEF by, Coordinators
      <4>2. QED
        BY <1>3, <1>6, <1>8, <2>1, <4>1
    <3>2. call \in {"Committed", "Rejected"} /\ (call = "Committed" <=> outcome = Committed)
      BY <1>4, <1>6, <3>1 DEF PtyCalls
    <3>3. QED
      BY <1>8, <3>1, <3>2 DEF TerminalsMove
  <2>2. CASE b # by
    <3>1. coord'[b] = coord[b] /\ reply'[b] = reply[b]
      BY <1>3, <1>8, <2>2
    <3>2. ledger.at = "receipt" => ledger' = ledger
      BY <1>9 DEF ptyVars
    <3>3. QED
      BY <1>1, <1>9, <1>10, <3>1, <3>2 DEF AnswersFit
  <2>3. QED
    BY <2>1, <2>2
<1>15. ReportsFit'
  <2>1. /\ PreparationFailed(TRUE, TRUE).release /\ PreparationFailed(TRUE, TRUE).ptyClean
        /\ PreparationFailed(TRUE, TRUE).is = "PreparationFailed"
    BY DEF PreparationFailed
  <2>2. ASSUME NEW i \in DOMAIN toScreen', toScreen'[i].is = "PreparationFailed"
        PROVE  /\ toScreen'[i].ptyClean => ledger'.at = "absent"
               /\ ~toScreen'[i].release => toScreen'[i].ptyClean /\ Refused'
    <3>1. CASE i \in DOMAIN toScreen /\ toScreen'[i] = toScreen[i]
      BY <1>1, <1>9, <1>10, <2>2, <3>1 DEF ReportsFit
    <3>2. CASE ledger'.at = "absent" /\ toScreen'[i] = PreparationFailed(TRUE, TRUE)
      BY <2>1, <3>2, Zenon
    <3>3. QED
      BY <1>7, <3>1, <3>2
  <2>3. CleanFits(quarantine)' /\ \A b \in Coordinators : CleanFits(coord[b])'
    BY <1>1, <1>3, <1>9, <1>10 DEF ReportsFit, CleanFits
  <2>4. QED
    BY <2>2, <2>3 DEF ReportsFit
<1>16. EndFits'
  BY <1>1, <1>3, <1>9, <1>10 DEF EndFits, Over
<1>17. ReservedFits'
  <2>1. \A i \in DOMAIN toScreen' : toScreen'[i].is # "ApplyLayout"
    <3>1. PreparationFailed(TRUE, TRUE).is # "ApplyLayout"
      BY DEF PreparationFailed
    <3>2. QED
      BY <1>1, <1>7, <3>1, Zenon DEF NoMoreReports
  <2>2. QED
    BY <1>1, <1>3, <1>6, <1>10, <2>1 DEF ReservedFits, NoMoreReports
<1>18. PluginsFit'
  BY <1>1, <1>9, <1>10 DEF PluginsFit
<1>19. QED
  BY <1>8, <1>13, <1>14, <1>15, <1>16, <1>17, <1>18 DEF OutcomeInv, TerminalsMove

-----------------------------------------------------------------------------
(* Screen and its worker keep the invariant, once Screen has had the report. *)

\* The channels after a call, which may be none.
AskedBoth(call) ==
  /\ Called(call)
  /\ \A x : AskedPty(x)' => AskedPty(x) \/ x = call

\* A coordinator's next call, if any, is what it asks for.
LEMMA RequestedBoth ==
  ASSUME IInv, Later, NEW by \in Coordinators, NEW call, call # "NewTab",
         NEW p \in Seq(PluginRequests), NEW q \in Seq(PtyRequests),
         Stripped(p, toPlugin, by), Stripped(q, toPty, by),
         Extended(toPlugin', p, by, call), Extended(toPty', q, by, call),
         reply'[by] = "none", coord'[by].call = call,
         \A b \in Coordinators : b # by => coord'[b] = coord[b] /\ reply'[b] = reply[b]
  PROVE  AskedBoth(call)
<1>1. Called(call)
  BY Requested
<1>2. SameKinds(toPty', toPty, call)
  BY OneRequest
<1>3. ASSUME NEW x, AskedPty(x)', x # call
      PROVE  AskedPty(x)
  <2>1. CASE \E i \in DOMAIN toPty' : toPty'[i].is = x
    BY <1>2, <1>3, <2>1 DEF AskedPty, SameKinds
  <2>2. CASE \E b \in Coordinators : coord'[b].call = x
    BY <1>3, <2>2 DEF AskedPty
  <2>3. QED
    BY <1>3, <2>1, <2>2 DEF AskedPty
<1>4. QED
  BY <1>1, <1>3 DEF AskedBoth

\* What must be the case for a call, and for Screen to draw a conclusion.
LEMMA OutcomeCall ==
  ASSUME IInv, Later, OutcomeInv, NEW by \in Coordinators, NEW call, AskedBoth(call),
         \A i \in DOMAIN toScreen' : \E j \in DOMAIN toScreen : toScreen'[i] = toScreen[j],
         reply'[by] = "none",
         \A b \in Coordinators : b # by => coord'[b] = coord[b] /\ reply'[b] = reply[b],
         UNCHANGED <<pluginVars, ptyVars>>, tab' # "absent",
         CleanFits(coord[by])', CleanFits(quarantine)',
         call = "Committed" => Activated,
         call = "Rejected" => Refused,
         call = "Compensate" => Activated /\ PtyUndone,
         call = "Activate" => Activating, Activating' => Activating,
         EndFits'
  PROVE  OutcomeInv'
<1>1. /\ PluginsFit /\ TerminalsFit /\ CallsFit /\ AnswersFit /\ ReportsFit /\ NoMoreReports
  BY DEF OutcomeInv, Later
<1>2. PluginsFit' /\ TerminalsFit'
  BY <1>1, Unmoved
<1>3. /\ Activated' <=> Activated
      /\ Refused' <=> Refused
      /\ Undone' <=> Undone
      /\ PtyCommitted' <=> PtyCommitted
      /\ PtyUndone' <=> PtyUndone
      /\ reservation' = reservation /\ ledger' = ledger
  BY Unmoved
<1>4. CallsFit'
  <2>1. \A x : (Asked(x)' => Asked(x) \/ x = call) /\ (AskedPty(x)' => AskedPty(x) \/ x = call)
    BY DEF AskedBoth, Called
  <2>2. QED
    BY <1>1, <1>3, <2>1 DEF CallsFit
<1>5. AnswersFit'
  <2> SUFFICES ASSUME NEW b \in Coordinators
               PROVE  /\ coord'[b].call = "Activate" /\ reply'[b] = "ActivationRolledBack" => Refused'
                      /\ coord'[b].call = "Release" /\ reply'[b] = "Released" => Refused'
                      /\ coord'[b].call = "Committed" /\ reply'[b] = "PtyRolledBack" => PtyUndone'
                      /\ coord'[b].call = "Rejected" /\ reply'[b] = "Resolved" =>
                           ledger'.at = "receipt" /\ ledger'.outcome # Committed
                      /\ coord'[b].call = "Compensate" /\ reply'[b] = "Compensated" => Undone'
    BY DEF AnswersFit
  <2>1. CASE b = by
    BY <2>1
  <2>2. CASE b # by
    BY <1>1, <1>3, <2>2 DEF AnswersFit
  <2>3. QED
    BY <2>1, <2>2
<1>6. ReportsFit'
  <2>1. \A b \in Coordinators : CleanFits(coord[b])'
    <3> TAKE b \in Coordinators
    <3>1. CASE b = by
      BY <3>1
    <3>2. CASE b # by
      BY <1>1, <1>3, <3>2 DEF ReportsFit, CleanFits
    <3>3. QED
      BY <3>1, <3>2
  <2>2. QED
    BY <1>1, <1>3, <2>1 DEF ReportsFit
<1>7. ReservedFits'
  BY <1>1 DEF ReservedFits, NoMoreReports, AskedBoth, Called
<1>8. QED
  BY <1>2, <1>4, <1>5, <1>6, <1>7 DEF OutcomeInv

\* What a coordination was started with is what it goes on with.
LEMMA CleanKept ==
  /\ Idle.intent = "none" /\ CleanFits(Idle)
  /\ \A c \in Plans : \A call, attempt, text :
       CleanFits(c) => /\ CleanFits([c EXCEPT !.call = call, !.attempt = attempt, !.text = text])
                       /\ CleanFits([c EXCEPT !.attempt = attempt])
                       /\ CleanFits([c EXCEPT !.call = call, !.attempt = attempt])
                       /\ CleanFits([c EXCEPT !.call = call])
BY DEF CleanFits, Idle, Plan, Plans

\* A rollback is certified only of what neither Plugin nor PTY has any more.
LEMMA Certified ==
  ASSUME IInv, Later, OutcomeInv, NEW by \in Coordinators,
         Outcome(coord[by], reply[by]) = "Rollback"
  PROVE  PluginsGone /\ TerminalsGone
<1> DEFINE c == coord[by]
           ack == reply[by]
<1>1. TerminalsFit /\ CallsFit /\ AnswersFit /\ CleanFits(c)
  BY DEF OutcomeInv, ReportsFit
<1>2. CASE Preparing(c)
  <2>1. ack = "Released" /\ c.ptyClean /\ c.intent = "PreparationFailure" /\ c.call = "Release"
    BY <1>2 DEF Outcome, PreparationCertified, Preparing
  <2>2. Refused
    BY <1>1, <2>1 DEF AnswersFit
  <2>3. ledger.at = "absent"
    BY <1>1, <2>1 DEF CleanFits
  <2>4. QED
    BY <1>1, <2>2, <2>3 DEF Refused, TerminalsGone, TerminalsFit
<1>3. CASE ~Preparing(c)
  <2>1. <<c.call, ack, "Rollback">> \in Certifies
    <3>1. \E o \in {"Commit", "Rollback"} : <<c.call, ack, o>> \in Certifies
      BY <1>3 DEF Outcome
    <3>2. (CHOOSE o \in {"Commit", "Rollback"} : <<c.call, ack, o>> \in Certifies) = "Rollback"
      BY <1>3, <3>1 DEF Outcome
    <3>3. QED
      BY <3>1, <3>2
  <2>2. (c.call = "Rejected" /\ ack = "Resolved") \/ (c.call = "Compensate" /\ ack = "Compensated")
    BY <2>1 DEF Certifies
  <2>3. CASE c.call = "Rejected" /\ ack = "Resolved"
    <3>1. ledger.at = "receipt" /\ ledger.outcome # Committed /\ Refused
      BY <1>1, <2>3 DEF AnswersFit, CallsFit, AskedPty
    <3>2. ~PtyCommitted
      BY <3>1 DEF PtyCommitted, Entry
    <3>3. QED
      BY <1>1, <3>1, <3>2 DEF TerminalsFit, TerminalsGone, Refused
  <2>4. CASE c.call = "Compensate" /\ ack = "Compensated"
    <3>1. PtyUndone /\ Undone
      BY <1>1, <2>4 DEF AnswersFit, CallsFit, Asked
    <3>2. ~PtyCommitted
      BY <3>1 DEF PtyCommitted, PtyUndone, Entry
    <3>3. QED
      BY <1>1, <3>1, <3>2 DEF TerminalsFit, TerminalsGone, Undone, PtyUndone
  <2>5. QED
    BY <2>2, <2>3, <2>4
<1>4. QED
  BY <1>2, <1>3

\* What Screen does with an outcome leaves nothing of what it gives up.
LEMMA Leaves ==
  ASSUME IInv, Later, OutcomeInv, NEW outcome \in {"Commit", "Rollback", "Unknown"},
         at = "coordinating", Conclude(coord["screen"], outcome),
         outcome = "Rollback" => PluginsGone /\ TerminalsGone,
         UNCHANGED <<pluginVars, ptyVars, result>>
  PROVE  EndFits' /\ CleanFits(quarantine)'
<1> DEFINE c == coord["screen"]
<1>1. /\ c \in Plans /\ active /\ result \in {"none", "Commit", "Rollback", "Unknown"}
      /\ CleanFits(c) /\ CleanFits(quarantine) /\ EndFits /\ tab # "absent"
      /\ result = "none"
  BY DEF IInv, Later, TypeInv, CoordTypes, ScreenInv, Coordinators, OutcomeInv, ReportsFit
<1>2. /\ PluginsGone' <=> PluginsGone
      /\ TerminalsGone' <=> TerminalsGone
      /\ ledger' = ledger
  BY Unmoved
<1> HIDE DEF c
<1>3. CASE CommitTab
  <2>1. quarantine' = Idle /\ tab' = "committed" /\ decision' = "Committed"
    BY <1>3 DEF CommitTab
  <2>2. CleanFits(quarantine)'
    BY <2>1, CleanKept DEF CleanFits
  <2>3. QED
    BY <1>1, <2>1, <2>2 DEF EndFits
<1>4. CASE (RollbackTab \/ DiscardTab) /\ outcome = "Rollback"
  <2>1. quarantine' \in {Idle, quarantine} /\ tab' \notin {"pending", "prepared"}
    <3>1. DiscardedTab \in {"discarded", "closed"}
      BY DEF DiscardedTab, Current
    <3>2. QED
      BY <1>4, <3>1 DEF RollbackTab, DiscardTab
  <2>2. CleanFits(quarantine)'
    BY <1>1, <1>2, <2>1, CleanKept DEF CleanFits
  <2>3. QED
    BY <1>1, <1>2, <1>4, <2>1, <2>2 DEF EndFits
<1>5. CASE QuarantineTab(c)
  <2>1. UNCHANGED <<tab, active, decision>> /\ quarantine' = [c EXCEPT !.call = "none", !.attempt = 0]
    BY <1>5 DEF QuarantineTab
  <2>2. CleanFits(quarantine)'
    <3>1. CleanFits([c EXCEPT !.call = "none", !.attempt = 0])
      BY <1>1, CleanKept
    <3>2. QED
      BY <1>2, <2>1, <3>1 DEF CleanFits
  <2>3. QED
    BY <1>1, <2>1, <2>2 DEF EndFits, Over
<1>6. CASE UNCHANGED screenVars
  BY <1>1, <1>2, <1>6 DEF EndFits, Over, screenVars, CleanFits
<1>7. QED
  BY <1>3, <1>4, <1>5, <1>6 DEF Conclude, ConcludeApply, ConcludePreparation, c

\* The steps of a coordinator.
LEMMA OutcomeCoordinates ==
  ASSUME IInv, Later, OutcomeInv, NEW by \in Coordinators,
         (WorkerStarts /\ by = "worker") \/ TakeReply(by) \/ Timeout(by)
  PROVE  OutcomeInv'
<1> USE Coordination
<1> DEFINE c == coord[by]
           ack == reply[by]
<1>1. /\ ScreenInv /\ CallInv /\ ReplyInv /\ tab # "absent"
      /\ toPlugin \in Seq(PluginRequests) /\ toPty \in Seq(PtyRequests)
      /\ coord \in [Coordinators -> Plans]
      /\ c \in Plans /\ c.intent # "none"
      /\ reply \in [Coordinators -> {"none"} \cup PluginAcks \cup PtyAcks]
      /\ "screen" \in Coordinators /\ "worker" \in Coordinators
      /\ "none" \notin Calls /\ "sleep" \notin Calls /\ "NewTab" \notin Calls
  <2>1. ack # "none" \/ c.call \in Calls \cup {"sleep"}
    BY DEF WorkerStarts, TakeReply, Timeout, Calls
  <2>2. QED
    BY <2>1, Answered
    DEF IInv, Later, TypeInv, RequestTypes, CoordTypes, Coordinators, Calls, Kinds, PtyCalls
<1>2. /\ PluginsFit /\ TerminalsFit /\ CallsFit /\ AnswersFit /\ ReportsFit /\ EndFits
      /\ CleanFits(c) /\ CleanFits(quarantine)
  BY DEF OutcomeInv, ReportsFit
<1>3. /\ UNCHANGED <<pluginVars, ptyVars, toScreen>>
      /\ \A i \in DOMAIN toScreen' : \E j \in DOMAIN toScreen : toScreen'[i] = toScreen[j]
  BY DEF WorkerStarts, TakeReply, Timeout
<1>4. /\ PluginsGone' <=> PluginsGone
      /\ TerminalsGone' <=> TerminalsGone
      /\ ledger' = ledger
  BY <1>3, Unmoved
<1>5. ASSUME c.intent = "Activate"
      PROVE  Activating
  <2>1. CASE by = "screen"
    BY <1>5, <2>1 DEF Activating
  <2>2. CASE by = "worker"
    BY <1>1, <1>5, <2>2 DEF Activating, ScreenInv
  <2>3. QED
    BY <2>1, <2>2 DEF Coordinators
<1> HIDE DEF c, ack
\* a call is made, from channels without requests of this coordinator
<1>6. ASSUME NEW call \in Calls, NEW p \in Seq(PluginRequests), NEW q \in Seq(PtyRequests),
             Stripped(p, toPlugin, by), Stripped(q, toPty, by),
             Extended(toPlugin', p, by, call), Extended(toPty', q, by, call),
             reply'[by] = "none", coord'[by].call = call, coord'[by].intent = c.intent,
             CleanFits(coord[by])',
             \A b \in Coordinators : b # by => coord'[b] = coord[b] /\ reply'[b] = reply[b],
             UNCHANGED <<screenVars, at, result>>,
             call = "Activate" => c.intent = "Activate",
             call = "Committed" => Activated,
             call = "Rejected" => Refused,
             call = "Compensate" => Activated /\ PtyUndone
      PROVE  OutcomeInv'
  <2>1. AskedBoth(call)
    <3>1. call # "NewTab"
      BY <1>1, <1>6
    <3>2. QED
      BY <1>6, <3>1, RequestedBoth
  <2>2. Activating' <=> Activating
    BY <1>1, <1>6 DEF Activating, screenVars, c
  <2>3. EndFits' /\ CleanFits(quarantine)' /\ tab' # "absent"
    BY <1>1, <1>2, <1>4, <1>6 DEF EndFits, Over, CleanFits, screenVars
  <2>4. call = "Activate" => Activating
    BY <1>5, <1>6
  <2>5. QED
    BY <1>3, <1>6, <2>1, <2>2, <2>3, <2>4, OutcomeCall
\* a request is sent
<1>7. ASSUME NEW call \in Calls, NEW attempt, NEW text, Send(by, c, call, attempt, text),
             ack # "none" \/ c.call \notin Calls, reply'[by] = "none",
             \A b \in Coordinators : b # by => reply'[b] = reply[b],
             UNCHANGED <<screenVars, at, result>>,
             call = "Activate" => c.intent = "Activate",
             call = "Committed" => Activated,
             call = "Rejected" => Refused,
             call = "Compensate" => Activated /\ PtyUndone
      PROVE  OutcomeInv'
  <2> DEFINE request == [is |-> call, text |-> text, by |-> by]
             d == [c EXCEPT !.call = call, !.attempt = attempt, !.text = text]
  <2>1. request.is = call /\ request.by = by
    OBVIOUS
  <2>2. d.call = call /\ d.intent = c.intent /\ CleanFits(d)
    <3>1. d.call = call /\ d.intent = c.intent
      BY <1>1
    <3>2. CleanFits(d)
      BY <1>1, <1>2, CleanKept
    <3>3. QED
      BY <3>1, <3>2
  <2>3. /\ coord' = [coord EXCEPT ![by] = d]
        /\ \/ toPty' = Append(toPty, request) /\ UNCHANGED toPlugin
           \/ toPlugin' = Append(toPlugin, request) /\ UNCHANGED toPty
    BY <1>7 DEF Send
  <2> HIDE DEF request, d
  <2>4. /\ coord'[by] = d
        /\ \A b \in Coordinators : b # by => coord'[b] = coord[b]
    BY <1>1, <2>3
  <2>5. CleanFits(coord[by])'
    BY <1>4, <2>2, <2>4 DEF CleanFits
  <2>6. Extended(toPlugin', toPlugin, by, call) /\ Extended(toPty', toPty, by, call)
    BY <2>1, <2>3 DEF Extended
  <2>7. Stripped(toPlugin, toPlugin, by) /\ Stripped(toPty, toPty, by)
    BY <1>7, StrippedTypes DEF c, ack
  <2>8. QED
    BY <1>1, <1>6, <1>7, <2>2, <2>4, <2>5, <2>6, <2>7
\* a coordination ends
<1>8. ASSUME NEW p \in Seq(PluginRequests), NEW q \in Seq(PtyRequests),
             Stripped(p, toPlugin, by), Stripped(q, toPty, by), toPlugin' = p, toPty' = q,
             NEW outcome \in {"Commit", "Rollback", "Unknown"},
             outcome = "Commit" => Whole,
             outcome = "Rollback" => PluginsGone /\ TerminalsGone,
             coord' = [coord EXCEPT ![by] = Idle], reply'[by] = "none",
             \A b \in Coordinators : b # by => reply'[b] = reply[b],
             IF by = "worker" THEN result' = outcome /\ UNCHANGED <<screenVars, at>>
                              ELSE Conclude(c, outcome) /\ at' = "top" /\ UNCHANGED result
      PROVE  OutcomeInv'
  <2>1. /\ coord'[by] = Idle /\ coord'[by].call = "none"
        /\ \A b \in Coordinators : b # by => coord'[b] = coord[b]
    BY <1>1, <1>8
  <2>2. Extended(toPlugin', p, by, "none") /\ Extended(toPty', q, by, "none")
    BY <1>8 DEF Extended
  <2>3. AskedBoth("none")
    BY <1>8, <2>1, <2>2, RequestedBoth
  <2>4. CleanFits(coord[by])'
    BY <2>1, CleanKept DEF CleanFits
  <2>5. EndFits' /\ CleanFits(quarantine)' /\ tab' # "absent" /\ (Activating' => Activating)
    <3>1. CASE by = "worker"
      BY <1>1, <1>2, <1>4, <1>8, <2>1, <3>1 DEF EndFits, Over, CleanFits, screenVars, Activating
    <3>2. CASE by = "screen"
      <4>1. at = "coordinating"
        BY <1>1, <3>2 DEF ScreenInv, c
      <4>2. Conclude(coord["screen"], outcome) /\ UNCHANGED result
        BY <1>8, <3>2 DEF c
      <4>3. tab' # "absent" /\ (Activating' => Activating)
        BY <1>8, <3>2, <4>1, <4>2, Outcomed
      <4>4. EndFits' /\ CleanFits(quarantine)'
        BY <1>3, <1>8, <4>1, <4>2, Leaves
      <4>5. QED
        BY <4>3, <4>4
    <3>3. QED
      BY <3>1, <3>2 DEF Coordinators
  <2>6. QED
    BY <1>3, <1>8, <2>1, <2>3, <2>4, <2>5, OutcomeCall
<1>9. CASE WorkerStarts /\ by = "worker"
  <2>1. /\ c.call = "sleep" /\ Send(by, c, FirstCall(c), 1, c.text)
        /\ UNCHANGED <<screenVars, at, reply, result>>
    BY <1>9 DEF WorkerStarts, Begin, c
  <2>2. /\ FirstCall(c) \in Calls /\ FirstCall(c) \notin {"Committed", "Compensate", "Rejected"}
        /\ FirstCall(c) = "Activate" <=> c.intent = "Activate"
    BY DEF FirstCall, Calls, Kinds
  <2>3. reply[by] = "none"
    BY <1>1, <2>1 DEF CallInv, c
  <2>4. QED
    BY <1>1, <1>7, <2>1, <2>2, <2>3
<1>10. CASE TakeReply(by)
  <2>1. /\ reply' = [reply EXCEPT ![by] = "none"] /\ ack # "none"
        /\ \/ Retries(c, ack) /\ Proceed(by, c.call, c.attempt + 1, c.text)
           \/ \E call \in NextCalls(c, ack) : Proceed(by, call, 1, NextText(c, ack))
           \/ Finish(by, Outcome(c, ack))
    BY <1>10 DEF TakeReply, c, ack
  <2>2. reply'[by] = "none" /\ \A b \in Coordinators : b # by => reply'[b] = reply[b]
    BY <1>1, <2>1
  <2>3. CASE Retries(c, ack) /\ Proceed(by, c.call, c.attempt + 1, c.text)
    <3>1. /\ c.call \in PtyCalls /\ c.call \in Calls
          /\ Send(by, c, c.call, c.attempt + 1, c.text) /\ UNCHANGED <<screenVars, at, result>>
      BY <2>3 DEF Retries, Proceed, Calls, c
    <3>2. (c.call = "Committed" => Activated) /\ (c.call = "Rejected" => Refused)
      BY <1>2 DEF CallsFit, AskedPty, c
    <3>3. c.call \notin {"Release", "Activate", "Compensate"}
      BY <3>1 DEF PtyCalls
    <3>4. QED
      BY <1>7, <2>1, <2>2, <3>1, <3>2, <3>3
  <2>4. CASE \E call \in NextCalls(c, ack) : Proceed(by, call, 1, NextText(c, ack))
    <3>1. PICK call \in NextCalls(c, ack) : Proceed(by, call, 1, NextText(c, ack))
      BY <2>4
    <3>2. call \in Calls /\ <<c.call, ack, call>> \in Continues
      BY DEF NextCalls, Calls
    <3>3. Send(by, c, call, 1, NextText(c, ack)) /\ UNCHANGED <<screenVars, at, result>>
      BY <3>1 DEF Proceed, c
    <3>4. /\ call = "Committed" => c.call = "Activate" /\ ack = "Activated"
          /\ call = "Compensate" => c.call = "Committed" /\ ack = "PtyRolledBack"
          /\ call = "Rejected" => \/ c.call = "Activate" /\ ack = "ActivationRolledBack"
                                  \/ c.call = "Release" /\ ack = "Released"
          /\ call # "Activate"
      BY <3>2 DEF Continues
    <3>5. /\ call = "Committed" => Activated
          /\ call = "Rejected" => Refused
          /\ call = "Compensate" => Activated /\ PtyUndone
      BY <1>1, <1>2, <3>4 DEF CallInv, ReplyInv, AnswersFit, c, ack
    <3>6. QED
      BY <1>7, <2>1, <2>2, <3>2, <3>3, <3>4, <3>5
  <2>5. CASE Finish(by, Outcome(c, ack))
    <3>1. Outcome(c, ack) \in {"Commit", "Rollback", "Unknown"}
      BY DEF Outcome
    <3>2. Outcome(c, ack) = "Commit" => Whole
      <4>1. Outcome(c, ack) = "Commit" => <<c.call, ack, "Commit">> \in Certifies
        BY DEF Outcome
      <4>2. Outcome(c, ack) = "Commit" => c.call = "Committed" /\ ack = "Resolved"
        BY <4>1 DEF Certifies
      <4>3. Activated => HasReceipt("Activate")
        BY DEF Activated, HasReceipt, NoReceipt
      <4>4. PluginInv
        BY DEF Later
      <4>5. QED
        BY <1>1, <4>2, <4>3, <4>4
        DEF CallInv, ReplyInv, PluginInv, Whole, Cannot, NeverAsked, c, ack
    <3>3. Outcome(c, ack) = "Rollback" => PluginsGone /\ TerminalsGone
      BY Certified DEF c, ack
    <3>4. Stripped(toPlugin, toPlugin, by) /\ Stripped(toPty, toPty, by)
      BY <2>1, StrippedTypes DEF ack
    <3>5. QED
      BY <1>1, <1>8, <2>2, <2>5, <3>1, <3>2, <3>3, <3>4 DEF Finish, c
  <2>6. QED
    BY <2>1, <2>3, <2>4, <2>5
<1>11. CASE Timeout(by)
  <2> DEFINE again == [is |-> c.call, text |-> c.text, by |-> by]
             p == Orphan(toPlugin, by)
             q == Orphan(toPty, by)
  <2>1. /\ c.call \in Calls /\ reply[by] = "none" /\ UNCHANGED reply
        /\ toPlugin' = p \o (IF c.call \in Kinds /\ c.attempt < Attempts THEN <<again>> ELSE <<>>)
        /\ toPty' = q \o (IF c.call \in PtyCalls /\ c.attempt < Attempts THEN <<again>> ELSE <<>>)
        /\ IF c.attempt < Attempts
             THEN /\ coord' = [coord EXCEPT ![by].attempt = c.attempt + 1]
                  /\ UNCHANGED <<screenVars, at, result>>
             ELSE /\ coord' = [coord EXCEPT ![by] = Idle]
                  /\ IF by = "worker"
                       THEN result' = "Unknown" /\ UNCHANGED <<screenVars, at>>
                       ELSE Conclude(c, "Unknown") /\ at' = "top" /\ UNCHANGED result
    BY <1>11 DEF Timeout, Calls, c
  <2>2. again.is = c.call /\ again.by = by
    OBVIOUS
  <2>3. /\ Stripped(p, toPlugin, by) /\ Stripped(q, toPty, by)
        /\ p \in Seq(PluginRequests) /\ q \in Seq(PtyRequests)
    BY StrippedTypes
  <2> HIDE DEF again, p, q
  <2>4. /\ p \o <<>> = p /\ p \o <<again>> = Append(p, again)
        /\ q \o <<>> = q /\ q \o <<again>> = Append(q, again)
    BY <2>3
  <2>5. CASE c.attempt < Attempts
    <3>1. Extended(toPlugin', p, by, c.call) /\ Extended(toPty', q, by, c.call)
      BY <2>1, <2>2, <2>4 DEF Extended
    <3>2. coord' = [coord EXCEPT ![by] = [c EXCEPT !.attempt = c.attempt + 1]]
      BY <2>1, <2>5 DEF c
    <3> DEFINE d == [c EXCEPT !.attempt = c.attempt + 1]
    <3>3. d.call = c.call /\ d.intent = c.intent /\ CleanFits(d)
      BY <1>1, <1>2, CleanKept DEF Plans
    <3> HIDE DEF d
    <3>4. /\ coord'[by] = d /\ coord'[by].call = c.call /\ coord'[by].intent = c.intent
          /\ \A b \in Coordinators : b # by => coord'[b] = coord[b]
      BY <1>1, <3>2, <3>3 DEF d
    <3>5. CleanFits(coord[by])'
      BY <1>4, <3>3, <3>4 DEF CleanFits
    <3>6. /\ c.call = "Activate" => c.intent = "Activate"
          /\ c.call = "Committed" => Activated
          /\ c.call = "Rejected" => Refused
          /\ c.call = "Compensate" => Activated /\ PtyUndone
      BY <1>1, <1>2 DEF CallsFit, Asked, AskedPty, CallInv, c
    <3>7. QED
      BY <1>6, <2>1, <2>3, <2>5, <3>1, <3>4, <3>5, <3>6
  <2>6. CASE ~(c.attempt < Attempts)
    BY <1>8, <2>1, <2>3, <2>4, <2>6
  <2>7. QED
    BY <2>5, <2>6
<1>12. QED
  BY <1>9, <1>10, <1>11

\* Screen's own steps.
LEMMA OutcomeScreen ==
  ASSUME IInv, Later, OutcomeInv, OpenTab \/ CloseTab \/ ScreenStep
  PROVE  OutcomeInv'
<1> USE Coordination
<1>1. /\ TypeInv /\ ScreenInv /\ NoMoreReports /\ CallInv /\ tab # "absent"
      /\ toPlugin \in Seq(PluginRequests) /\ toPty \in Seq(PtyRequests)
      /\ toScreen \in Seq(Reports)
      /\ coord \in [Coordinators -> Plans] /\ quarantine \in Plans
      /\ reply \in [Coordinators -> {"none"} \cup PluginAcks \cup PtyAcks]
      /\ "screen" \in Coordinators /\ "worker" \in Coordinators
      /\ "none" \notin Calls /\ "sleep" \notin Calls
  BY DEF IInv, Later, TypeInv, RequestTypes, ReportTypes, CoordTypes, ScreenTypes, Coordinators,
         Calls, Kinds, PtyCalls
<1>2. /\ TerminalsFit /\ ReportsFit /\ EndFits /\ CleanFits(quarantine)
      /\ \A b \in Coordinators : CleanFits(coord[b])
  BY DEF OutcomeInv, ReportsFit
<1>3. ASSUME toScreen # <<>>
      PROVE  /\ Message = toScreen[1] /\ 1 \in DOMAIN toScreen /\ Message.is # "ApplyLayout"
             /\ \A i \in DOMAIN Tail(toScreen) : \E j \in DOMAIN toScreen : Tail(toScreen)[i] = toScreen[j]
  <2>1. Message = toScreen[1] /\ 1 \in DOMAIN toScreen
    BY <1>1, <1>3 DEF Message
  <2>2. ASSUME NEW i \in DOMAIN Tail(toScreen)
        PROVE  \E j \in DOMAIN toScreen : Tail(toScreen)[i] = toScreen[j]
    <3>1. i + 1 \in DOMAIN toScreen /\ Tail(toScreen)[i] = toScreen[i + 1]
      BY <1>1, <1>3, <2>2
    <3>2. QED
      BY <3>1
  <2>3. Message.is # "ApplyLayout"
    BY <1>1, <2>1 DEF NoMoreReports
  <2>4. QED
    BY <2>1, <2>2, <2>3
<1>4. ASSUME at # "coordinating"
      PROVE  /\ coord["screen"].intent = "none" /\ coord["screen"].call = "none"
             /\ reply["screen"] = "none"
             /\ ~Quarantined => ~Activating
  <2>1. coord["screen"] = Idle
    BY <1>1, <1>4 DEF ScreenInv
  <2>2. QED
    BY <1>1, <2>1 DEF CallInv, Activating, Quarantined
<1>5. /\ UNCHANGED pluginVars => (PluginsGone' <=> PluginsGone)
      /\ UNCHANGED ptyVars => (TerminalsGone' <=> TerminalsGone) /\ ledger' = ledger
  BY Unmoved
\* nobody is asked
<1>6. ASSUME UNCHANGED <<coord, reply, toPlugin, toPty, pluginVars, ptyVars>>, at # "coordinating",
             \A i \in DOMAIN toScreen' : \E j \in DOMAIN toScreen : toScreen'[i] = toScreen[j],
             tab' # "absent", Activating' => Activating, CleanFits(quarantine)', EndFits'
      PROVE  OutcomeInv'
  <2>1. Stripped(toPlugin, toPlugin, "screen") /\ Stripped(toPty, toPty, "screen")
    BY <1>1, <1>4, <1>6, StrippedTypes
  <2>2. Extended(toPlugin', toPlugin, "screen", "none") /\ Extended(toPty', toPty, "screen", "none")
    BY <1>6 DEF Extended
  <2>3. /\ reply'["screen"] = "none" /\ coord'["screen"].call = "none"
        /\ \A b \in Coordinators : b # "screen" => coord'[b] = coord[b] /\ reply'[b] = reply[b]
    BY <1>4, <1>6
  <2>4. AskedBoth("none")
    BY <1>1, <2>1, <2>2, <2>3, RequestedBoth
  <2>5. CleanFits(coord["screen"])'
    BY <1>1, <1>2, <1>5, <1>6 DEF CleanFits
  <2>6. QED
    BY <1>1, <1>6, <2>3, <2>4, <2>5, OutcomeCall
<1>7. CASE OpenTab
  BY <1>1, <1>7 DEF OpenTab
<1>8. CASE CloseTab
  <2>1. /\ UNCHANGED <<coord, reply, result, toPlugin, toPty, toScreen, pluginVars, ptyVars, active,
                       quarantine, decision>>
        /\ at = "recv" /\ tab' = "closed"
    BY <1>8 DEF CloseTab, coordVars
  <2>2. EndFits' /\ CleanFits(quarantine)' /\ (Activating' => Activating)
    BY <1>1, <1>2, <1>5, <2>1 DEF EndFits, Over, CleanFits, Activating
  <2>3. QED
    BY <1>6, <2>1, <2>2
<1>9. CASE IgnoreMessage \/ Wake
  <2>1. /\ UNCHANGED <<coord, reply, result, toPlugin, toPty, pluginVars, ptyVars, screenVars>>
        /\ at = "recv"
        /\ toScreen' = toScreen \/ (toScreen # <<>> /\ toScreen' = Tail(toScreen))
    BY <1>9 DEF IgnoreMessage, Receives, Wake, coordVars
  <2>2. EndFits' /\ CleanFits(quarantine)' /\ (Activating' => Activating) /\ tab' # "absent"
    BY <1>1, <1>2, <1>5, <2>1 DEF EndFits, Over, CleanFits, Activating, screenVars
  <2>3. \A i \in DOMAIN toScreen' : \E j \in DOMAIN toScreen : toScreen'[i] = toScreen[j]
    BY <1>3, <2>1
  <2>4. QED
    BY <1>6, <2>1, <2>2, <2>3
<1>10. CASE HandleApplyLayout
  BY <1>3, <1>10 DEF HandleApplyLayout, Receives
<1>11. CASE HandleMismatch
  <2>1. /\ UNCHANGED <<coord, reply, result, toPlugin, toPty, pluginVars, ptyVars, tab, active,
                       decision>>
        /\ at = "recv" /\ ~Quarantined /\ toScreen # <<>> /\ toScreen' = Tail(toScreen)
        /\ quarantine'.intent = "RejectByOwner"
    BY <1>11 DEF HandleMismatch, Receives, coordVars, Plan
  <2>2. ~Activating'
    BY <1>4, <2>1 DEF Activating
  <2>3. EndFits' /\ CleanFits(quarantine)'
    BY <1>2, <1>5, <2>1 DEF EndFits, Over, CleanFits
  <2>4. QED
    BY <1>1, <1>3, <1>6, <2>1, <2>2, <2>3
<1>12. CASE HandlePreparationFailed
  <2>1. /\ UNCHANGED <<pluginVars, ptyVars, reply, result>>
        /\ at = "recv" /\ active /\ ~Quarantined /\ toScreen # <<>> /\ toScreen' = Tail(toScreen)
        /\ Message.is = "PreparationFailed"
    BY <1>12 DEF HandlePreparationFailed, Receives
  <2>2. ~Activating
    BY <1>4, <2>1
  <2>3. /\ Message.ptyClean => ledger.at = "absent"
        /\ ~Message.release => Message.ptyClean /\ Refused
    BY <1>2, <1>3, <2>1 DEF ReportsFit
  <2>4. CASE Message.release
    <3> DEFINE plan == Plan("PreparationFailure", <<0, "preparation">>, FALSE, Message.ptyClean)
               request == [is |-> "Release", text |-> plan.text, by |-> "screen"]
    <3>1. Begin("screen", plan) /\ UNCHANGED screenVars
      BY <1>12, <2>4 DEF HandlePreparationFailed
    <3>2. plan.intent = "PreparationFailure" /\ plan \in Plans
      <4>1. Message \in Reports
        BY <1>1, <1>3, <2>1
      <4>2. QED
        BY <4>1, ReportFields, OwnPlans DEF Plan
    <3>3. request.is = "Release" /\ request.by = "screen"
      OBVIOUS
    <3>4. FirstCall(plan) = "Release" /\ "Release" \notin PtyCalls
      BY <3>2 DEF FirstCall, PtyCalls
    <3>5. CleanFits(plan)
      BY <2>3 DEF CleanFits, Plan
    <3> DEFINE p == [plan EXCEPT !.call = "Release", !.attempt = 1, !.text = plan.text]
    <3> HIDE DEF plan
    <3>6. p.call = "Release" /\ p.intent = "PreparationFailure"
      BY <3>2
    <3>7. CleanFits(p)
      BY <3>2, <3>5, CleanKept
    <3>8. /\ coord' = [coord EXCEPT !["screen"] = p]
          /\ toPlugin' = Append(toPlugin, request) /\ UNCHANGED toPty
      BY <3>1, <3>4 DEF Begin, Send
    <3> HIDE DEF request, p
    <3>9. /\ reply'["screen"] = "none" /\ coord'["screen"] = p /\ coord'["screen"].call = "Release"
          /\ coord'["screen"].intent = "PreparationFailure"
          /\ \A b \in Coordinators : b # "screen" => coord'[b] = coord[b] /\ reply'[b] = reply[b]
      BY <1>1, <1>4, <2>1, <3>6, <3>8
    <3>10. /\ Extended(toPlugin', toPlugin, "screen", "Release")
           /\ Extended(toPty', toPty, "screen", "Release")
      BY <3>3, <3>8 DEF Extended
    <3>11. Stripped(toPlugin, toPlugin, "screen") /\ Stripped(toPty, toPty, "screen")
      BY <1>1, <1>4, <2>1, StrippedTypes
    <3>12. AskedBoth("Release")
      BY <1>1, <3>9, <3>10, <3>11, RequestedBoth
    <3>13. CleanFits(coord["screen"])'
      BY <1>5, <2>1, <3>7, <3>9 DEF CleanFits
    <3>14. ~Activating'
      BY <2>1, <3>1, <3>9 DEF Activating, screenVars, Quarantined
    <3>15. EndFits' /\ CleanFits(quarantine)' /\ tab' # "absent"
      BY <1>1, <1>2, <1>5, <2>1, <3>1 DEF EndFits, Over, CleanFits, screenVars
    <3>16. \A i \in DOMAIN toScreen' : \E j \in DOMAIN toScreen : toScreen'[i] = toScreen[j]
      BY <1>3, <2>1
    <3>17. QED
      BY <1>1, <2>1, <3>9, <3>12, <3>13, <3>14, <3>15, <3>16, OutcomeCall
  <2>5. CASE ~Message.release
    <3>1. DiscardTab /\ UNCHANGED <<coord, toPlugin, toPty>>
      BY <1>12, <2>5 DEF HandlePreparationFailed
    <3>2. UNCHANGED <<quarantine, decision>> /\ tab' \in {"discarded", "closed"}
      BY <3>1 DEF DiscardTab, DiscardedTab, Current
    <3>3. PluginsGone /\ TerminalsGone
      BY <1>2, <2>3, <2>5 DEF Refused, TerminalsFit, TerminalsGone
    <3>4. EndFits' /\ CleanFits(quarantine)'
      BY <1>2, <1>5, <2>1, <3>2, <3>3 DEF EndFits, Over, CleanFits
    <3>5. Activating' => Activating
      BY <3>1, <3>2 DEF Activating
    <3>6. QED
      BY <1>3, <1>6, <2>1, <3>1, <3>2, <3>4, <3>5
  <2>6. QED
    BY <2>4, <2>5
<1>13. CASE LoopTop
  <2>1. /\ UNCHANGED <<pluginVars, ptyVars, reply, toPlugin, toPty, toScreen>>
        /\ at = "top" /\ result' = "none"
    BY <1>13 DEF LoopTop
  <2>2. /\ tab' # "absent"
        /\ \/ UNCHANGED screenVars
           \/ /\ quarantine' = Idle /\ tab' \notin {"pending", "prepared"}
              /\ decision' = "Committed" \/ result = "Rollback"
    BY <1>1, <1>13
    DEF LoopTop, Reconcile, Applies, CommitTab, RollbackTab, DiscardedTab, Current, screenVars
  <2>3. coord'["screen"] = coord["screen"]
    BY <1>1, <1>13 DEF LoopTop
  <2>4. Activating' => Activating
    BY <2>2, <2>3 DEF Activating, screenVars
  <2>5. CleanFits(quarantine)'
    <3>1. CASE UNCHANGED screenVars
      BY <1>2, <1>5, <2>1, <3>1 DEF CleanFits, screenVars
    <3>2. CASE quarantine' = Idle
      BY <3>2, CleanKept DEF CleanFits
    <3>3. QED
      BY <2>2, <3>1, <3>2
  <2>6. EndFits'
    <3>1. CASE UNCHANGED screenVars
      BY <1>2, <1>5, <2>1, <3>1 DEF EndFits, Over, screenVars
    <3>2. CASE ~UNCHANGED screenVars
      BY <1>2, <1>5, <2>1, <2>2, <3>2 DEF EndFits
    <3>3. QED
      BY <3>1, <3>2
  <2>7. CASE coord' = coord
    BY <1>6, <2>1, <2>2, <2>4, <2>5, <2>6, <2>7
  <2>8. CASE /\ coord["worker"] = Idle
             /\ coord' = [coord EXCEPT !["worker"] = [quarantine' EXCEPT !.call = "sleep"]]
    <3>1. quarantine' \in Plans
      BY <1>1, <2>2, ConstantTypes DEF screenVars
    <3>2. /\ coord'["worker"].call = "sleep" /\ coord["worker"].call = "none"
          /\ coord'["worker"] = [quarantine' EXCEPT !.call = "sleep"]
          /\ \A b \in Coordinators : b # "worker" => coord'[b] = coord[b] /\ reply'[b] = reply[b]
      BY <1>1, <2>1, <2>8, <3>1
    <3>3. reply'["worker"] = "none"
      BY <1>1, <2>1, <3>2 DEF CallInv
    <3>4. Stripped(toPlugin, toPlugin, "worker") /\ Stripped(toPty, toPty, "worker")
      BY <1>1, <3>2, StrippedTypes
    <3>5. Extended(toPlugin', toPlugin, "worker", "sleep") /\ Extended(toPty', toPty, "worker", "sleep")
      BY <2>1 DEF Extended
    <3>6. AskedBoth("sleep")
      BY <1>1, <3>2, <3>3, <3>4, <3>5, RequestedBoth
    <3>7. CleanFits(coord["worker"])'
      <4>1. [quarantine' EXCEPT !.call = "sleep"].intent = quarantine'.intent
            /\ [quarantine' EXCEPT !.call = "sleep"].ptyClean = quarantine'.ptyClean
        BY <3>1 DEF Plans
      <4>2. QED
        BY <2>5, <3>2, <4>1 DEF CleanFits
    <3>8. \A i \in DOMAIN toScreen' : \E j \in DOMAIN toScreen : toScreen'[i] = toScreen[j]
      BY <2>1
    <3>9. QED
      BY <1>1, <2>1, <2>2, <2>4, <2>5, <2>6, <3>2, <3>3, <3>6, <3>7, <3>8, OutcomeCall
  <2>9. QED
    BY <1>13, <2>7, <2>8 DEF LoopTop
<1>14. QED
  BY <1>7, <1>8, <1>9, <1>10, <1>11, <1>12, <1>13 DEF ScreenStep

-----------------------------------------------------------------------------
(* Until Screen has the report of the PTY thread. *)

\* Nobody asks for anything and Plugin runs nothing.
Unasked ==
  /\ Quiet /\ ledger.outcome = NoOutcome /\ runtimes = "none" /\ projectors = "unbound"
  /\ \A by \in Coordinators : coord[by] = Idle
  /\ \A i \in DOMAIN toPlugin : toPlugin[i].is = "NewTab"
  /\ \A i \in DOMAIN toPty : toPty[i].is = "NewTab"

LEMMA NothingOwed ==
  Unasked => /\ PluginsFit /\ CallsFit /\ AnswersFit /\ ~Activated
             /\ CleanFits(quarantine) /\ \A by \in Coordinators : CleanFits(coord[by])
<1> SUFFICES ASSUME Unasked
             PROVE  /\ PluginsFit /\ CallsFit /\ AnswersFit /\ ~Activated
                    /\ CleanFits(quarantine) /\ \A by \in Coordinators : CleanFits(coord[by])
  OBVIOUS
<1> USE DEF Unasked
<1>1. Idle.call = "none" /\ Idle.intent = "none"
  BY Coordination
<1>2. /\ receipts["Activate"].as = "none" /\ ~HasReceipt("Activate") /\ ~HasReceipt("Release")
      /\ ~HasReceipt("Compensate") /\ ~Activated
  BY DEF Quiet, HasReceipt, Kinds, NoReceipt, Activated
<1>3. PluginsFit
  BY <1>2 DEF PluginsFit
<1>4. ~PtyCommitted
  BY DEF PtyCommitted, Entry, NoOutcome, Committed
<1>5. \A call \in Calls : ~Asked(call) /\ ~AskedPty(call)
  BY <1>1 DEF Asked, AskedPty, Calls, Kinds, PtyCalls
<1>6. ~Activating
  BY <1>1 DEF Activating, Quiet, Quarantined, Coordinators
<1>7. CallsFit
  BY <1>4, <1>5, <1>6 DEF CallsFit, Calls, Kinds, PtyCalls
<1>8. AnswersFit
  BY <1>1 DEF AnswersFit
<1>9. CleanFits(quarantine) /\ \A by \in Coordinators : CleanFits(coord[by])
  BY <1>1 DEF CleanFits, Quiet, Quarantined
<1>10. QED
  BY <1>2, <1>3, <1>7, <1>8, <1>9

\* NothingOwed, of the state after a step.
LEMMA NothingOwedThen ==
  Unasked' => /\ PluginsFit' /\ CallsFit' /\ AnswersFit' /\ ~Activated'
              /\ CleanFits(quarantine)' /\ (\A by \in Coordinators : CleanFits(coord[by]))'
BY NothingOwed, PTL

\* One message and two.
LEMMA ShortQueues ==
  ASSUME NEW m, NEW n
  PROVE  /\ <<m>> \o <<>> = <<m>>
         /\ \A i \in DOMAIN <<m>> : <<m>>[i] = m
         /\ \A i \in DOMAIN (<<m>> \o <<n>>) : (<<m>> \o <<n>>)[i] \in {m, n}
<1>1. <<m>> \in Seq({m, n}) /\ <<n>> \in Seq({m, n})
  OBVIOUS
<1>2. <<m>> \o <<>> = <<m>>
  BY <1>1
<1>3. \A i \in DOMAIN <<m>> : <<m>>[i] = m
  OBVIOUS
<1> DEFINE q == <<m>> \o <<n>>
<1>4. q \in Seq({m, n})
  BY <1>1
<1> HIDE DEF q
<1>5. \A i \in DOMAIN q : q[i] \in {m, n}
  BY <1>4
<1>6. QED
  BY <1>2, <1>3, <1>5, Zenon DEF q

\* The reports of PTY's failed preparation, and what they say.
Reported(reports, debt, paid) ==
  \A i \in DOMAIN reports :
    /\ reports[i].is = "PreparationFailed"
    /\ reports[i].release
    /\ reports[i].ptyClean => ~debt \/ paid

LEMMA EarlyReports ==
  ASSUME NEW debt \in BOOLEAN, NEW paid \in BOOLEAN
  PROVE  Reported(<<PreparationFailed(TRUE, ~debt)>> \o Paid(debt, paid), debt, paid)
<1> DEFINE reports == <<PreparationFailed(TRUE, ~debt)>> \o Paid(debt, paid)
<1>0. SUFFICES Reported(reports, debt, paid)
  OBVIOUS
<1>1. /\ \A r, c \in BOOLEAN :
           /\ PreparationFailed(r, c).is = "PreparationFailed"
           /\ PreparationFailed(r, c).release = r /\ PreparationFailed(r, c).ptyClean = c
  BY DEF PreparationFailed
<1>2. CASE debt /\ paid
  <2> DEFINE m == PreparationFailed(TRUE, FALSE)
             n == PreparationFailed(TRUE, TRUE)
  <2>1. reports = <<m>> \o <<n>>
    <3>1. Paid(debt, paid) = <<n>>
      BY <1>2 DEF Paid
    <3>2. (~debt) = FALSE
      BY <1>2
    <3>3. QED
      BY <3>1, <3>2, Zenon
  <2>2. /\ m.is = "PreparationFailed" /\ m.release = TRUE
        /\ n.is = "PreparationFailed" /\ n.release = TRUE
    BY <1>1
  <2> HIDE DEF m, n, reports
  <2>3. \A i \in DOMAIN reports : reports[i] \in {m, n}
    BY <2>1, ShortQueues, Zenon
  <2>4. QED
    BY <1>2, <2>2, <2>3 DEF Reported
<1>3. CASE ~(debt /\ paid)
  <2> DEFINE m == PreparationFailed(TRUE, ~debt)
  <2>1. reports = <<m>>
    <3>1. Paid(debt, paid) = <<>>
      BY <1>3 DEF Paid
    <3>2. reports = <<m>> \o <<>>
      BY <3>1, Zenon
    <3> HIDE DEF m
    <3>3. QED
      BY <3>2, ShortQueues, Zenon
  <2>2. m.is = "PreparationFailed" /\ m.release = TRUE /\ m.ptyClean = (~debt)
    BY <1>1
  <2> HIDE DEF m, reports
  <2>3. \A i \in DOMAIN reports : reports[i] = m
    BY <2>1, ShortQueues, Zenon
  <2>4. QED
    BY <2>2, <2>3 DEF Reported
<1>4. QED
  BY <1>2, <1>3

\* Until then every step keeps the invariant.
LEMMA OutcomeEarly ==
  ASSUME IInv, Early, OutcomeInv, Next
  PROVE  OutcomeInv'
<1>1. /\ Idle.intent = "none" /\ Idle.call = "none"
      /\ Quiet /\ ScreenInv /\ (\A by \in Coordinators : coord[by] = Idle)
      /\ "screen" \in Coordinators /\ "worker" \in Coordinators
      /\ result = "none" /\ decision = "none" /\ ~Quarantined
      /\ ledger.at \in {"absent", "pending"} /\ ledger.outcome = NoOutcome
      /\ NoEntry.at = "absent" /\ NoEntry.outcome = NoOutcome
      /\ (tab # "absent" => Opened)
  BY Coordination DEF Early, IInv, ScreenInv, Quiet, Coordinators, NoEntry, Entry, Opened
<1>2. /\ PluginsFit /\ TerminalsFit /\ CallsFit /\ AnswersFit /\ ReportsFit /\ EndFits /\ ReservedFits
      /\ receipts["Activate"] = NoReceipt /\ ~Activated
      /\ projectors \in {"unbound", "bound"}
  BY <1>1 DEF OutcomeInv, Quiet, Kinds, NoReceipt, Activated, IInv, TypeInv, PluginTypeOK
<1>3. NewTab.is = "NewTab" /\ ApplyLayout.is = "ApplyLayout"
  BY DEF NewTab, ApplyLayout
\* a message is handed on
<1>4. ASSUME Quiet', UNCHANGED <<coord, quarantine>>, ledger'.outcome = NoOutcome,
             runtimes' = "none", projectors' = "unbound",
             \A i \in DOMAIN toPlugin' : toPlugin'[i].is = "NewTab",
             \A i \in DOMAIN toPty' : toPty'[i].is = "NewTab",
             TerminalsFit', active', result' = "none", ReservedFits',
             \A i \in DOMAIN toScreen' : toScreen'[i].is = "PreparationFailed" =>
               /\ toScreen'[i].ptyClean => ledger'.at = "absent"
               /\ ~toScreen'[i].release => toScreen'[i].ptyClean /\ Refused'
      PROVE  OutcomeInv'
  <2>1. (\A by \in Coordinators : coord[by] = Idle)'
    BY <1>1, <1>4
  <2>2. Unasked'
    BY <1>4, <2>1 DEF Unasked
  <2>3. /\ PluginsFit' /\ CallsFit' /\ AnswersFit'
        /\ CleanFits(quarantine)' /\ (\A by \in Coordinators : CleanFits(coord[by]))'
    BY <2>2, NothingOwedThen
  <2>4. ReportsFit'
    BY <1>4, <2>3 DEF ReportsFit
  <2>5. EndFits'
    BY <1>4 DEF EndFits, Over
  <2>6. QED
    BY <1>4, <2>3, <2>4, <2>5 DEF OutcomeInv
<1>5. reservation \in {"absent", "Reserved"} => runtimes = "none" /\ projectors = "unbound"
  BY <1>2 DEF PluginsFit
<1>6. CASE OpenTab
  <2>1. /\ tab = "absent" /\ active' /\ tab' = "pending" /\ toPlugin' = Append(toPlugin, NewTab)
        /\ UNCHANGED <<pluginVars, ptyVars, quarantine, decision, coord, reply, result, toPty, toScreen>>
    BY <1>6 DEF OpenTab, coordVars
  <2>2. toPlugin' = <<NewTab>> /\ toPty = <<>> /\ toScreen = <<>> /\ reservation = "absent"
    <3>1. toPlugin = <<>> /\ toPty = <<>> /\ toScreen = <<>> /\ reservation = "absent"
      BY <1>2, <2>1 DEF Early, Opened, ReservedFits
    <3>2. QED
      BY <2>1, <3>1
  <2>3. Quiet' /\ TerminalsFit' /\ ledger' = ledger
    BY <1>1, <1>2, <2>1, Unmoved DEF Quiet, Quarantined, pluginVars
  <2>4. ReservedFits'
    BY <2>1, <2>2 DEF ReservedFits, pluginVars
  <2>5. QED
    BY <1>1, <1>3, <1>4, <1>5, <2>1, <2>2, <2>3, <2>4 DEF pluginVars
<1>7. CASE CloseTab
  <2>1. /\ tab = "pending" /\ tab' = "closed" /\ active
        /\ UNCHANGED <<pluginVars, ptyVars, active, quarantine, decision, coord, reply, result,
                       toPlugin, toPty, toScreen>>
    BY <1>7 DEF CloseTab, Closable, Early, Opened, coordVars
  <2>2. /\ PluginsFit' /\ TerminalsFit' /\ ledger' = ledger /\ reservation' = reservation
        /\ Activated' <=> Activated
        /\ Refused' <=> Refused
        /\ Undone' <=> Undone
        /\ PtyUndone' <=> PtyUndone
        /\ PtyCommitted' <=> PtyCommitted
    BY <1>2, <2>1, Unmoved
  <2>3. CallsFit'
    BY <1>2, <2>1, <2>2 DEF CallsFit, Asked, AskedPty, Activating
  <2>4. AnswersFit' /\ ReportsFit'
    BY <1>2, <2>1, <2>2 DEF AnswersFit, ReportsFit, CleanFits
  <2>5. EndFits' /\ ReservedFits'
    BY <1>1, <1>2, <2>1, <2>2 DEF EndFits, Over, ReservedFits
  <2>6. QED
    BY <2>2, <2>3, <2>4, <2>5 DEF OutcomeInv
<1>8. CASE IgnoreMessage \/ HandleMismatch \/ HandlePreparationFailed \/ Wake
  <2>1. ~Wake
    BY <1>1 DEF Wake
  <2>2. toScreen = <<ApplyLayout>> /\ active
    BY <1>8, <2>1
    DEF IgnoreMessage, HandleMismatch, HandlePreparationFailed, Receives, Early, Opened
  <2>3. Message = ApplyLayout
    BY <2>2 DEF Message
  <2>4. QED
    BY <1>1, <1>3, <1>8, <2>1, <2>2, <2>3
    DEF IgnoreMessage, HandleMismatch, HandlePreparationFailed, Receives
<1>9. CASE LoopTop \/ UNCHANGED vars
  <2>1. UNCHANGED <<tab, active, quarantine, decision, result>>
    BY <1>1, <1>9 DEF LoopTop, Reconcile, Applies, vars, screenVars, coordVars
  <2>2. coord' = coord
    BY <1>1, <1>9, <2>1 DEF LoopTop, Quarantined, vars, coordVars
  <2>3. UNCHANGED <<pluginVars, ptyVars, reply, toPlugin, toPty, toScreen>>
    BY <1>9 DEF LoopTop, vars, coordVars
  <2>4. /\ PluginsFit' /\ TerminalsFit' /\ ledger' = ledger /\ reservation' = reservation
        /\ Activated' <=> Activated
        /\ Refused' <=> Refused
        /\ Undone' <=> Undone
        /\ PtyUndone' <=> PtyUndone
        /\ PtyCommitted' <=> PtyCommitted
        /\ PluginsGone' <=> PluginsGone
        /\ TerminalsGone' <=> TerminalsGone
    BY <1>2, <2>3, Unmoved
  <2>5. CallsFit'
    BY <1>2, <2>1, <2>2, <2>3, <2>4 DEF CallsFit, Asked, AskedPty, Activating
  <2>6. AnswersFit' /\ ReportsFit'
    BY <1>2, <2>1, <2>2, <2>3, <2>4 DEF AnswersFit, ReportsFit, CleanFits
  <2>7. EndFits' /\ ReservedFits'
    BY <1>1, <1>2, <2>1, <2>3, <2>4 DEF EndFits, Over, ReservedFits
  <2>8. QED
    BY <2>4, <2>5, <2>6, <2>7 DEF OutcomeInv
<1>10. CASE HandleApplyLayout
  <2>1. /\ toPlugin = <<>> /\ toPty = <<>> /\ toScreen = <<ApplyLayout>> /\ active
        /\ ledger.at = "pending"
    <3>1. toScreen # <<>>
      BY <1>10 DEF HandleApplyLayout, Receives
    <3>2. QED
      BY <3>1 DEF Early, Opened, Entry
  <2>2. PICK plan \in ApplyPlans : Begin("screen", plan)
    BY <1>10 DEF HandleApplyLayout
  <2>3. plan \in Plans /\ plan.intent \in {"Activate", "Reject"}
    BY OwnPlans DEF ApplyPlans, Plan
  <2> DEFINE call == FirstCall(plan)
             p == [plan EXCEPT !.call = call, !.attempt = 1, !.text = plan.text]
             request == [is |-> call, text |-> plan.text, by |-> "screen"]
  <2>4. call \in {"Activate", "Release"} /\ (call = "Activate" => plan.intent = "Activate")
    BY DEF FirstCall
  <2>5. p.call = call /\ p.intent = plan.intent
    BY <2>3
  <2>6. request.is = call
    OBVIOUS
  <2>7. /\ coord' = [coord EXCEPT !["screen"] = p]
        /\ toPlugin' = Append(toPlugin, request) /\ UNCHANGED toPty
    BY <2>2, <2>4 DEF Begin, Send, PtyCalls
  <2> HIDE DEF call, p, request
  <2>8. toPlugin' = <<request>>
    BY <2>1, <2>7
  <2>9. /\ coord'["screen"] = p /\ coord'["worker"] = Idle /\ coord \in [Coordinators -> Plans]
    BY <1>1, <2>7 DEF IInv, TypeInv, CoordTypes
  <2>10. /\ toScreen' = <<>> /\ toPty' = <<>>
         /\ UNCHANGED <<pluginVars, ptyVars, active, quarantine, decision, reply, result>>
    BY <1>10, <2>1, <2>7 DEF HandleApplyLayout, Receives
  <2>11. \A x : /\ Asked(x)' => x \in {call, "none"}
                /\ AskedPty(x)' => x \in {call, "none"}
    BY <1>1, <2>5, <2>6, <2>8, <2>9, <2>10 DEF Asked, AskedPty, Coordinators
  <2>12. /\ PluginsFit' /\ TerminalsFit' /\ ledger' = ledger
         /\ (PtyCommitted' <=> PtyCommitted)
    BY <1>2, <2>10, Unmoved
  <2>13. ~PtyCommitted
    BY <1>1 DEF PtyCommitted, Entry, NoOutcome, Committed
  <2>14. CallsFit'
    BY <2>1, <2>4, <2>11, <2>12, <2>13 DEF CallsFit
  <2>15. AnswersFit'
    <3>1. \A b \in Coordinators : reply'[b] = "none"
      BY <1>1, <2>10 DEF Quiet
    <3>2. QED
      BY <3>1 DEF AnswersFit
  <2>16. ReportsFit'
    <3>1. coord'["screen"].intent # "PreparationFailure" /\ coord'["worker"].intent = "none"
      BY <1>1, <2>3, <2>5, <2>9
    <3>2. quarantine'.intent = "none"
      BY <1>1, <2>10 DEF Quarantined
    <3>3. QED
      BY <2>10, <3>1, <3>2 DEF ReportsFit, CleanFits, Coordinators
  <2>17. EndFits'
    BY <1>1, <2>1, <2>10 DEF EndFits, Over
  <2>18. ReservedFits'
    <3>1. tab' # "absent"
      BY <1>1, <1>10, <2>1 DEF HandleApplyLayout, ScreenInv
    <3>2. QED
      BY <2>4, <2>6, <2>8, <2>10, <3>1 DEF ReservedFits
  <2>19. QED
    BY <2>12, <2>14, <2>15, <2>16, <2>17, <2>18 DEF OutcomeInv
<1>11. ASSUME NEW by \in Coordinators,
              (WorkerStarts /\ by = "worker") \/ TakeReply(by) \/ Timeout(by)
       PROVE  FALSE
  <2>1. coord[by].call = "none" /\ reply[by] = "none"
    BY <1>1 DEF Quiet
  <2>2. QED
    BY <1>11, <2>1 DEF WorkerStarts, TakeReply, Timeout, Kinds, PtyCalls
<1>12. CASE PluginReserves
  <2>1. toPlugin = <<NewTab>> /\ toPty = <<>> /\ toScreen = <<>> /\ Opened /\ ledger = NoEntry
    BY <1>12 DEF PluginReserves, Early
  <2>2. /\ UNCHANGED <<ptyVars, tab, active, quarantine, decision, coord, reply, result>>
        /\ toPlugin' = <<>>
    BY <1>12, <2>1 DEF PluginReserves, screenVars, coordVars
  <2>3. /\ reservation = "absent" /\ active' /\ tab' # "absent"
        /\ TerminalsFit' /\ ledger' = ledger
    BY <1>2, <1>3, <2>1, <2>2, Unmoved DEF ReservedFits, Opened
  <2>4. CASE Reserve /\ toPty' = Append(toPty, NewTab) /\ UNCHANGED toScreen
    <3>1. /\ toPty' = <<NewTab>> /\ toScreen' = <<>>
          /\ reservation' = "Reserved" /\ UNCHANGED <<receipts, runtimes, projectors>>
      BY <2>1, <2>4 DEF Reserve
    <3>2. Quiet'
      BY <1>1, <2>2, <3>1 DEF Quiet, Quarantined
    <3>3. ReservedFits'
      BY <2>2, <2>3, <3>1 DEF ReservedFits
    <3>4. QED
      BY <1>1, <1>3, <1>4, <1>5, <2>2, <2>3, <3>1, <3>2, <3>3
  <2>5. CASE /\ toScreen' = Append(toScreen, PreparationFailed(FALSE, TRUE))
             /\ UNCHANGED <<pluginVars, toPty>>
    <3> DEFINE m == PreparationFailed(FALSE, TRUE)
    <3>1. m.is = "PreparationFailed"
      BY DEF PreparationFailed
    <3>2. m.ptyClean = TRUE
      BY DEF PreparationFailed
    <3>3. toScreen' = Append(toScreen, m)
      BY <2>5
    <3> HIDE DEF m
    <3>4. toScreen' = <<m>> /\ toPty' = <<>>
      <4>1. toPty' = <<>>
        BY <2>1, <2>5
      <4>2. toScreen' = <<m>>
        BY <2>1, <3>3
      <4>3. QED
        BY <4>1, <4>2
    <3>5. Quiet'
      BY <1>1, <2>2, <2>5 DEF Quiet, Quarantined, pluginVars
    <3>6. ReservedFits'
      BY <2>2, <2>3, <3>1, <3>4 DEF ReservedFits
    <3>7. Refused'
      BY <1>2, <1>5, <2>3, <2>5, Unmoved DEF Refused, PluginsGone
    <3>8. ledger'.at = "absent"
      BY <1>1, <2>1, <2>3
    <3>9. \A i \in DOMAIN toScreen' : toScreen'[i].is = "PreparationFailed" =>
               /\ toScreen'[i].ptyClean => ledger'.at = "absent"
               /\ ~toScreen'[i].release => toScreen'[i].ptyClean /\ Refused'
      BY <3>2, <3>4, <3>7, <3>8
    <3>10. runtimes' = "none" /\ projectors' = "unbound"
      BY <1>5, <2>3, <2>5 DEF pluginVars
    <3>11. QED
      BY <1>1, <1>4, <2>2, <2>3, <3>4, <3>5, <3>6, <3>9, <3>10
  <2>6. QED
    BY <1>12, <2>4, <2>5 DEF PluginReserves
<1>13. CASE PluginResolves
  BY <1>13 DEF PluginResolves, Early
<1>14. CASE PluginLoaderFails
  BY <1>2, <1>14 DEF PluginLoaderFails, LoaderFails, Activated
<1>15. CASE PtyPrepares
  <2>1. toPlugin = <<>> /\ toPty = <<NewTab>> /\ toScreen = <<>> /\ Opened /\ ledger = NoEntry
    BY <1>15 DEF PtyPrepares, Early
  <2>2. /\ UNCHANGED <<pluginVars, tab, active, quarantine, decision, coord, reply, result, toPlugin>>
        /\ toPty' = <<>>
    BY <1>15, <2>1 DEF PtyPrepares, screenVars, coordVars
  <2>3. /\ reservation' = "Reserved" /\ active' /\ tab' # "absent"
        /\ runtimes' = "none" /\ projectors' = "unbound" /\ Quiet'
    BY <1>1, <1>2, <1>3, <1>5, <2>1, <2>2 DEF ReservedFits, Opened, pluginVars, Quiet, Quarantined
  <2>4. CASE BeginCommit /\ toScreen' = Append(toScreen, ApplyLayout)
    <3>1. /\ toScreen' = <<ApplyLayout>> /\ terminals' = "prepared"
          /\ ledger'.at = "pending" /\ ledger'.outcome = NoOutcome
      BY <2>1, <2>4 DEF BeginCommit, Entry
    <3>2. TerminalsFit'
      BY <3>1 DEF TerminalsFit
    <3>3. ReservedFits'
      BY <2>1, <2>2, <2>3 DEF ReservedFits
    <3>4. QED
      BY <1>1, <1>3, <1>4, <2>1, <2>2, <2>3, <3>1, <3>2, <3>3
  <2>5. ASSUME NEW fails \in SUBSET (Faults \cap PtyFaults), NEW paid \in BOOLEAN,
               PreparationFails(fails, paid),
               toScreen' = Append(toScreen, PreparationFailed(TRUE, ~("close" \in fails)))
                             \o Paid("close" \in fails, paid)
        PROVE  OutcomeInv'
    <3> DEFINE debt == "close" \in fails
               m == PreparationFailed(TRUE, ~debt)
    <3>1. toScreen' = <<m>> \o Paid(debt, paid)
      <4>1. Append(toScreen, m) = <<m>>
        <5> HIDE DEF m
        <5>1. QED
          BY <2>1
      <4>2. QED
        BY <2>5, <4>1, Zenon
    <3>2. /\ debt \/ paid \in BOOLEAN
          /\ ledger'.at = "absent" <=> (~debt \/ paid)
          /\ ledger'.outcome = NoOutcome
          /\ TerminalsFit'
      <4>1. CASE "close" \notin fails \/ paid
        <5>1. UNCHANGED ptyVars
          BY <2>5, <4>1 DEF PreparationFails
        <5>2. TerminalsFit' /\ ledger' = NoEntry
          BY <1>2, <2>1, <5>1, Unmoved
        <5>3. QED
          BY <1>1, <4>1, <5>2
      <4>2. CASE ~("close" \notin fails \/ paid)
        <5>1. ledger'.at = "preparationDebt" /\ ledger'.outcome = NoOutcome
          BY <2>5, <4>2 DEF PreparationFails, Entry
        <5>2. TerminalsFit'
          BY <5>1 DEF TerminalsFit
        <5>3. QED
          BY <4>2, <5>1, <5>2
      <4>3. QED
        BY <4>1, <4>2
    <3>3. debt \in BOOLEAN
      OBVIOUS
    <3> HIDE DEF debt
    <3>4. Reported(toScreen', debt, paid)
      <4>1. Reported(<<m>> \o Paid(debt, paid), debt, paid)
        BY <3>3, EarlyReports, Zenon DEF m
      <4>2. QED
        BY <3>1, <4>1, Zenon
    <3>5. \A i \in DOMAIN toScreen' : toScreen'[i].is = "PreparationFailed" =>
               /\ toScreen'[i].ptyClean => ledger'.at = "absent"
               /\ ~toScreen'[i].release => toScreen'[i].ptyClean /\ Refused'
      BY <3>2, <3>4 DEF Reported
    <3>6. ReservedFits'
      BY <2>1, <2>2, <2>3 DEF ReservedFits
    <3>7. QED
      BY <1>1, <1>4, <2>1, <2>2, <2>3, <3>2, <3>5, <3>6
  <2>6. QED
    BY <1>15, <2>4, <2>5 DEF PtyPrepares
<1>16. CASE PtyResolves
  BY <1>16 DEF PtyResolves, Early
<1>17. CASE PtyServesOthers
  BY <1>1, <1>17 DEF PtyServesOthers
<1>18. QED
  BY <1>6, <1>7, <1>8, <1>9, <1>10, <1>11, <1>12, <1>13, <1>14, <1>15, <1>16, <1>17, <1>1
  DEF Next, ScreenStep, PluginStep, PtyStep, Settled

-----------------------------------------------------------------------------
\* Every step keeps the invariant.
LEMMA OutcomeStep == IInv /\ OutcomeInv /\ [Next]_vars => OutcomeInv'
<1> SUFFICES ASSUME IInv, OutcomeInv, [Next]_vars
             PROVE  OutcomeInv'
  OBVIOUS
<1>1. CASE UNCHANGED vars
  <2>1. UNCHANGED <<pluginVars, ptyVars, tab, active, quarantine, decision, coord, reply, result,
                    toPlugin, toPty, toScreen>>
    BY <1>1 DEF vars, screenVars, coordVars
  <2>2. /\ PluginsFit' <=> PluginsFit
        /\ TerminalsFit' <=> TerminalsFit
        /\ ledger' = ledger /\ reservation' = reservation
        /\ Activated' <=> Activated
        /\ Refused' <=> Refused
        /\ Undone' <=> Undone
        /\ PtyUndone' <=> PtyUndone
        /\ PtyCommitted' <=> PtyCommitted
        /\ PluginsGone' <=> PluginsGone
        /\ TerminalsGone' <=> TerminalsGone
    BY <2>1, Unmoved
  <2>3. CallsFit' <=> CallsFit
    BY <2>1, <2>2 DEF CallsFit, Asked, AskedPty, Activating
  <2>4. (AnswersFit' <=> AnswersFit) /\ (ReportsFit' <=> ReportsFit)
    BY <2>1, <2>2 DEF AnswersFit, ReportsFit, CleanFits
  <2>5. (EndFits' <=> EndFits) /\ (ReservedFits' <=> ReservedFits)
    BY <2>1, <2>2 DEF EndFits, Over, ReservedFits
  <2>6. QED
    BY <2>2, <2>3, <2>4, <2>5 DEF OutcomeInv
<1>2. CASE Early /\ Next
  BY <1>2, OutcomeEarly
<1>3. CASE Later /\ Next
  <2>1. CASE OpenTab \/ CloseTab \/ ScreenStep
    BY <1>3, <2>1, OutcomeScreen
  <2>2. CASE WorkerStarts \/ \E by \in Coordinators : TakeReply(by) \/ Timeout(by)
    BY <1>3, <2>2, OutcomeCoordinates DEF Coordinators
  <2>3. CASE PluginStep \/ PluginLoaderFails
    BY <1>3, <2>3, OutcomePlugin DEF PluginStep
  <2>4. CASE PtyStep \/ PtyServesOthers
    BY <1>3, <2>4, OutcomePty DEF PtyStep
  <2>5. QED
    BY <1>1, <1>3, <2>1, <2>2, <2>3, <2>4 DEF Next, Settled
<1>4. QED
  BY <1>1, <1>2, <1>3 DEF IInv

\* The invariant holds of every behaviour.
LEMMA OutcomeInvariant == Spec => [](IInv /\ OutcomeInv)
<1>1. Init => OutcomeInv
  <2> SUFFICES ASSUME Init
               PROVE  OutcomeInv
    OBVIOUS
  <2>1. Idle.call = "none" /\ Idle.intent = "none"
    BY Coordination
  <2>2. ledger.at = "absent" /\ ledger.outcome = NoOutcome
    BY DEF Init, PtyInit, NoEntry, Entry
  <2>3. Unasked
    BY <2>1, <2>2 DEF Init, PluginInit, Unasked, Quiet, Quarantined
  <2>4. /\ PluginsFit /\ CallsFit /\ AnswersFit
        /\ CleanFits(quarantine) /\ \A by \in Coordinators : CleanFits(coord[by])
    BY <2>3, NothingOwed
  <2>5. TerminalsFit
    BY <2>2 DEF Init, PtyInit, TerminalsFit
  <2>6. ReportsFit
    BY <2>4 DEF Init, ReportsFit
  <2>7. EndFits /\ ReservedFits
    BY DEF Init, PluginInit, EndFits, Over, ReservedFits
  <2>8. QED
    BY <2>4, <2>5, <2>6, <2>7 DEF OutcomeInv
<1>2. QED
  BY <1>1, Invariant, OutcomeStep, PTL DEF Spec

-----------------------------------------------------------------------------
(* What is over is over. *)

\* RejectionLeavesNothing, for any bounds: when Screen has given a transaction
\* up no thread holds anything for it, whatever was lost, repeated or failed on
\* the way.
THEOREM RejectionLeaves == Spec => []RejectionLeavesNothing
<1>1. OutcomeInv => RejectionLeavesNothing
  BY DEF OutcomeInv, EndFits, RejectionLeavesNothing, PluginsGone, TerminalsGone
<1>2. QED
  BY <1>1, OutcomeInvariant, PTL

\* What the Plugin thread does, once Screen has had PTY's report.
LEMMA PluginActs ==
  ASSUME IInv, Later, OutcomeInv, PluginReserves \/ PluginResolves \/ PluginLoaderFails
  PROVE  /\ UNCHANGED <<ptyVars, screenVars>>
         /\ \/ \E fails, ack : \E kind \in Kinds :
                 ResolvePlugins(kind, fails, ack) /\ Asked(kind) /\ Requestable(kind)
            \/ \E fails : LoaderFails(fails)
<1>1. TypeInv /\ NoMoreReports /\ PluginInv /\ CallsFit
  BY DEF IInv, Later, OutcomeInv
<1>2. ASSUME PluginReserves
      PROVE  FALSE
  <2>1. toPlugin # <<>> /\ Head(toPlugin).is = "NewTab"
    BY <1>2 DEF PluginReserves, NewTab
  <2>2. QED
    BY <1>1, <2>1, ChannelKinds DEF NoMoreReports
<1>3. CASE PluginResolves
  <2>1. PICK fails \in SUBSET (Faults \cap PluginFaults), ack \in PluginAcks :
          ResolvePlugins(Head(toPlugin).is, fails, ack) /\ toPlugin # <<>>
    BY <1>3 DEF PluginResolves
  <2>2. Head(toPlugin).is \in Kinds /\ Asked(Head(toPlugin).is)
    BY <2>1, CallHeads
  <2>3. Requestable(Head(toPlugin).is)
    BY <1>1, <2>2 DEF Requestable, CallsFit, PluginInv, Cannot, NeverAsked
  <2>4. UNCHANGED <<ptyVars, screenVars>>
    BY <1>3 DEF PluginResolves
  <2>5. QED
    BY <2>1, <2>2, <2>3, <2>4
<1>4. CASE PluginLoaderFails
  BY <1>4 DEF PluginLoaderFails
<1>5. QED
  BY <1>2, <1>3, <1>4

\* What the PTY thread does then.
LEMMA PtyActs ==
  ASSUME IInv, Later, OutcomeInv, PtyPrepares \/ PtyResolves \/ PtyServesOthers
  PROVE  /\ UNCHANGED <<pluginVars, screenVars>>
         /\ \E outcome, ack : TerminalsMove(outcome, ack) /\ (outcome = Committed => Activated)
<1>1. TypeInv /\ NoMoreReports /\ TerminalsFit /\ CallsFit
  BY DEF IInv, Later, OutcomeInv
<1>2. ASSUME PtyPrepares
      PROVE  FALSE
  <2>1. toPty # <<>> /\ Head(toPty).is = "NewTab"
    BY <1>2 DEF PtyPrepares, NewTab
  <2>2. QED
    BY <1>1, <2>1, ChannelKinds DEF NoMoreReports
<1>3. UNCHANGED <<pluginVars, screenVars>>
  BY <1>2 DEF PtyResolves, PtyServesOthers
<1>4. CASE PtyResolves
  <2> DEFINE outcome == PtyOutcome(Head(toPty))
  <2>1. PICK fails \in SUBSET (Faults \cap PtyFaults), paid \in BOOLEAN, ack \in PtyAcks :
          ResolveCommit(outcome, fails, paid, ack) /\ toPty # <<>>
    BY <1>4 DEF PtyResolves
  <2>2. Head(toPty).is \in PtyCalls /\ AskedPty(Head(toPty).is)
    BY <2>1, CallHeads
  <2>3. outcome # NoOutcome /\ (outcome = Committed => Head(toPty).is = "Committed")
    BY DEF PtyOutcome, Committed, Rejected, NoOutcome
  <2> HIDE DEF outcome
  <2>4. outcome = Committed => Activated
    BY <1>1, <2>2, <2>3 DEF CallsFit
  <2>5. TerminalsMove(outcome, ack)
    BY <1>1, <2>1, <2>3, TerminalsMoved
  <2>6. QED
    BY <1>3, <2>4, <2>5
<1>5. CASE PtyServesOthers
  <2>1. RetryPreparationDebt(TRUE)
    BY <1>5 DEF PtyServesOthers
  <2>2. Rejected(NoText) # NoOutcome /\ Rejected(NoText) # Committed
    BY DEF Rejected, NoOutcome, Committed
  <2>3. TerminalsMove(Rejected(NoText), "none")
    BY <1>1, <2>1, <2>2, TerminalsMoved
  <2>4. QED
    BY <1>3, <2>2, <2>3
<1>6. QED
  BY <1>2, <1>4, <1>5

\* A transaction that is over.
LEMMA Final ==
  ASSUME IInv, OutcomeInv, IInv', [Next]_vars, Over
  PROVE  /\ UNCHANGED <<screenVars, ptyVars>>
         /\ pluginVars' # pluginVars =>
              decision = "Committed" /\ Activated' /\ ~HasReceipt("Release")'
<1>1. /\ Later /\ ScreenInv /\ ~active /\ tab # "absent"
      /\ PluginTypeOK /\ PluginInv /\ PluginsFit /\ TerminalsFit /\ EndFits
  BY DEF Over, IInv, Early, Opened, Later, TypeInv, OutcomeInv
<1>2. decision # "Committed" => PluginsGone /\ TerminalsGone
  BY <1>1 DEF EndFits, Over
<1>3. ledger.at \in {"absent", "receipt"}
  <2>1. CASE decision = "Committed"
    BY <1>1, <2>1 DEF Later, Whole, PtyCommitted, Entry
  <2>2. CASE decision # "Committed"
    BY <1>2, <2>2 DEF TerminalsGone
  <2>3. QED
    BY <2>1, <2>2
<1>4. ASSUME decision' = "Committed"
      PROVE  Activated' /\ ~HasReceipt("Release")'
  BY <1>4 DEF IInv, Early, Quiet, Later, Whole
<1>5. CASE UNCHANGED vars
  BY <1>5 DEF vars, pluginVars, ptyVars, screenVars
<1>6. CASE OpenTab \/ CloseTab \/ ScreenStep
  <2>1. ~OpenTab /\ ~CloseTab
    BY <1>1 DEF OpenTab, CloseTab, Closable, EndFits
  <2>2. IgnoreMessage \/ LoopTop \/ Wake
    BY <1>1, <1>6, <2>1
    DEF ScreenStep, HandleApplyLayout, HandleMismatch, HandlePreparationFailed
  <2>3. QED
    BY <1>1, <2>2 DEF IgnoreMessage, LoopTop, Wake, Reconcile, Applies
<1>7. ASSUME NEW by \in Coordinators,
             (WorkerStarts /\ by = "worker") \/ TakeReply(by) \/ Timeout(by)
      PROVE  FALSE
  <2>1. reply[by] # "none" \/ coord[by].call \in Calls \cup {"sleep"}
    BY <1>7 DEF WorkerStarts, TakeReply, Timeout, Calls
  <2>2. coord[by].intent # "none"
    BY <2>1, Answered
  <2>3. QED
    BY <1>1, <2>2 DEF ScreenInv, Coordinators
<1>8. CASE PluginStep \/ PluginLoaderFails
  <2>1. UNCHANGED <<ptyVars, screenVars>>
    BY <1>1, <1>8, PluginActs DEF PluginStep
  <2>2. \E kind, ack : PluginsMove(kind, ack)
    <3>1. CASE \E fails, ack : \E kind \in Kinds :
                 ResolvePlugins(kind, fails, ack) /\ Asked(kind) /\ Requestable(kind)
      BY <1>1, <2>1, <3>1, PluginsMoved
    <3>2. CASE \E fails : LoaderFails(fails)
      BY <1>1, <2>1, <3>2, LoadersMoved
    <3>3. QED
      BY <1>1, <1>8, <3>1, <3>2, PluginActs DEF PluginStep
  <2>3. PluginsGone => UNCHANGED pluginVars
    BY <2>2 DEF PluginsMove
  <2>4. decision' = decision
    BY <2>1 DEF screenVars
  <2>5. QED
    BY <1>2, <1>4, <2>1, <2>3, <2>4
<1>9. CASE PtyStep \/ PtyServesOthers
  <2>1. /\ UNCHANGED <<pluginVars, screenVars>>
        /\ \E outcome, ack : TerminalsMove(outcome, ack)
    BY <1>1, <1>9, PtyActs DEF PtyStep
  <2>2. QED
    BY <1>3, <2>1 DEF TerminalsMove
<1>10. QED
  BY <1>5, <1>6, <1>7, <1>8, <1>9 DEF Next, Settled, Coordinators

\* EndIsFinal, for any bounds: no request that is still in a channel, no late
\* report and no debt that is paid late changes what Screen, PTY or Plugin hold
\* once the transaction is over; only a loader of a committed layout may fail.
THEOREM EndsFinally == Spec => EndIsFinal
<1>1. IInv /\ OutcomeInv /\ IInv' /\ [Next]_vars =>
        [Over => /\ UNCHANGED <<screenVars, ptyVars>>
                 /\ pluginVars' # pluginVars =>
                      /\ decision = "Committed"
                      /\ receipts'["Activate"].as = "Activated"
                      /\ receipts'["Release"] = NoReceipt]_vars
  BY Final DEF Activated, HasReceipt
<1>2. QED
  BY <1>1, OutcomeInvariant, PTL DEF Spec, EndIsFinal

-----------------------------------------------------------------------------
(* The refinement. *)

\* What the plugins became, by what Plugin keeps.
PluginsAre ==
  IF HasReceipt("Compensate")
    THEN IF receipts["Compensate"].ids = "runtimes" THEN "failed" ELSE "freed"
  ELSE IF Activated
    THEN IF reservation = "ActivationFailed" THEN "failed" ELSE "live"
  ELSE IF reservation # "absent" THEN "held"
  ELSE IF Received = {} THEN "none" ELSE "freed"

LEMMA PluginStates == PluginsFit => PluginsBecame = PluginsAre
<1> SUFFICES ASSUME PluginsFit
             PROVE  PluginsBecame = PluginsAre
  OBVIOUS
<1>1. NoReceipt.as = "none"
  BY DEF NoReceipt
<1>2. CASE HasReceipt("Compensate")
  <2>1. receipts["Compensate"].as = "Compensated" /\ receipts["Compensate"] # NoReceipt
    BY <1>2 DEF PluginsFit, HasReceipt
  <2>2. PluginsBecame = IF receipts["Compensate"].ids = "runtimes" THEN "failed" ELSE "freed"
    BY <2>1 DEF PluginsBecame
  <2>3. QED
    BY <1>2, <2>2 DEF PluginsAre
<1>3. CASE ~HasReceipt("Compensate")
  <2>1. receipts["Compensate"] = NoReceipt /\ receipts["Compensate"].as # "Compensated"
    BY <1>1, <1>3 DEF HasReceipt
  <2>2. QED
    BY <1>3, <2>1 DEF PluginsBecame, PluginsAre, Activated
<1>4. QED
  BY <1>2, <1>3

\* What the terminals became, by what PTY keeps.
TerminalsAre ==
  IF ledger.at = "absent" THEN "none"
  ELSE IF ledger.at # "receipt" THEN "held"
  ELSE IF PtyCommitted THEN "live" ELSE "freed"

LEMMA TerminalStates == TerminalsFit /\ PtyTypeOK(Texts) => TerminalsBecame = TerminalsAre
BY DEF TerminalsFit, TerminalsBecame, TerminalsAre, PtyTypeOK

\* Both, of the state after a step.
LEMMA StatesThen ==
  /\ PluginsFit' => PluginsBecame' = PluginsAre'
  /\ TerminalsFit' /\ PtyTypeOK(Texts)' => TerminalsBecame' = TerminalsAre'
<1>1. PluginsFit' => (PluginsBecame = PluginsAre)'
  BY PluginStates, PTL
<1>2. TerminalsFit' /\ PtyTypeOK(Texts)' => (TerminalsBecame = TerminalsAre)'
  BY TerminalStates, PTL
<1>3. QED
  BY <1>1, <1>2

\* How the plugins change: as what they were, only as far as PTY allows it.
PluginsChange ==
  \/ PluginsBecame' = PluginsBecame
  \/ /\ PluginsBecame = "held" /\ PluginsBecame' = "live"
     /\ Asked("Activate") /\ reservation = "Reserved"
  \/ PluginsBecame = "held" /\ PluginsBecame' = "freed" /\ ~Activated /\ reservation # "absent"
  \/ /\ PluginsBecame \in {"live", "failed"} /\ PluginsBecame' = "freed"
     /\ PtyUndone /\ ~PluginsGone
  \/ PluginsBecame = "live" /\ PluginsBecame' = "failed"

\* Resolutions and failing loaders change the plugins so.
LEMMA PluginsChanged ==
  ASSUME PluginTypeOK, PluginInv, PluginsFit, PluginTypeOK', PluginsFit',
         \/ \E fails, ack : \E kind \in Kinds :
              ResolvePlugins(kind, fails, ack) /\ Asked(kind) /\ Requestable(kind)
         \/ \E fails : LoaderFails(fails)
  PROVE  PluginsChange
<1>1. /\ receipts \in [Kinds -> [as : {"none"} \cup (PluginAcks \ PluginErrors),
                                ids : {"panes", "runtimes"}]]
      /\ "Activate" \in Kinds /\ "Release" \in Kinds /\ "Compensate" \in Kinds
      /\ HasReceipt("Activate") => reservation # "Reserved"
      /\ Activated => HasReceipt("Activate")
      /\ \A kind \in Kinds : kind \in Received <=> HasReceipt(kind)
      /\ \A kind \in Kinds : HasReceipt(kind)' => Received' # {}
      /\ HasReceipt("Compensate") => reservation = "absent"
  BY DEF PluginTypeOK, Kinds, PluginInv, Activated, HasReceipt, NoReceipt, Received, PluginsFit
<1>2. PluginsBecame = PluginsAre
  BY PluginStates
<1>3. PluginsBecame' = PluginsAre'
  BY StatesThen
<1>4. ASSUME UNCHANGED <<reservation, receipts>>
      PROVE  PluginsBecame' = PluginsBecame
  BY <1>4 DEF PluginsBecame, Received
\* the plugins that are compensated
<1>5. ASSUME ~HasReceipt("Compensate"), Requestable("Compensate"), Record("Compensate", "Compensated", "panes")
      PROVE  PluginsChange
  <2>1. receipts'["Compensate"] = [as |-> "Compensated", ids |-> "panes"]
    BY <1>1, <1>5 DEF Record
  <2>2. HasReceipt("Compensate")' /\ receipts'["Compensate"].ids # "runtimes"
    BY <2>1 DEF HasReceipt, NoReceipt
  <2>3. PtyUndone /\ Activated /\ ~PluginsGone
    BY <1>5 DEF Requestable, PluginsGone
  <2>4. QED
    BY <1>2, <1>3, <1>5, <2>2, <2>3 DEF PluginsChange, PluginsAre
<1>6. ASSUME NEW fails, NEW ack, NEW kind \in Kinds, ResolvePlugins(kind, fails, ack), Asked(kind),
             Requestable(kind)
      PROVE  PluginsChange
  <2>1. CASE UNCHANGED pluginVars
    BY <1>4, <2>1 DEF pluginVars, PluginsChange
  <2>2. CASE CompensateEmpty(kind, ack)
    BY <1>1, <1>5, <1>6, <2>2 DEF CompensateEmpty
  <2>3. CASE kind = "Activate" /\ ~HasReceipt(kind) /\ reservation = "Reserved" /\ Activate(fails, ack)
    <3>1. /\ receipts'["Activate"] = [as |-> "Activated", ids |-> "panes"]
          /\ receipts'["Compensate"] = receipts["Compensate"]
          /\ reservation' # "ActivationFailed"
      BY <1>1, <2>3 DEF Activate, Record
    <3>2. /\ Activated' /\ ~Activated /\ ~HasReceipt("Compensate")
          /\ ~HasReceipt("Compensate")'
      BY <1>1, <2>3, <3>1 DEF Activated, HasReceipt
    <3>3. QED
      BY <1>2, <1>3, <1>6, <2>3, <3>1, <3>2 DEF PluginsChange, PluginsAre
  <2>4. CASE /\ kind = "Activate" /\ ~HasReceipt(kind) /\ reservation = "Reserved"
             /\ ActivateRollsBack(fails, ack)
    <3>1. ~Activated /\ ~HasReceipt("Compensate")
      BY <1>1, <2>4
    <3>2. CASE CleansUp(fails)
      <4>1. /\ receipts'["Activate"] = [as |-> "ActivationRolledBack", ids |-> "panes"]
            /\ receipts'["Compensate"] = receipts["Compensate"]
            /\ reservation' = "absent"
        BY <1>1, <2>4, <3>2 DEF ActivateRollsBack, Record
      <4>2. ~Activated' /\ ~HasReceipt("Compensate")' /\ HasReceipt("Activate")'
        BY <3>1, <4>1 DEF Activated, HasReceipt, NoReceipt
      <4>3. Received' # {}
        BY <1>1, <4>2
      <4>4. QED
        BY <1>2, <1>3, <2>4, <3>1, <4>1, <4>2, <4>3 DEF PluginsChange, PluginsAre
    <3>3. CASE ~CleansUp(fails)
      <4>1. reservation' = "ActivationFailed" /\ receipts' = receipts
        BY <2>4, <3>3 DEF ActivateRollsBack
      <4>2. ~Activated' /\ ~HasReceipt("Compensate")'
        BY <3>1, <4>1 DEF Activated, HasReceipt
      <4>3. QED
        BY <1>2, <1>3, <2>4, <3>1, <4>1, <4>2 DEF PluginsChange, PluginsAre
    <3>4. QED
      BY <3>2, <3>3
  <2>5. CASE /\ kind = "Release" /\ ~HasReceipt(kind) /\ reservation \in {"Reserved", "ActivationFailed"}
             /\ Release(fails, ack)
    <3>1. CASE CleansUp(fails)
      <4>1. /\ receipts'["Release"] = [as |-> "Released", ids |-> "panes"]
            /\ receipts'["Activate"] = receipts["Activate"]
            /\ receipts'["Compensate"] = receipts["Compensate"]
            /\ reservation' = "absent"
        BY <1>1, <2>5, <3>1 DEF Release, Record
      <4>2. ~Activated /\ ~HasReceipt("Compensate")
        BY <1>1, <1>6, <2>5 DEF Requestable
      <4>3. ~Activated' /\ ~HasReceipt("Compensate")' /\ HasReceipt("Release")'
        BY <4>1, <4>2 DEF Activated, HasReceipt, NoReceipt
      <4>4. Received' # {}
        BY <1>1, <4>3
      <4>5. QED
        BY <1>2, <1>3, <2>5, <4>1, <4>2, <4>3, <4>4 DEF PluginsChange, PluginsAre
    <3>2. CASE ~CleansUp(fails)
      BY <2>1, <2>5, <3>2 DEF Release
    <3>3. QED
      BY <3>1, <3>2
  <2>6. CASE /\ kind = "Compensate" /\ ~HasReceipt(kind) /\ reservation \in {"Activated", "ActivationFailed"}
             /\ Compensate(fails, ack)
    <3>1. CASE CleansUp(fails)
      BY <1>5, <1>6, <2>6, <3>1 DEF Compensate
    <3>2. CASE ~CleansUp(fails)
      BY <1>4, <2>6, <3>2 DEF Compensate, PluginsChange
    <3>3. QED
      BY <3>1, <3>2
  <2>7. QED
    BY <1>1, <1>6, <2>1, <2>2, <2>3, <2>4, <2>5, <2>6
    DEF ResolvePlugins, Replay, RefuseUnreserved, RefuseState, ResolvableFrom
<1>7. ASSUME NEW fails, LoaderFails(fails)
      PROVE  PluginsChange
  <2>1. Activated /\ reservation # "absent" /\ ~HasReceipt("Compensate")
    BY <1>1, <1>7 DEF LoaderFails, Activated
  <2>2. CASE CleansUp(fails)
    <3>1. receipts'["Compensate"] = [as |-> "Compensated", ids |-> "runtimes"]
      BY <1>1, <1>7, <2>2 DEF LoaderFails, Record
    <3>2. HasReceipt("Compensate")' /\ receipts'["Compensate"].ids = "runtimes"
      BY <3>1 DEF HasReceipt, NoReceipt
    <3>3. QED
      BY <1>2, <1>3, <2>1, <3>2 DEF PluginsChange, PluginsAre
  <2>3. CASE ~CleansUp(fails)
    <3>1. reservation' = "ActivationFailed" /\ receipts' = receipts
      BY <1>7, <2>3 DEF LoaderFails
    <3>2. Activated' /\ ~HasReceipt("Compensate")'
      BY <2>1, <3>1 DEF Activated, HasReceipt
    <3>3. QED
      BY <1>2, <1>3, <2>1, <3>1, <3>2 DEF PluginsChange, PluginsAre
  <2>4. QED
    BY <2>2, <2>3
<1>8. QED
  BY <1>6, <1>7

\* Everything LayoutOutcome speaks of.
Stays == PluginsBecame' = PluginsBecame /\ TerminalsBecame' = TerminalsBecame /\ Decided' = Decided

LEMMA Unchanged ==
  /\ UNCHANGED pluginVars => PluginsBecame' = PluginsBecame
  /\ UNCHANGED ptyVars => TerminalsBecame' = TerminalsBecame
  /\ UNCHANGED screenVars => Decided' = Decided /\ decision' = decision
<1>1. UNCHANGED pluginVars => PluginsBecame' = PluginsBecame
  BY DEF pluginVars, PluginsBecame, Received
<1>2. UNCHANGED ptyVars => TerminalsBecame' = TerminalsBecame
  BY DEF ptyVars, TerminalsBecame
<1>3. UNCHANGED screenVars => Decided' = Decided /\ decision' = decision
  BY DEF screenVars, Decided, Over
<1>4. QED
  BY <1>1, <1>2, <1>3

\* What a decision finds.
LEMMA Decisions ==
  ASSUME IInv, OutcomeInv
  PROVE  /\ Decided = "commit" => Activated /\ PtyCommitted
         /\ Decided = "abort" => PluginsGone /\ TerminalsGone
         /\ Decided \in {"open", "commit", "abort"}
         /\ PluginsBecame = PluginsAre /\ TerminalsBecame = TerminalsAre
<1>1. PluginsFit /\ TerminalsFit /\ EndFits /\ PtyTypeOK(Texts)
  BY DEF IInv, OutcomeInv, TypeInv
<1>2. PluginsBecame = PluginsAre /\ TerminalsBecame = TerminalsAre
  BY <1>1, PluginStates, TerminalStates
<1>3. decision = "Committed" => Activated /\ PtyCommitted
  BY DEF IInv, Early, Quiet, Later, Whole
<1>4. Over /\ decision # "Committed" => PluginsGone /\ TerminalsGone
  BY <1>1 DEF EndFits
<1>5. QED
  BY <1>2, <1>3, <1>4 DEF Decided

\* A step of the Plugin thread.
LEMMA PluginsPromise ==
  ASSUME IInv, Later, OutcomeInv, IInv', OutcomeInv',
         PluginReserves \/ PluginResolves \/ PluginLoaderFails
  PROVE  Promise!Next \/ Stays
<1>1. /\ PluginTypeOK /\ PluginInv /\ PluginsFit /\ CallsFit /\ TerminalsFit
      /\ PluginTypeOK' /\ PluginsFit'
  BY DEF IInv, Later, TypeInv, OutcomeInv
<1>2. UNCHANGED <<ptyVars, screenVars>>
  BY PluginActs
<1>3. TerminalsBecame' = TerminalsBecame /\ Decided' = Decided
  BY <1>2, Unchanged
<1>4. PluginsChange
  BY <1>1, PluginActs, PluginsChanged
<1>5. /\ Decided = "commit" => Activated /\ PtyCommitted
      /\ Decided = "abort" => PluginsGone
      /\ Decided \in {"open", "commit", "abort"}
      /\ TerminalsBecame = TerminalsAre
  BY Decisions
<1>6. ~(PtyUndone /\ PtyCommitted)
  BY DEF PtyUndone, PtyCommitted, Entry
<1>7. CASE PluginsBecame' = PluginsBecame
  BY <1>3, <1>7 DEF Stays
<1>8. CASE /\ PluginsBecame = "held" /\ PluginsBecame' = "live"
           /\ Asked("Activate") /\ reservation = "Reserved"
  <2>1. ledger.at = "pending"
    BY <1>1, <1>8 DEF CallsFit
  <2>2. TerminalsBecame = "held"
    BY <1>5, <2>1 DEF TerminalsAre
  <2>3. Promise!PluginsGoLive
    BY <1>3, <1>8, <2>2 DEF Promise!PluginsGoLive
  <2>4. QED
    BY <2>3 DEF Promise!Next
<1>9. CASE PluginsBecame = "held" /\ PluginsBecame' = "freed" /\ ~Activated /\ reservation # "absent"
  <2>1. Decided = "open"
    BY <1>5, <1>9 DEF PluginsGone
  <2>2. ~PtyCommitted
    BY <1>1, <1>9 DEF CallsFit
  <2>3. TerminalsBecame # "live"
    BY <1>5, <2>2 DEF TerminalsAre
  <2>4. Promise!PluginsGo
    BY <1>3, <1>9, <2>1, <2>3 DEF Promise!PluginsGo
  <2>5. QED
    BY <2>4 DEF Promise!Next
<1>10. CASE /\ PluginsBecame \in {"live", "failed"} /\ PluginsBecame' = "freed"
            /\ PtyUndone /\ ~PluginsGone
  <2>1. Decided = "open"
    BY <1>5, <1>6, <1>10
  <2>2. ledger.at = "receipt" /\ ~PtyCommitted
    BY <1>6, <1>10 DEF PtyUndone
  <2>3. TerminalsBecame = "freed"
    BY <1>5, <2>2 DEF TerminalsAre
  <2>4. Promise!PluginsGo
    BY <1>3, <1>10, <2>1, <2>3 DEF Promise!PluginsGo
  <2>5. QED
    BY <2>4 DEF Promise!Next
<1>11. CASE PluginsBecame = "live" /\ PluginsBecame' = "failed"
  <2>1. Promise!PluginsFail
    BY <1>3, <1>11 DEF Promise!PluginsFail
  <2>2. QED
    BY <2>1 DEF Promise!Next
<1>12. QED
  BY <1>4, <1>7, <1>8, <1>9, <1>10, <1>11 DEF PluginsChange

\* A step of the PTY thread.
LEMMA TerminalsPromise ==
  ASSUME IInv, Later, OutcomeInv, IInv', OutcomeInv',
         PtyPrepares \/ PtyResolves \/ PtyServesOthers
  PROVE  Promise!Next \/ Stays
<1>1. /\ PluginsFit /\ TerminalsFit /\ TerminalsFit' /\ PtyTypeOK(Texts) /\ PtyTypeOK(Texts)'
  BY DEF IInv, TypeInv, OutcomeInv
<1>2. UNCHANGED <<pluginVars, screenVars>>
  BY PtyActs
<1>3. PluginsBecame' = PluginsBecame /\ Decided' = Decided
  BY <1>2, Unchanged
<1>4. PICK outcome, ack : TerminalsMove(outcome, ack) /\ (outcome = Committed => Activated)
  BY PtyActs
<1>5. /\ Decided = "commit" => PtyCommitted
      /\ Decided = "abort" => TerminalsGone
      /\ Decided \in {"open", "commit", "abort"}
      /\ TerminalsBecame = TerminalsAre /\ PluginsBecame = PluginsAre
  BY Decisions
<1>6. TerminalsBecame' = TerminalsAre'
  BY <1>1, StatesThen
<1>7. PtyCommitted => ledger.at = "receipt"
  BY DEF PtyCommitted, Entry
<1>8. CASE ledger.at \in {"absent", "receipt"}
  <2>1. UNCHANGED ptyVars
    BY <1>4, <1>8 DEF TerminalsMove
  <2>2. QED
    BY <1>3, <2>1, Unchanged DEF Stays
<1>9. CASE ledger.at \notin {"absent", "receipt"}
  <2>1. TerminalsBecame = "held" /\ ~PtyCommitted
    BY <1>5, <1>7, <1>9 DEF TerminalsAre
  <2>2. Decided = "open"
    BY <1>5, <1>9, <2>1 DEF TerminalsGone
  <2>3. CASE TerminalsBecame' = "held"
    BY <1>3, <2>1, <2>3 DEF Stays
  <2>4. CASE TerminalsBecame' \in {"none", "freed"}
    <3>1. Promise!TerminalsGo
      BY <1>3, <2>1, <2>2, <2>4 DEF Promise!TerminalsGo
    <3>2. QED
      BY <3>1 DEF Promise!Next
  <2>5. CASE PtyCommitted' /\ TerminalsBecame' = "live"
    <3>1. Activated
      BY <1>4, <2>1, <2>5 DEF TerminalsMove
    <3>2. HasReceipt("Compensate") => receipts["Compensate"].ids = "runtimes"
      <4>1. ~PtyUndone
        BY <1>9 DEF PtyUndone
      <4>2. receipts["Compensate"].ids \in {"panes", "runtimes"}
        BY DEF IInv, TypeInv, PluginTypeOK, Kinds
      <4>3. QED
        BY <1>1, <4>1, <4>2 DEF PluginsFit
    <3>3. PluginsBecame \in {"live", "failed"}
      BY <1>5, <3>1, <3>2 DEF PluginsAre
    <3>4. Promise!TerminalsGoLive
      BY <1>3, <2>1, <2>5, <3>3 DEF Promise!TerminalsGoLive
    <3>5. QED
      BY <3>4 DEF Promise!Next
  <2>6. QED
    BY <1>6, <2>3, <2>4, <2>5 DEF TerminalsAre
<1>10. QED
  BY <1>8, <1>9

\* The layout on its way to Plugin and PTY.
LEMMA PreparesPromise ==
  ASSUME IInv, Early, OutcomeInv, IInv', OutcomeInv',
         PluginStep \/ PluginLoaderFails \/ PtyStep \/ PtyServesOthers
  PROVE  Promise!Next \/ Stays
<1>1. /\ Quiet /\ PluginsFit' /\ TerminalsFit' /\ PtyTypeOK(Texts)' /\ ReservedFits
      /\ toPlugin \in {<<>>, <<NewTab>>} /\ toPty \in {<<>>, <<NewTab>>}
      /\ ledger.at \in {"absent", "pending"} /\ (toPty # <<>> => ledger.at = "absent")
  BY DEF IInv, Early, TypeInv, OutcomeInv, NoEntry, Entry
<1>2. /\ receipts["Compensate"] = NoReceipt /\ receipts["Activate"] = NoReceipt
      /\ ~HasReceipt("Compensate") /\ ~Activated /\ Received = {}
  BY <1>1 DEF Quiet, Kinds, NoReceipt, HasReceipt, Activated, Received
<1>3. PluginsBecame = IF reservation # "absent" THEN "held" ELSE "none"
  BY <1>2, Decisions DEF PluginsAre
<1>4. TerminalsBecame = TerminalsAre /\ PluginsBecame' = PluginsAre' /\ TerminalsBecame' = TerminalsAre'
  BY <1>1, Decisions, StatesThen
<1>5. Head(<<NewTab>>) = NewTab /\ <<NewTab>>[1] = NewTab /\ 1 \in DOMAIN <<NewTab>> /\ NewTab.is = "NewTab"
  BY DEF NewTab
<1>6. PluginReserves \/ PtyPrepares
  BY <1>1, <1>2, <1>5
  DEF PluginStep, PluginResolves, PluginLoaderFails, LoaderFails, Activated, PtyStep, PtyResolves,
      PtyServesOthers
<1>7. UNCHANGED screenVars
  BY <1>6 DEF PluginReserves, PtyPrepares
<1>8. Decided' = Decided
  BY <1>7, Unchanged
<1>9. CASE PluginReserves
  <2>1. UNCHANGED ptyVars /\ TerminalsBecame' = TerminalsBecame /\ toPlugin = <<NewTab>>
    BY <1>1, <1>9, Unchanged DEF PluginReserves
  <2>2. CASE Reserve
    <3>1. reservation = "absent"
      BY <1>1, <1>5, <2>1 DEF ReservedFits
    <3>2. reservation' = "Reserved" /\ receipts' = receipts
      BY <2>2 DEF Reserve
    <3>3. ~HasReceipt("Compensate")' /\ ~Activated'
      BY <1>2, <3>2 DEF HasReceipt, Activated
    <3>4. PluginsBecame = "none" /\ PluginsBecame' = "held"
      BY <1>3, <1>4, <3>1, <3>2, <3>3 DEF PluginsAre
    <3>5. Promise!PluginsHold
      BY <1>8, <2>1, <3>4 DEF Promise!PluginsHold
    <3>6. QED
      BY <3>5 DEF Promise!Next
  <2>3. CASE UNCHANGED pluginVars
    BY <1>8, <2>1, <2>3, Unchanged DEF Stays
  <2>4. QED
    BY <1>9, <2>2, <2>3 DEF PluginReserves
<1>10. CASE PtyPrepares
  <2>1. UNCHANGED pluginVars /\ PluginsBecame' = PluginsBecame /\ toPty = <<NewTab>>
    BY <1>1, <1>10, Unchanged DEF PtyPrepares
  <2>2. ledger.at = "absent" /\ TerminalsBecame = "none"
    BY <1>1, <1>4, <2>1 DEF TerminalsAre
  <2>3. CASE UNCHANGED ptyVars
    BY <1>8, <2>1, <2>3, Unchanged DEF Stays
  <2>4. CASE ledger'.at \in {"pending", "preparationDebt"}
    <3>1. reservation = "Reserved"
      BY <1>1, <1>5, <2>1 DEF ReservedFits
    <3>2. PluginsBecame = "held"
      BY <1>3, <3>1
    <3>3. TerminalsBecame' = "held"
      BY <1>4, <2>4 DEF TerminalsAre
    <3>4. Promise!TerminalsHold
      BY <1>8, <2>1, <2>2, <3>2, <3>3 DEF Promise!TerminalsHold
    <3>5. QED
      BY <3>4 DEF Promise!Next
  <2>5. BeginCommit \/ \E fails, paid : PreparationFails(fails, paid)
    BY <1>10 DEF PtyPrepares
  <2>6. QED
    BY <2>3, <2>4, <2>5 DEF BeginCommit, PreparationFails, Entry
<1>11. QED
  BY <1>6, <1>9, <1>10

\* Screen and its worker.
LEMMA ScreenPromise ==
  ASSUME IInv, OutcomeInv, IInv', OutcomeInv', [Next]_vars, UNCHANGED <<pluginVars, ptyVars>>
  PROVE  Promise!Next \/ Stays
<1>1. PluginsBecame' = PluginsBecame /\ TerminalsBecame' = TerminalsBecame
  BY Unchanged
<1>2. CASE Over
  BY <1>1, <1>2, Final, Unchanged DEF Stays
<1>3. CASE ~Over
  <2>1. Decided = "open"
    BY <1>3 DEF Over, IInv, ScreenInv, Decided
  <2>2. /\ Decided' = "commit" => Activated' /\ PtyCommitted'
        /\ Decided' = "abort" => PluginsGone' /\ TerminalsGone'
        /\ Decided' \in {"open", "commit", "abort"}
    <3>1. EndFits'
      BY DEF OutcomeInv
    <3>2. decision' = "Committed" => Activated' /\ PtyCommitted'
      BY DEF IInv, Early, Quiet, Later, Whole
    <3>3. Over' /\ decision' # "Committed" => PluginsGone' /\ TerminalsGone'
      BY <3>1 DEF EndFits
    <3>4. QED
      BY <3>2, <3>3 DEF Decided
  <2>3. PluginsBecame = PluginsAre /\ TerminalsBecame = TerminalsAre /\ PluginsFit
    BY Decisions DEF OutcomeInv
  <2>4. /\ Activated' <=> Activated
        /\ PtyCommitted' <=> PtyCommitted
        /\ PluginsGone' <=> PluginsGone
        /\ TerminalsGone' <=> TerminalsGone
    BY Unmoved
  <2>5. CASE Decided' = "commit"
    <3>1. Activated /\ PtyCommitted
      BY <2>2, <2>4, <2>5
    <3>2. ledger.at = "receipt" /\ ~PtyUndone
      BY <3>1 DEF PtyCommitted, PtyUndone, Entry
    <3>3. TerminalsBecame = "live"
      BY <2>3, <3>1, <3>2 DEF TerminalsAre
    <3>4. receipts["Compensate"].ids \in {"panes", "runtimes"}
      BY DEF IInv, TypeInv, PluginTypeOK, Kinds
    <3>5. HasReceipt("Compensate") => receipts["Compensate"].ids = "runtimes"
      BY <2>3, <3>2, <3>4 DEF PluginsFit
    <3>6. PluginsBecame \in {"live", "failed"}
      BY <2>3, <3>1, <3>5 DEF PluginsAre
    <3>7. Promise!Commit
      BY <1>1, <2>1, <2>5, <3>3, <3>6 DEF Promise!Commit
    <3>8. QED
      BY <3>7 DEF Promise!Next
  <2>6. CASE Decided' = "abort"
    <3>1. PluginsGone /\ TerminalsGone
      BY <2>2, <2>4, <2>6
    <3>2. PluginsBecame \in {"none", "freed", "failed"}
      BY <2>3, <3>1 DEF PluginsAre, PluginsGone
    <3>3. ~PtyCommitted
      BY <3>1 DEF TerminalsGone, PtyCommitted
    <3>4. TerminalsBecame \in {"none", "freed"}
      BY <2>3, <3>1, <3>3 DEF TerminalsAre, TerminalsGone
    <3>5. Promise!GiveUp
      BY <1>1, <2>1, <2>6, <3>2, <3>4 DEF Promise!GiveUp
    <3>6. QED
      BY <3>5 DEF Promise!Next
  <2>7. CASE Decided' = "open"
    BY <1>1, <2>1, <2>7 DEF Stays
  <2>8. QED
    BY <2>2, <2>5, <2>6, <2>7
<1>4. QED
  BY <1>2, <1>3

\* KeepsPromise, for any bounds: what Plugin and PTY hold and what Screen
\* decides changes only as LayoutOutcome allows.
THEOREM PromiseKept == Spec => KeepsPromise
<1>1. Init => Promise!Init
  <2> SUFFICES ASSUME Init
               PROVE  Promise!Init
    OBVIOUS
  <2>1. PluginsBecame = "none"
    <3>1. /\ \A k \in Kinds : receipts[k] = NoReceipt
          /\ NoReceipt.as = "none" /\ reservation = "absent"
      BY DEF Init, PluginInit, NoReceipt
    <3>2. Received = {}
      BY <3>1 DEF Received
    <3>3. QED
      BY <3>1, <3>2 DEF PluginsBecame, Kinds
  <2>2. TerminalsBecame = "none"
    BY DEF Init, PtyInit, NoEntry, Entry, TerminalsBecame
  <2>3. Decided = "open"
    BY DEF Init, Decided, Over
  <2>4. QED
    BY <2>1, <2>2, <2>3 DEF Promise!Init
<1>2. ASSUME IInv, OutcomeInv, IInv', OutcomeInv', [Next]_vars
      PROVE  [Promise!Next]_(Promise!vars)
  <2>1. CASE UNCHANGED <<pluginVars, ptyVars>>
    BY <1>2, <2>1, ScreenPromise DEF Stays, Promise!vars
  <2>2. CASE PluginStep \/ PluginLoaderFails
    BY <1>2, <2>2, PluginsPromise, PreparesPromise DEF Stays, Promise!vars, PluginStep, IInv
  <2>3. CASE PtyStep \/ PtyServesOthers
    BY <1>2, <2>3, TerminalsPromise, PreparesPromise DEF Stays, Promise!vars, PtyStep, IInv
  <2>4. ASSUME OpenTab \/ CloseTab \/ ScreenStep \/ WorkerStarts \/ Settled \/ UNCHANGED vars
               \/ \E by \in Coordinators : TakeReply(by) \/ Timeout(by)
        PROVE  UNCHANGED <<pluginVars, ptyVars>>
    BY <2>4
    DEF OpenTab, CloseTab, ScreenStep, IgnoreMessage, HandleApplyLayout, HandleMismatch,
        HandlePreparationFailed, LoopTop, Wake, WorkerStarts, Settled, vars, TakeReply, Timeout
  <2>5. QED
    BY <1>2, <2>1, <2>2, <2>3, <2>4 DEF Next
<1>3. QED
  BY <1>1, <1>2, OutcomeInvariant, PTL DEF Spec, KeepsPromise, Promise!Spec
=============================================================================
