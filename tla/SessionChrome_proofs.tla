------------------------- MODULE SessionChrome_proofs -------------------------
(***************************************************************************)
(* Proofs about the session chrome that layout transactions share.         *)
(***************************************************************************)
EXTENDS SessionChrome, FiniteSetTheorems, TLAPS

-----------------------------------------------------------------------------
(* The inductive invariant.                                                *)

\* Only chrome panes of a layout are bound, each to a runtime of its kind.
BindingShape ==
  \A p \in Panes : projects[p] # Nothing => p[2] \in Chrome(p[1]) /\ projects[p][2] = p[2]

\* A transaction owns and runs no more than it starts.
RuntimeShape == \A p \in owners \cup running : p \in Started(p[1])

\* An authority that nobody reserved has no projectors.
AuthorityShape == \A k \in Kinds : authority[k].by = 0 => authority[k].count = 0

\* Panes are open in committed tabs only, and those are the layout's.
OpenShape == \A t \in Txs : open[t] \subseteq layout[t] /\ (open[t] # {} => phase[t] = "committed")

\* Nothing is known of a transaction before its reservation.
NewShape ==
  \A t \in Txs : phase[t] = "new" =>
    /\ reservation[t] = "absent" /\ receipts[t] = {} /\ layout[t] = {}
    /\ Of(t) \cap (owners \cup running) = {}

ShapeInv == BindingShape /\ RuntimeShape /\ AuthorityShape /\ OpenShape /\ NewShape

\* Which panes are bound, by the phase of their transaction: none before its
\* activation and after it was taken back, all until Screen commits, and then
\* those whose unload was not handled.
BoundOf(t, k) ==
  /\ phase[t] \in {"new", "reserved", "again", "releasing"} => projects[<<t, k>>] = Nothing
  /\ phase[t] = "over" /\ "LoaderFailed" \notin receipts[t] => projects[<<t, k>>] = Nothing
  /\ phase[t] \in {"live", "compensating"} /\ k \in layout[t] => projects[<<t, k>>] # Nothing
  /\ phase[t] = "committed" /\ k \in open[t] => projects[<<t, k>>] # Nothing

BoundInv == \A t \in Txs : \A k \in Kinds \ torn : BoundOf(t, k)

\* An unload is on its way for a closed pane of a committed layout; if that pane
\* is not bound any more, it is the last one that projected its own runtime.
UnloadInv ==
  \A p \in unloads : p[2] \in Kinds \ torn =>
    /\ phase[p[1]] = "committed" /\ p[2] \notin open[p[1]]
    /\ projects[p] # Nothing \/ (authority[p[2]].by # p[1] /\ \A q \in Panes : projects[q] # p)

\* What is left of a transaction that was taken back, or whose loader failed.
LeftInv ==
  \A t \in Txs :
    /\ phase[t] = "over" => Of(t) \cap (owners \cup running) = {}
    /\ "LoaderFailed" \in receipts[t] =>
         reservation[t] = "absent" /\ Of(t) \cap (owners \cup running) = {}

IInv == TypeOK /\ ShapeInv /\ BoundInv /\ UnloadInv /\ LeftInv /\ CountsExact

-----------------------------------------------------------------------------
(* Types.                                                                  *)

\* What the assumption on the constants says of panes and of Nothing.
LEMMA PaneFacts ==
  /\ \A p \in Panes : p[1] \in Txs /\ p[2] \in Items /\ p = <<p[1], p[2]>> /\ p[1] # 0
  /\ \A t \in Txs : \A x \in Items : <<t, x>> \in Panes
  /\ Nothing \notin Panes /\ Kinds \subseteq Items /\ "own" \notin Kinds /\ Txs \subseteq Nat
  /\ \A t \in Txs : \A S \in SUBSET Items : {t} \X S \in SUBSET Panes
  BY ChromeAssumption DEF Panes, Txs, Items, Nothing

\* The initial state has the declared types: nothing is reserved or bound.
LEMMA InitTypes == Init => TypeOK
  BY ChromeAssumption DEF Init, TypeOK, NoAuthority, States, Phases

\* The faults stay within their bound.
LEMMA SpendTypes == TypeOK /\ Spend => faults' \in 0 .. MaxFaults
  BY ChromeAssumption DEF TypeOK, Spend

\* Stopping runtimes makes owners and runtimes no more.
LEMMA UnloadedTypes ==
  ASSUME TypeOK, NEW ids, Unloaded(ids)
  PROVE  /\ running' \subseteq running /\ owners' \subseteq owners
         /\ running' \subseteq Panes /\ owners' \subseteq Panes
         /\ reservation' \in [Txs -> States]
  BY DEF TypeOK, Unloaded, States

\* A resolution records a state, a receipt and a phase.
LEMMA ResolvedTypes ==
  ASSUME TypeOK, NEW t \in Txs, NEW state \in States, NEW receipt \in Receipts,
         NEW next \in Phases, Resolved(t, state, receipt, next)
  PROVE  /\ reservation' \in [Txs -> States] /\ receipts' \in [Txs -> SUBSET Receipts]
         /\ phase' \in [Txs -> Phases]
  BY DEF TypeOK, Resolved

\* Binding panes to authorities that exist.
LEMMA BindTypes ==
  ASSUME TypeOK, ShapeInv, NEW t \in Txs, NEW kinds \in SUBSET (Kinds \cap Present),
         Bind(t, kinds)
  PROVE  /\ projects' \in [Panes -> Panes \cup {Nothing}]
         /\ authority' \in [Kinds -> [by : 0 .. Last, count : Nat]]
  <1>1. \A k \in kinds : authority[k].by \in Txs
    BY ChromeAssumption DEF TypeOK, ShapeInv, AuthorityShape, Present, NoAuthority, Txs
  <1>2. \A p \in Panes : p[2] \in kinds => <<authority[p[2]].by, p[2]>> \in Panes
    BY <1>1, PaneFacts
  <1>3. projects' \in [Panes -> Panes \cup {Nothing}]
    BY <1>2 DEF TypeOK, Bind
  <1>4. \A k \in Kinds : [authority[k] EXCEPT !.count = @ + 1] \in [by : 0 .. Last, count : Nat]
    BY DEF TypeOK
  <1>q. QED
    BY <1>3, <1>4 DEF TypeOK, Bind

LEMMA DroppedType == \A n \in Nat : Dropped(n) \in Nat /\ Dropped(n) <= n
  BY DEF Dropped

\* Reserving has the declared types.
LEMMA ReserveTypes ==
  ASSUME TypeOK, ShapeInv, NEW t \in Txs, Reserve(t)
  PROVE  TypeOK'
  <1> PICK items \in Layouts :
         LET starts == items \ Present
         IN  /\ layout' = [layout EXCEPT ![t] = items]
             /\ plugins' = [plugins EXCEPT ![t] = starts]
             /\ owners' = owners \cup ({t} \X starts)
             /\ authority' = [k \in Kinds |-> IF k \in starts THEN [by |-> t, count |-> 0]
                                                              ELSE authority[k]]
             /\ binding' = [p \in Panes |->
                              IF p[1] = t /\ p[2] \in items
                                THEN IF p[2] \in starts THEN p ELSE <<authority[p[2]].by, p[2]>>
                                ELSE binding[p]]
    BY DEF Reserve
  <1>1. items \subseteq Items
    BY ChromeAssumption
  <1>2. owners' \subseteq Panes
    BY <1>1, PaneFacts DEF TypeOK
  <1>3. t \in 0 .. Last
    BY ChromeAssumption DEF Txs
  <1>4. authority' \in [Kinds -> [by : 0 .. Last, count : Nat]]
    BY <1>3 DEF TypeOK
  <1>5. \A k \in Present : authority[k].by \in Txs
    BY ChromeAssumption DEF TypeOK, ShapeInv, AuthorityShape, Present, NoAuthority, Txs
  <1>6. \A p \in Panes : p[2] \in Present => <<authority[p[2]].by, p[2]>> \in Panes
    BY <1>5, PaneFacts
  <1>7. binding' \in [Panes -> Panes \cup {Nothing}]
    BY <1>6 DEF TypeOK
  <1>8. /\ layout' \in [Txs -> SUBSET Items] /\ plugins' \in [Txs -> SUBSET Items]
        /\ reservation' \in [Txs -> States] /\ phase' \in [Txs -> Phases]
    BY <1>1 DEF Reserve, TypeOK, States, Phases
  <1>q. QED
    BY <1>2, <1>4, <1>7, <1>8 DEF Reserve, TypeOK

\* Asking for an activation has the declared types.
LEMMA ActivateTypes ==
  ASSUME TypeOK, ShapeInv, NEW t \in Txs, ResolveActivate(t)
  PROVE  TypeOK'
  <1>1. Started(t) \subseteq Panes /\ Chrome(t) \subseteq Kinds
    BY PaneFacts DEF Started, TypeOK, Chrome
  <1>2. CASE Activate(t)
    <2>1. /\ projects' \in [Panes -> Panes \cup {Nothing}]
          /\ authority' \in [Kinds -> [by : 0 .. Last, count : Nat]]
      BY <1>1, <1>2, BindTypes DEF Activate
    <2>2. /\ reservation' \in [Txs -> States] /\ receipts' \in [Txs -> SUBSET Receipts]
          /\ phase' \in [Txs -> Phases]
      BY <1>2, ResolvedTypes DEF Activate, States, Receipts, Phases
    <2>q. QED
      BY <1>1, <1>2, <2>1, <2>2 DEF Activate, ResolveActivate, TypeOK
  <1>3. ASSUME Refused(t)
        PROVE  phase' \in [Txs -> Phases] /\ faults' \in 0 .. MaxFaults
    BY <1>3, ChromeAssumption DEF Refused, Spend, TypeOK, Phases
  <1>4. CASE ActivateLosesAuthority(t)
    <2> PICK kinds \in SUBSET (Chrome(t) \cap Present) :
               Bind(t, kinds) /\ torn' = torn \cup kinds
      BY <1>4 DEF ActivateLosesAuthority
    <2>1. /\ projects' \in [Panes -> Panes \cup {Nothing}]
          /\ authority' \in [Kinds -> [by : 0 .. Last, count : Nat]]
      BY <1>1, BindTypes
    <2>q. QED
      BY <1>1, <1>3, <1>4, <2>1 DEF ActivateLosesAuthority, ResolveActivate, TypeOK
  <1>5. CASE ActivateRollsBack(t)
    <2>1. /\ running' \subseteq Panes /\ owners' \subseteq Panes
          /\ reservation' \in [Txs -> States]
      BY <1>5, UnloadedTypes DEF ActivateRollsBack
    <2>2. receipts' \in [Txs -> SUBSET Receipts] /\ phase' \in [Txs -> Phases]
      BY <1>5 DEF ActivateRollsBack, TypeOK, Receipts, Phases
    <2>q. QED
      BY <1>5, <2>1, <2>2, ChromeAssumption DEF ActivateRollsBack, ResolveActivate, Spend, TypeOK
  <1>6. CASE ActivateFails(t)
    <2>1. owners' \subseteq Panes /\ running' \subseteq Panes
      BY <1>1, <1>6 DEF ActivateFails, TypeOK
    <2>q. QED
      BY <1>6, <2>1, ChromeAssumption
      DEF ActivateFails, ResolveActivate, Spend, TypeOK, States, Phases
  <1>7. CASE ActivateRefused(t)
    BY <1>3, <1>7 DEF ActivateRefused, ResolveActivate, TypeOK
  <1>q. QED
    BY <1>2, <1>4, <1>5, <1>6, <1>7 DEF ResolveActivate

\* Taking the panes and the counts back has the declared types.
LEMMA UnbindTypes ==
  ASSUME TypeOK, NEW t \in Txs, Unbind(t)
  PROVE  /\ projects' \in [Panes -> Panes \cup {Nothing}]
         /\ authority' \in [Kinds -> [by : 0 .. Last, count : Nat]]
  BY DroppedType DEF Unbind, TypeOK

\* Asking for a compensation has the declared types.
LEMMA CompensateTypes ==
  ASSUME TypeOK, NEW t \in Txs, ResolveCompensate(t)
  PROVE  TypeOK'
  <1>1. CASE Compensate(t)
    <2>1. projects' \in [Panes -> Panes \cup {Nothing}]
      BY <1>1 DEF Compensate, TypeOK
    <2>2. authority' \in [Kinds -> [by : 0 .. Last, count : Nat]]
      <3>1. NoAuthority \in [by : 0 .. Last, count : Nat]
        BY ChromeAssumption DEF NoAuthority
      <3>2. \A k \in Kinds : \A n \in Nat :
              [authority[k] EXCEPT !.count = n] \in [by : 0 .. Last, count : Nat]
        BY DEF TypeOK
      <3>3. \A k \in Kinds : authority[k].count \in Nat /\ Dropped(authority[k].count) \in Nat
        BY DroppedType DEF TypeOK
      <3>q. QED
        BY <1>1, <3>1, <3>2, <3>3 DEF Compensate
    <2>3. /\ reservation' \in [Txs -> States] /\ receipts' \in [Txs -> SUBSET Receipts]
          /\ phase' \in [Txs -> Phases]
      BY <1>1, ResolvedTypes DEF Compensate, States, Receipts, Phases
    <2>q. QED
      BY <1>1, <2>1, <2>2, <2>3 DEF Compensate, ResolveCompensate, TypeOK
  <1>2. CASE CompensateFails(t)
    <2>1. /\ running' \subseteq Panes /\ owners' \subseteq Panes
          /\ reservation' \in [Txs -> States]
      BY <1>2, UnloadedTypes DEF CompensateFails, PartlyUnloaded
    <2>2. /\ projects' \in [Panes -> Panes \cup {Nothing}]
          /\ authority' \in [Kinds -> [by : 0 .. Last, count : Nat]]
      BY <1>2, UnbindTypes DEF CompensateFails
    <2>3. faults' \in 0 .. MaxFaults
      BY <1>2, SpendTypes DEF CompensateFails, PartlyUnloaded
    <2>4. torn' \subseteq Kinds /\ phase' \in [Txs -> Phases] /\ receipts' = receipts
      BY <1>2 DEF CompensateFails, TypeOK, Phases, Chrome
    <2>q. QED
      BY <2>1, <2>2, <2>3, <2>4 DEF ResolveCompensate, TypeOK
  <1>3. CASE CompensateWaits(t)
    BY <1>3, ChromeAssumption DEF CompensateWaits, ResolveCompensate, Spend, TypeOK, Phases
  <1>4. CASE CompensateReplayed(t)
    BY <1>4 DEF CompensateReplayed, ResolveCompensate, TypeOK, Phases
  <1>q. QED
    BY <1>1, <1>2, <1>3, <1>4 DEF ResolveCompensate

\* Asking for a release has the declared types.
LEMMA ReleaseTypes ==
  ASSUME TypeOK, NEW t \in Txs, ResolveRelease(t)
  PROVE  TypeOK'
  <1>1. CASE Release(t)
    <2>1. authority' \in [Kinds -> [by : 0 .. Last, count : Nat]]
      BY <1>1, ChromeAssumption DEF Release, TypeOK, NoAuthority
    <2>2. /\ reservation' \in [Txs -> States] /\ receipts' \in [Txs -> SUBSET Receipts]
          /\ phase' \in [Txs -> Phases]
      BY <1>1, ResolvedTypes DEF Release, States, Receipts, Phases
    <2>q. QED
      BY <1>1, <2>1, <2>2 DEF Release, ResolveRelease, TypeOK
  <1>2. CASE ReleaseFails(t)
    <2>1. /\ running' \subseteq Panes /\ owners' \subseteq Panes
          /\ reservation' \in [Txs -> States]
      BY <1>2, UnloadedTypes DEF ReleaseFails, PartlyUnloaded
    <2>2. faults' \in 0 .. MaxFaults
      BY <1>2, SpendTypes DEF ReleaseFails, PartlyUnloaded
    <2>3. phase' \in [Txs -> Phases] /\ UNCHANGED <<authority, projects, receipts, torn>>
      BY <1>2 DEF ReleaseFails, TypeOK, Phases
    <2>q. QED
      BY <2>1, <2>2, <2>3 DEF ResolveRelease, TypeOK
  <1>3. CASE ReleaseRefused(t)
    BY <1>3 DEF ReleaseRefused, ResolveRelease, TypeOK, Phases
  <1>q. QED
    BY <1>1, <1>2, <1>3 DEF ResolveRelease

\* A loader that fails has the declared types.
LEMMA LoaderTypes ==
  ASSUME TypeOK, NEW t \in Txs, LoaderFails(t) \/ LoaderFailsUncleanly(t)
  PROVE  TypeOK'
  <1>1. CASE LoaderFails(t)
    BY <1>1, ChromeAssumption
    DEF LoaderFails, Spend, TypeOK, States, Receipts, screenVars
  <1>2. CASE LoaderFailsUncleanly(t)
    <2>1. owners' \subseteq Panes /\ running' \subseteq Panes
      BY <1>2 DEF LoaderFailsUncleanly, TypeOK
    <2>q. QED
      BY <1>2, <2>1, ChromeAssumption
      DEF LoaderFailsUncleanly, Spend, TypeOK, States, screenVars
  <1>q. QED
    BY <1>1, <1>2

\* Unloading a runtime for a pane has the declared types.
LEMMA UnloadRuntimeTypes ==
  ASSUME TypeOK, NEW p \in Panes, NEW r \in Panes, r = p \/ r[2] \in Kinds,
         UnloadRuntime(p, r)
  PROVE  /\ running' \subseteq Panes /\ owners' \subseteq Panes
         /\ reservation' \in [Txs -> States] /\ unloads' \subseteq Panes
         /\ torn' \subseteq Kinds /\ faults' \in 0 .. MaxFaults
  <1>1. CASE Unloaded({r}) /\ unloads' = unloads \ {p} /\ UNCHANGED <<torn, faults>>
    BY <1>1, UnloadedTypes DEF TypeOK
  <1>2. CASE ~(Unloaded({r}) /\ unloads' = unloads \ {p} /\ UNCHANGED <<torn, faults>>)
    BY <1>2, ChromeAssumption DEF UnloadRuntime, Spend, TypeOK
  <1>q. QED
    BY <1>1, <1>2

\* Handling an unload has the declared types.
LEMMA UnloadTypes ==
  ASSUME TypeOK, ShapeInv, NEW p \in Panes, Unload(p)
  PROVE  TypeOK'
  <1>1. CASE UnloadProjector(p)
    <2>1. p[2] \in Kinds
      BY <1>1 DEF UnloadProjector, ShapeInv, BindingShape, Chrome
    <2>2. authority' \in [Kinds -> [by : 0 .. Last, count : Nat]]
      BY <1>1, <2>1 DEF UnloadProjector, TypeOK
    <2>q. QED
      BY <1>1, <2>2 DEF UnloadProjector, Unload, TypeOK
  <1>2. CASE UnloadLastProjector(p)
    <2>1. projects[p] \in Panes /\ projects[p][2] \in Kinds
      BY <1>2 DEF UnloadLastProjector, ShapeInv, BindingShape, Chrome, TypeOK
    <2>2. authority' \in [Kinds -> [by : 0 .. Last, count : Nat]]
      <3>1. NoAuthority \in [by : 0 .. Last, count : Nat]
        BY ChromeAssumption DEF NoAuthority
      <3>q. QED
        BY <1>2, <3>1 DEF UnloadLastProjector, TypeOK
    <2>3. UnloadRuntime(p, projects[p])
      BY <1>2 DEF UnloadLastProjector
    <2>4. projects' \in [Panes -> Panes \cup {Nothing}]
      BY <1>2 DEF UnloadLastProjector, TypeOK
    <2>5. /\ running' \subseteq Panes /\ owners' \subseteq Panes
          /\ reservation' \in [Txs -> States] /\ unloads' \subseteq Panes
          /\ torn' \subseteq Kinds /\ faults' \in 0 .. MaxFaults
      BY <2>1, <2>3, UnloadRuntimeTypes
    <2>q. QED
      BY <2>2, <2>4, <2>5 DEF Unload, TypeOK
  <1>3. CASE UnloadOwn(p)
    <2>1. UnloadRuntime(p, p)
      BY <1>3 DEF UnloadOwn
    <2>2. /\ running' \subseteq Panes /\ owners' \subseteq Panes
          /\ reservation' \in [Txs -> States] /\ unloads' \subseteq Panes
          /\ torn' \subseteq Kinds /\ faults' \in 0 .. MaxFaults
      BY <2>1, UnloadRuntimeTypes
    <2>q. QED
      BY <1>3, <2>2 DEF UnloadOwn, Unload, TypeOK
  <1>q. QED
    BY <1>1, <1>2, <1>3 DEF Unload

\* What closes panes and tabs has the declared types.
LEMMA CloseTypes ==
  ASSUME TypeOK
  PROVE  /\ \A t \in Txs : Commit(t) \/ CloseTab(t) \/ CleanUp(t) => TypeOK'
         /\ \A p \in Panes : ClosePane(p) => TypeOK'
  <1>1. ASSUME NEW t \in Txs, Commit(t) PROVE TypeOK'
    BY <1>1 DEF Commit, TypeOK, bridgeVars, Phases
  <1>2. ASSUME NEW t \in Txs, CloseTab(t) PROVE TypeOK'
    BY <1>2 DEF CloseTab, TypeOK, bridgeVars
  <1>3. ASSUME NEW t \in Txs, CleanUp(t) PROVE TypeOK'
    <2>1. PICK ids : Unloaded(ids)
      BY <1>3 DEF CleanUp, PartlyUnloaded
    <2>2. /\ running' \subseteq Panes /\ owners' \subseteq Panes
          /\ reservation' \in [Txs -> States]
      BY <2>1, UnloadedTypes
    <2>3. cleanup' \in [Txs -> SUBSET Items] /\ faults' \in 0 .. MaxFaults
      BY <1>3, ChromeAssumption DEF CleanUp, PartlyUnloaded, Spend, TypeOK
    <2>q. QED
      BY <1>3, <2>2, <2>3 DEF CleanUp, TypeOK
  <1>4. ASSUME NEW p \in Panes, ClosePane(p) PROVE TypeOK'
    BY <1>4 DEF ClosePane, TypeOK, bridgeVars
  <1>q. QED
    BY <1>1, <1>2, <1>3, <1>4

\* Every step keeps the types.
LEMMA TypeStep == TypeOK /\ ShapeInv /\ [Next]_vars => TypeOK'
  <1> SUFFICES ASSUME TypeOK, ShapeInv, [Next]_vars PROVE TypeOK'
    OBVIOUS
  <1>1. CASE UNCHANGED vars
    BY <1>1 DEF vars, bridgeVars, screenVars, TypeOK
  <1>2. CASE Next
    BY <1>2, ReserveTypes, ActivateTypes, CompensateTypes, ReleaseTypes, LoaderTypes, UnloadTypes,
       CloseTypes DEF Next
  <1>q. QED
    BY <1>1, <1>2

-----------------------------------------------------------------------------
(* ShapeInv.                                                               *)

\* The runtimes that t starts are panes of t, and all that t may own or run.
LEMMA StartedFacts ==
  ASSUME TypeOK, ShapeInv, NEW t \in Txs
  PROVE  /\ Started(t) \subseteq Of(t)
         /\ Of(t) \cap (owners \cup running) \subseteq Started(t)
         /\ \A s \in Txs : s # t => Of(s) \cap Started(t) = {}
  BY PaneFacts DEF TypeOK, ShapeInv, RuntimeShape, Started, Of

\* What steps keep that neither bind a pane nor start or reserve a runtime.
Kept ==
  /\ UNCHANGED <<authority, projects, layout, plugins, torn>>
  /\ owners' \subseteq owners /\ running' \subseteq owners \cup running

\* A reservation's state changes to another than "absent" only from one.
StateKept == \A s \in Txs : reservation[s] = "absent" => reservation'[s] = "absent"

\* Stopping runtimes keeps what ShapeInv says of reservations.
LEMMA UnloadedState ==
  ASSUME TypeOK, NEW ids, Unloaded(ids)
  PROVE  StateKept
  BY DEF TypeOK, Unloaded, StateKept

\* The phase of one transaction moves on, and no other phase changes.
Moves(t, from, to) ==
  /\ phase[t] \in from
  /\ \E next \in to : phase' = [phase EXCEPT ![t] = next]

\* Which steps keep bindings and runtimes, and how the phases move in them.
LEMMA ActivateKeeps ==
  ASSUME TypeOK, ShapeInv, NEW t \in Txs, ResolveActivate(t),
         ActivateRollsBack(t) \/ ActivateFails(t) \/ ActivateRefused(t)
  PROVE  /\ Kept /\ StateKept /\ open' = open /\ unloads' = unloads
         /\ Moves(t, {"reserved", "again"}, {"over", "releasing", "again"})
         /\ phase'[t] = "over" => running' = running \ Started(t) /\ owners' = owners \ Started(t)
         /\ \A s \in Txs : s # t => receipts'[s] = receipts[s]
         /\ "LoaderFailed" \in receipts'[t] => "LoaderFailed" \in receipts[t]
         /\ reservation[t] = "absent" => receipts' = receipts
  <1>1. phase[t] \in {"reserved", "again"}
    BY DEF ResolveActivate, FirstOf
  <1>2. UNCHANGED <<layout, plugins, open, unloads>>
    BY DEF ResolveActivate
  <1>3. CASE ActivateRollsBack(t)
    <2>1. Unloaded(Started(t)) /\ UNCHANGED <<authority, projects, torn>>
      BY <1>3 DEF ActivateRollsBack
    <2>2. StateKept
      BY <2>1, UnloadedState
    <2>3. running' = running \ Started(t) /\ owners' = owners \ Started(t)
      BY <2>1 DEF Unloaded
    <2>q. QED
      BY <1>1, <1>2, <1>3, <2>1, <2>2, <2>3 DEF ActivateRollsBack, Kept, Moves, TypeOK
  <1>4. CASE ActivateFails(t)
    <2>1. owners' \subseteq owners /\ running' \subseteq owners \cup running
      BY <1>4 DEF ActivateFails
    <2>q. QED
      BY <1>1, <1>2, <1>4, <2>1 DEF ActivateFails, Kept, StateKept, Moves, TypeOK
  <1>5. CASE ActivateRefused(t)
    BY <1>1, <1>2, <1>5 DEF ActivateRefused, Refused, Kept, StateKept, Moves, TypeOK
  <1>q. QED
    BY <1>3, <1>4, <1>5

LEMMA CompensateKeeps ==
  ASSUME TypeOK, ShapeInv, NEW t \in Txs, ResolveCompensate(t),
         CompensateWaits(t) \/ CompensateReplayed(t)
  PROVE  /\ Kept /\ StateKept /\ UNCHANGED <<open, unloads, receipts>>
         /\ Moves(t, {"live", "compensating"}, {"over", "compensating"})
         /\ phase'[t] = "over" => "LoaderFailed" \in receipts[t]
  BY DEF ResolveCompensate, CompensateWaits, CompensateReplayed, Kept, StateKept, Moves, TypeOK

LEMMA ReleaseKeeps ==
  ASSUME TypeOK, ShapeInv, NEW t \in Txs, ResolveRelease(t),
         ReleaseFails(t) \/ ReleaseRefused(t)
  PROVE  /\ Kept /\ StateKept /\ UNCHANGED <<open, unloads, receipts>>
         /\ Moves(t, {"reserved", "releasing"}, {"releasing"})
  <1>1. phase[t] \in {"reserved", "releasing"} /\ UNCHANGED <<layout, plugins, open, unloads>>
    BY DEF ResolveRelease, FirstOf
  <1>2. CASE ReleaseFails(t)
    <2>1. PICK ids : Unloaded(ids)
      BY <1>2 DEF ReleaseFails, PartlyUnloaded
    <2>q. QED
      BY <1>1, <1>2, <2>1, UnloadedState, UnloadedTypes DEF ReleaseFails, Kept, Moves
  <1>3. CASE ReleaseRefused(t)
    BY <1>1, <1>3 DEF ReleaseRefused, Kept, StateKept, Moves
  <1>q. QED
    BY <1>2, <1>3

LEMMA LoaderKeeps ==
  ASSUME TypeOK, ShapeInv, NEW t \in Txs, LoaderFails(t) \/ LoaderFailsUncleanly(t)
  PROVE  /\ Kept /\ StateKept /\ UNCHANGED <<phase, open, unloads>>
         /\ phase[t] # "new" /\ reservation[t] # "absent"
         /\ \A s \in Txs : s # t => receipts'[s] = receipts[s]
         /\ \/ receipts' = receipts
            \/ /\ running' = running \ Started(t) /\ owners' = owners \ Started(t)
               /\ reservation'[t] = "absent" /\ receipts'[t] = receipts[t] \cup {"LoaderFailed"}
  <1>1. phase[t] # "new" /\ reservation[t] # "absent"
    BY DEF LoaderFails, LoaderFailsUncleanly, ShapeInv, NewShape
  <1>2. CASE LoaderFails(t)
    BY <1>1, <1>2 DEF LoaderFails, Kept, StateKept, screenVars, TypeOK
  <1>3. CASE LoaderFailsUncleanly(t)
    BY <1>1, <1>3 DEF LoaderFailsUncleanly, Kept, StateKept, screenVars, TypeOK
  <1>q. QED
    BY <1>2, <1>3

LEMMA CloseKeeps ==
  ASSUME TypeOK, ShapeInv, NEW t \in Txs
  PROVE  /\ Commit(t) => /\ Kept /\ StateKept /\ UNCHANGED <<unloads, receipts>>
                         /\ Moves(t, {"live"}, {"committed"})
                         /\ open' = [open EXCEPT ![t] = layout[t]]
         /\ CloseTab(t) => /\ Kept /\ StateKept /\ UNCHANGED <<unloads, receipts, phase>>
                           /\ open' = [open EXCEPT ![t] = {}]
         /\ CleanUp(t) => Kept /\ StateKept /\ UNCHANGED <<unloads, receipts, phase, open>>
  <1>1. ASSUME Commit(t) \/ CloseTab(t)
        PROVE  Kept /\ StateKept /\ UNCHANGED <<unloads, receipts>>
    BY <1>1 DEF Commit, CloseTab, Kept, StateKept, bridgeVars
  <1>2. Commit(t) => Moves(t, {"live"}, {"committed"}) /\ open' = [open EXCEPT ![t] = layout[t]]
    BY DEF Commit, Moves
  <1>3. CloseTab(t) => phase' = phase /\ open' = [open EXCEPT ![t] = {}]
    BY DEF CloseTab
  <1>4. ASSUME CleanUp(t)
        PROVE  Kept /\ StateKept /\ UNCHANGED <<unloads, receipts, phase, open>>
    <2>1. PICK ids : Unloaded(ids)
      BY <1>4 DEF CleanUp, PartlyUnloaded
    <2>q. QED
      BY <1>4, <2>1, UnloadedState, UnloadedTypes DEF CleanUp, Kept
  <1>q. QED
    BY <1>1, <1>2, <1>3, <1>4

\* ShapeInv in a step that reserves nothing, starts nothing and binds nothing.
LEMMA ShapeKept ==
  ASSUME TypeOK, ShapeInv, UNCHANGED <<layout, plugins>>, StateKept,
         owners' \cup running' \subseteq owners \cup running,
         \A p \in Panes : projects'[p] \in {projects[p], Nothing},
         AuthorityShape',
         \A s \in Txs : open'[s] \subseteq open[s]
                        \/ (open'[s] \subseteq layout[s] /\ phase'[s] = "committed"),
         \A s \in Txs : phase[s] = "committed" => phase'[s] = "committed",
         \A s \in Txs : phase'[s] = "new" => phase[s] = "new" /\ receipts'[s] = receipts[s]
  PROVE  ShapeInv'
  <1>1. BindingShape'
    BY DEF ShapeInv, BindingShape, Chrome
  <1>2. RuntimeShape'
    BY DEF ShapeInv, RuntimeShape, Started
  <1>3. OpenShape'
    BY DEF ShapeInv, OpenShape
  <1>4. NewShape'
    BY DEF ShapeInv, NewShape, StateKept, TypeOK
  <1>q. QED
    BY <1>1, <1>2, <1>3, <1>4 DEF ShapeInv

\* A phase that moves from neither "new" nor "committed".
LEMMA MovesFacts ==
  ASSUME TypeOK, NEW t \in Txs, NEW from, NEW to, Moves(t, from, to),
         from \cap {"new", "committed"} = {}, "new" \notin to
  PROVE  /\ phase[t] # "new" /\ phase[t] # "committed" /\ phase'[t] # "new"
         /\ \A s \in Txs : s # t => phase'[s] = phase[s]
  BY DEF Moves, TypeOK

\* A runtime that is unloaded for a pane.
LEMMA UnloadRuntimeKeeps ==
  ASSUME TypeOK, NEW p, NEW r, UnloadRuntime(p, r)
  PROVE  /\ owners' \subseteq owners /\ running' \subseteq running /\ StateKept
         /\ running \ {r} \subseteq running'
         /\ \/ unloads' = unloads \ {p} /\ torn' = torn
            \/ unloads' = (unloads \ {p}) \cup {r} /\ r = p /\ torn' = torn
            \/ unloads' = (unloads \ {p}) \cup {r} /\ r # p /\ torn' = torn \cup {r[2]}
  <1>1. CASE Unloaded({r}) /\ unloads' = unloads \ {p} /\ UNCHANGED <<torn, faults>>
    <2>1. Unloaded({r})
      BY <1>1
    <2>2. StateKept
      BY <2>1, UnloadedState
    <2>3. owners' \subseteq owners /\ running' = running \ {r}
      BY <2>1 DEF Unloaded
    <2>q. QED
      BY <1>1, <2>2, <2>3
  <1>2. CASE ~(Unloaded({r}) /\ unloads' = unloads \ {p} /\ UNCHANGED <<torn, faults>>)
    <2>1. /\ UNCHANGED <<running, owners, reservation>> /\ unloads' = (unloads \ {p}) \cup {r}
          /\ torn' = IF r = p THEN torn ELSE torn \cup {r[2]}
      BY <1>2 DEF UnloadRuntime
    <2>2. StateKept
      BY <2>1 DEF StateKept
    <2>q. QED
      BY <2>1, <2>2
  <1>q. QED
    BY <1>1, <1>2

\* What the unloading of a pane does to bindings, authorities and runtimes.
LEMMA UnloadKeeps ==
  ASSUME TypeOK, ShapeInv, NEW p \in Panes, Unload(p)
  PROVE  /\ UNCHANGED <<layout, plugins, phase, open, receipts>>
         /\ owners' \subseteq owners /\ running' \subseteq running /\ StateKept
         /\ \A q \in Panes : projects'[q] = IF q = p THEN Nothing ELSE projects[q]
         /\ torn \subseteq torn'
         /\ \A k \in Kinds : k # p[2] \/ projects[p] = Nothing => authority'[k] = authority[k]
         /\ projects[p] # Nothing =>
              /\ p[2] \in Kinds
              /\ authority'[p[2]].by \in {0, authority[p[2]].by}
              /\ authority'[p[2]].count = Dropped(authority[p[2]].count)
              /\ authority'[p[2]].by = 0 => authority'[p[2]].count = 0
  <1>1. UNCHANGED <<layout, plugins, phase, open, receipts>>
    BY DEF Unload
  <1>2. CASE UnloadProjector(p)
    <2>1. p[2] \in Kinds /\ authority[p[2]].count \in Nat
      BY <1>2 DEF UnloadProjector, ShapeInv, BindingShape, Chrome, TypeOK
    <2>2. authority[p[2]].by # 0
      BY <1>2, <2>1 DEF UnloadProjector, ShapeInv, AuthorityShape
    <2>3. /\ authority'[p[2]].by = authority[p[2]].by
          /\ authority'[p[2]].count = authority[p[2]].count - 1
          /\ \A k \in Kinds : k # p[2] => authority'[k] = authority[k]
      BY <1>2, <2>1 DEF UnloadProjector, TypeOK
    <2>q. QED
      BY <1>1, <1>2, <2>1, <2>2, <2>3 DEF UnloadProjector, StateKept, Dropped, TypeOK
  <1>3. CASE UnloadLastProjector(p)
    <2>0. p[2] \in Kinds
      BY <1>3 DEF UnloadLastProjector, ShapeInv, BindingShape, Chrome
    <2>1. authority[p[2]].count \in Nat /\ authority[p[2]].count <= 1
      BY <1>3, <2>0 DEF UnloadLastProjector, TypeOK
    <2>2. /\ authority'[p[2]] = NoAuthority
          /\ \A k \in Kinds : k # p[2] => authority'[k] = authority[k]
      BY <1>3, <2>0 DEF UnloadLastProjector, TypeOK
    <2>3. UnloadRuntime(p, projects[p])
      BY <1>3 DEF UnloadLastProjector
    <2>4. owners' \subseteq owners /\ running' \subseteq running /\ StateKept /\ torn \subseteq torn'
      BY <2>3, UnloadRuntimeKeeps
    <2>5. authority'[p[2]].by = 0 /\ authority'[p[2]].count = Dropped(authority[p[2]].count)
      BY <2>1, <2>2 DEF NoAuthority, Dropped
    <2>6. authority'[p[2]].count = 0
      BY <2>2 DEF NoAuthority
    <2>7. \A q \in Panes : projects'[q] = IF q = p THEN Nothing ELSE projects[q]
      BY <1>3 DEF UnloadLastProjector, TypeOK
    <2>8. projects[p] # Nothing
      BY <1>3 DEF UnloadLastProjector
    <2>q. QED
      BY <1>1, <2>0, <2>2, <2>4, <2>5, <2>6, <2>7, <2>8
  <1>4. CASE UnloadOwn(p)
    <2>1. UnloadRuntime(p, p) /\ projects[p] = Nothing /\ UNCHANGED <<projects, authority>>
      BY <1>4 DEF UnloadOwn
    <2>2. owners' \subseteq owners /\ running' \subseteq running /\ StateKept /\ torn \subseteq torn'
      BY <2>1, UnloadRuntimeKeeps
    <2>q. QED
      BY <1>1, <2>1, <2>2
  <1>q. QED
    BY <1>2, <1>3, <1>4 DEF Unload

\* A compensation unbinds all panes of t and stops its runtimes, or, when it
\* fails, unbinds them and excuses their kinds.
LEMMA CompensateDoes ==
  ASSUME TypeOK, ShapeInv, NEW t \in Txs, ResolveCompensate(t),
         Compensate(t) \/ CompensateFails(t)
  PROVE  /\ UNCHANGED <<layout, plugins, open, unloads>> /\ StateKept
         /\ Moves(t, {"live", "compensating"}, {"over", "compensating"})
         /\ owners' \subseteq owners /\ running' \subseteq running
         /\ \A p \in Panes : projects'[p] = IF p[1] = t /\ p[2] \in Chrome(t) THEN Nothing
                                                                               ELSE projects[p]
         /\ \A k \in Kinds : /\ authority'[k].by \in {0, authority[k].by}
                             /\ authority'[k].count = IF k \in Chrome(t)
                                                        THEN Dropped(authority[k].count)
                                                        ELSE authority[k].count
                             /\ authority'[k].by = 0 => authority'[k].count = 0
         /\ \A s \in Txs : s # t => receipts'[s] = receipts[s]
         /\ \A s \in Txs : "LoaderFailed" \in receipts'[s] => "LoaderFailed" \in receipts[s]
         /\ \/ /\ torn' = torn /\ phase'[t] = "over"
               /\ running' = running \ Started(t) /\ owners' = owners \ Started(t)
            \/ torn' = torn \cup Chrome(t) /\ phase'[t] = "compensating"
  <1>1. phase[t] \in {"live", "compensating"} /\ UNCHANGED <<layout, plugins, open, unloads>>
    BY DEF ResolveCompensate
  <1>2. \A k \in Kinds : /\ authority[k].count \in Nat /\ Dropped(authority[k].count) \in Nat
                         /\ Dropped(authority[k].count) <= authority[k].count
    BY DroppedType DEF TypeOK
  <1>3. CASE Compensate(t)
    <2>1. \A k \in Kinds : /\ authority'[k].by \in {0, authority[k].by}
                           /\ authority'[k].count = IF k \in Chrome(t)
                                                      THEN Dropped(authority[k].count)
                                                      ELSE authority[k].count
                           /\ authority'[k].by = 0 => authority'[k].count = 0
      <3> TAKE k \in Kinds
      <3> DEFINE n == IF k \in Chrome(t) THEN Dropped(authority[k].count) ELSE authority[k].count
      <3>1. authority'[k] = IF n = 0 THEN NoAuthority ELSE [authority[k] EXCEPT !.count = n]
        BY <1>3 DEF Compensate
      <3>2. authority[k] \in [by : 0 .. Last, count : Nat] /\ n \in Nat /\ n <= authority[k].count
        BY <1>2 DEF TypeOK
      <3>3. authority[k].by = 0 => n = 0
        BY <3>2 DEF ShapeInv, AuthorityShape
      <3>4. authority'[k].by = (IF n = 0 THEN 0 ELSE authority[k].by) /\ authority'[k].count = n
        BY <3>1, <3>2 DEF NoAuthority
      <3>q. QED
        BY <3>3, <3>4
    <2>2. /\ Moves(t, {"live", "compensating"}, {"over", "compensating"}) /\ phase'[t] = "over"
          /\ StateKept
      BY <1>1, <1>3 DEF Compensate, Resolved, Moves, StateKept, TypeOK
    <2>3. /\ \A s \in Txs : s # t => receipts'[s] = receipts[s]
          /\ \A s \in Txs : "LoaderFailed" \in receipts'[s] => "LoaderFailed" \in receipts[s]
      BY <1>3 DEF Compensate, Resolved, TypeOK
    <2>4. /\ torn' = torn /\ running' = running \ Started(t) /\ owners' = owners \ Started(t)
          /\ \A p \in Panes : projects'[p] = IF p[1] = t /\ p[2] \in Chrome(t) THEN Nothing
                                                                                ELSE projects[p]
      BY <1>3 DEF Compensate
    <2>q. QED
      BY <1>1, <2>1, <2>2, <2>3, <2>4
  <1>4. CASE CompensateFails(t)
    <2>1. PICK ids : Unloaded(ids)
      BY <1>4 DEF CompensateFails, PartlyUnloaded
    <2>2. owners' \subseteq owners /\ running' \subseteq running /\ StateKept
      BY <2>1, UnloadedState, UnloadedTypes
    <2>3. \A k \in Kinds : /\ authority'[k].by \in {0, authority[k].by}
                           /\ authority'[k].count = IF k \in Chrome(t)
                                                      THEN Dropped(authority[k].count)
                                                      ELSE authority[k].count
                           /\ authority'[k].by = 0 => authority'[k].count = 0
      <3> TAKE k \in Kinds
      <3>1. authority'[k] = IF k \in Chrome(t) \cap Present
                              THEN [authority[k] EXCEPT !.count = Dropped(authority[k].count)]
                              ELSE authority[k]
        BY <1>4 DEF CompensateFails, Unbind
      <3>2. authority[k] \in [by : 0 .. Last, count : Nat]
        BY DEF TypeOK
      <3>3. k \notin Present => authority[k].count = 0
        BY DEF Present, NoAuthority
      <3>4. authority[k].by = 0 => authority[k].count = 0
        BY DEF ShapeInv, AuthorityShape
      <3>q. QED
        BY <3>1, <3>2, <3>3, <3>4 DEF Dropped
    <2>4. \A p \in Panes : projects'[p] = IF p[1] = t /\ p[2] \in Chrome(t) THEN Nothing
                                                                             ELSE projects[p]
      BY <1>4 DEF CompensateFails, Unbind
    <2>5. /\ Moves(t, {"live", "compensating"}, {"over", "compensating"})
          /\ phase'[t] = "compensating" /\ torn' = torn \cup Chrome(t) /\ receipts' = receipts
      BY <1>1, <1>4 DEF CompensateFails, Moves, TypeOK
    <2>q. QED
      BY <1>1, <2>2, <2>3, <2>4, <2>5
  <1>q. QED
    BY <1>3, <1>4

\* A reservation gives t its layout and what it starts, as the owner of these.
LEMMA ReserveDoes ==
  ASSUME TypeOK, ShapeInv, NEW t \in Txs, Reserve(t)
  PROVE  /\ phase[t] = "new" /\ phase' = [phase EXCEPT ![t] = "reserved"]
         /\ UNCHANGED <<projects, running, receipts, open, unloads, torn>>
         /\ \A s \in Txs : s # t => /\ layout'[s] = layout[s] /\ plugins'[s] = plugins[s]
                                    /\ reservation'[s] = reservation[s]
         /\ reservation'[t] = "Reserved"
         /\ owners' = owners \cup ({t} \X plugins'[t])
         /\ \A k \in Kinds : /\ authority'[k].count = authority[k].count
                             /\ authority'[k].by \in {t, authority[k].by}
                             /\ authority'[k].by = 0 => authority'[k].count = 0
  <1> PICK items \in Layouts :
         LET starts == items \ Present
         IN  /\ layout' = [layout EXCEPT ![t] = items]
             /\ plugins' = [plugins EXCEPT ![t] = starts]
             /\ owners' = owners \cup ({t} \X starts)
             /\ authority' = [k \in Kinds |-> IF k \in starts THEN [by |-> t, count |-> 0]
                                                              ELSE authority[k]]
             /\ binding' = [p \in Panes |->
                              IF p[1] = t /\ p[2] \in items
                                THEN IF p[2] \in starts THEN p ELSE <<authority[p[2]].by, p[2]>>
                                ELSE binding[p]]
    BY DEF Reserve
  <1>1. \A k \in Kinds : /\ authority'[k].count = authority[k].count
                         /\ authority'[k].by \in {t, authority[k].by}
                         /\ authority'[k].by = 0 => authority'[k].count = 0
    <2> TAKE k \in Kinds
    <2>1. authority'[k] = IF k \in items \ Present THEN [by |-> t, count |-> 0] ELSE authority[k]
      OBVIOUS
    <2>2. k \notin Present => authority[k].count = 0
      BY DEF Present, NoAuthority
    <2>q. QED
      BY <2>1, <2>2 DEF ShapeInv, AuthorityShape
  <1>2. plugins'[t] = items \ Present
    BY DEF TypeOK
  <1>3. \A s \in Txs : s # t => /\ layout'[s] = layout[s] /\ plugins'[s] = plugins[s]
                                /\ reservation'[s] = reservation[s]
    BY DEF Reserve, TypeOK
  <1>4. reservation'[t] = "Reserved"
    BY DEF Reserve, TypeOK
  <1>q. QED
    BY <1>1, <1>2, <1>3, <1>4 DEF Reserve

\* What a reservation does to ShapeInv.
LEMMA ReserveShape ==
  ASSUME TypeOK, ShapeInv, NEW t \in Txs, Reserve(t)
  PROVE  ShapeInv'
  <1>1. layout[t] = {} /\ Of(t) \cap (owners \cup running) = {} /\ open[t] = {}
    BY ReserveDoes DEF ShapeInv, NewShape, OpenShape
  <1>2. BindingShape'
    <2> SUFFICES ASSUME NEW p \in Panes, projects'[p] # Nothing
                 PROVE  p[2] \in Chrome(p[1])' /\ projects'[p][2] = p[2]
      BY DEF BindingShape
    <2>1. projects'[p] = projects[p]
      BY ReserveDoes
    <2>2. p[2] \in Chrome(p[1]) /\ projects[p][2] = p[2]
      BY <2>1 DEF ShapeInv, BindingShape
    <2>3. p[1] # t
      BY <1>1, <2>2 DEF Chrome
    <2>4. layout'[p[1]] = layout[p[1]]
      BY <2>3, ReserveDoes, PaneFacts
    <2>q. QED
      BY <2>1, <2>2, <2>4 DEF Chrome
  <1>3. RuntimeShape'
    <2> SUFFICES ASSUME NEW p \in owners' \cup running' PROVE p \in Started(p[1])'
      BY DEF RuntimeShape
    <2>1. CASE p \in {t} \X plugins'[t]
      BY <2>1 DEF Started
    <2>2. CASE p \in owners \cup running
      <3>1. p \in Started(p[1]) /\ p \in Panes
        BY <2>2 DEF ShapeInv, RuntimeShape, TypeOK
      <3>2. p[1] \in Txs /\ p[1] # t
        BY <1>1, <2>2, <3>1, PaneFacts DEF Of
      <3>q. QED
        BY <3>1, <3>2, ReserveDoes DEF Started
    <2>q. QED
      BY <2>1, <2>2, ReserveDoes
  <1>4. AuthorityShape'
    BY ReserveDoes DEF AuthorityShape
  <1>5. \A s \in Txs : s # t => phase'[s] = phase[s]
    BY ReserveDoes DEF TypeOK
  <1>6. phase'[t] = "reserved"
    BY ReserveDoes DEF TypeOK
  <1>7. OpenShape'
    BY <1>1, <1>5, <1>6, ReserveDoes DEF ShapeInv, OpenShape
  <1>8. \A s \in Txs : s # t => Of(s) \cap owners' = Of(s) \cap owners
    BY ReserveDoes, PaneFacts DEF Of
  <1>9. NewShape'
    <2> SUFFICES ASSUME NEW s \in Txs, phase'[s] = "new"
                 PROVE  /\ reservation'[s] = "absent" /\ receipts'[s] = {} /\ layout'[s] = {}
                        /\ Of(s) \cap (owners' \cup running') = {}
      BY DEF NewShape, Of, Panes
    <2>1. s # t /\ phase[s] = "new"
      BY <1>5, <1>6
    <2>2. /\ reservation'[s] = reservation[s] /\ receipts'[s] = receipts[s]
          /\ layout'[s] = layout[s] /\ running' = running
      BY <2>1, ReserveDoes
    <2>q. QED
      BY <1>8, <2>1, <2>2 DEF ShapeInv, NewShape
  <1>q. QED
    BY <1>2, <1>3, <1>4, <1>7, <1>9 DEF ShapeInv

\* An activation starts what t reserved and binds chrome panes of t, all of
\* them or those of kinds that are excused from then on.
LEMMA ActivateDoes ==
  ASSUME TypeOK, ShapeInv, NEW t \in Txs, ResolveActivate(t),
         Activate(t) \/ ActivateLosesAuthority(t)
  PROVE  \E kinds \in SUBSET (Chrome(t) \cap Present) :
           /\ UNCHANGED <<layout, plugins, open, unloads, owners>>
           /\ reservation[t] = "Reserved" /\ StateKept
           /\ Moves(t, {"reserved", "again"}, {"live", "releasing", "again"})
           /\ running' = running \cup Started(t)
           /\ \A p \in Panes : IF p[1] = t /\ p[2] \in kinds
                                 THEN /\ projects'[p] = <<authority[p[2]].by, p[2]>>
                                      /\ projects'[p] \in Panes
                                 ELSE projects'[p] = projects[p]
           /\ \A k \in Kinds :
                /\ authority'[k].by = authority[k].by
                /\ authority'[k].count = IF k \in kinds THEN authority[k].count + 1
                                                        ELSE authority[k].count
                /\ authority'[k].by = 0 => authority'[k].count = 0
           /\ \A s \in Txs : s # t => receipts'[s] = receipts[s]
           /\ \A s \in Txs : "LoaderFailed" \in receipts'[s] => "LoaderFailed" \in receipts[s]
           /\ \/ kinds = Chrome(t) /\ torn' = torn /\ phase'[t] = "live"
              \/ torn' = torn \cup kinds /\ phase'[t] \in {"releasing", "again"}
  <1>1. phase[t] \in {"reserved", "again"} /\ UNCHANGED <<layout, plugins, open, unloads>>
    BY DEF ResolveActivate, FirstOf
  <1>2. \A k \in Present : k \in Kinds /\ authority[k].by \in Txs
    BY ChromeAssumption DEF TypeOK, ShapeInv, AuthorityShape, Present, NoAuthority, Txs
  <1>3. ASSUME NEW kinds \in SUBSET (Chrome(t) \cap Present), Bind(t, kinds)
        PROVE  /\ \A p \in Panes : IF p[1] = t /\ p[2] \in kinds
                                     THEN /\ projects'[p] = <<authority[p[2]].by, p[2]>>
                                          /\ projects'[p] \in Panes
                                     ELSE projects'[p] = projects[p]
               /\ \A k \in Kinds :
                    /\ authority'[k].by = authority[k].by
                    /\ authority'[k].count = IF k \in kinds THEN authority[k].count + 1
                                                            ELSE authority[k].count
                    /\ authority'[k].by = 0 => authority'[k].count = 0
    <2>1. \A p \in Panes : p[2] \in kinds => <<authority[p[2]].by, p[2]>> \in Panes
      BY <1>2, PaneFacts
    <2>2. ASSUME NEW k \in Kinds
          PROVE  /\ authority'[k].by = authority[k].by
                 /\ authority'[k].count = IF k \in kinds THEN authority[k].count + 1
                                                         ELSE authority[k].count
                 /\ authority'[k].by = 0 => authority'[k].count = 0
      <3>1. authority'[k] = IF k \in kinds THEN [authority[k] EXCEPT !.count = @ + 1]
                                           ELSE authority[k]
        BY <1>3 DEF Bind
      <3>2. authority[k] \in [by : 0 .. Last, count : Nat]
        BY DEF TypeOK
      <3>3. k \in kinds => authority[k].by # 0
        BY <1>2, PaneFacts, ChromeAssumption DEF Txs
      <3>q. QED
        BY <3>1, <3>2, <3>3 DEF ShapeInv, AuthorityShape
    <2>q. QED
      BY <1>3, <2>1, <2>2 DEF Bind
  <1>4. CASE Activate(t)
    <2>1. /\ Chrome(t) \subseteq Present /\ Bind(t, Chrome(t)) /\ reservation[t] = "Reserved"
          /\ running' = running \cup Started(t) /\ UNCHANGED <<owners, torn>>
      BY <1>4 DEF Activate
    <2>2. /\ Moves(t, {"reserved", "again"}, {"live", "releasing", "again"})
          /\ phase'[t] = "live" /\ StateKept
      BY <1>1, <1>4 DEF Activate, Resolved, Moves, StateKept, TypeOK
    <2>3. /\ \A s \in Txs : s # t => receipts'[s] = receipts[s]
          /\ \A s \in Txs : "LoaderFailed" \in receipts'[s] => "LoaderFailed" \in receipts[s]
      BY <1>4 DEF Activate, Resolved, TypeOK
    <2>4. Chrome(t) \in SUBSET (Chrome(t) \cap Present)
      BY <2>1
    <2> WITNESS Chrome(t) \in SUBSET (Chrome(t) \cap Present)
    <2>q. QED
      BY <1>1, <1>3, <2>1, <2>2, <2>3, <2>4
  <1>5. CASE ActivateLosesAuthority(t)
    <2>1. PICK kinds \in SUBSET (Chrome(t) \cap Present) : Bind(t, kinds) /\ torn' = torn \cup kinds
      BY <1>5 DEF ActivateLosesAuthority
    <2>2. /\ reservation[t] = "Reserved" /\ running' = running \cup Started(t)
          /\ UNCHANGED <<owners, reservation, receipts>>
      BY <1>5 DEF ActivateLosesAuthority
    <2>3. /\ Moves(t, {"reserved", "again"}, {"live", "releasing", "again"})
          /\ phase'[t] \in {"releasing", "again"} /\ StateKept
      BY <1>1, <1>5 DEF ActivateLosesAuthority, Refused, Moves, StateKept, TypeOK
    <2> WITNESS kinds \in SUBSET (Chrome(t) \cap Present)
    <2>q. QED
      BY <1>1, <1>3, <2>1, <2>2, <2>3
  <1>q. QED
    BY <1>4, <1>5

\* A release stops what t started and drops the authorities without projectors.
LEMMA ReleaseDoes ==
  ASSUME TypeOK, ShapeInv, NEW t \in Txs, ResolveRelease(t), Release(t)
  PROVE  /\ UNCHANGED <<layout, plugins, open, unloads, projects, torn>> /\ StateKept
         /\ Moves(t, {"reserved", "releasing"}, {"over"}) /\ phase'[t] = "over"
         /\ running' = running \ Started(t) /\ owners' = owners \ Started(t)
         /\ \A k \in Kinds : /\ authority'[k].by \in {0, authority[k].by}
                             /\ authority'[k].count = authority[k].count
                             /\ authority'[k].by = 0 => authority'[k].count = 0
         /\ \A s \in Txs : s # t => receipts'[s] = receipts[s]
         /\ \A s \in Txs : "LoaderFailed" \in receipts'[s] => "LoaderFailed" \in receipts[s]
  <1>1. phase[t] \in {"reserved", "releasing"} /\ UNCHANGED <<layout, plugins, open, unloads>>
    BY DEF ResolveRelease, FirstOf
  <1>2. ASSUME NEW k \in Kinds
        PROVE  /\ authority'[k].by \in {0, authority[k].by}
               /\ authority'[k].count = authority[k].count
               /\ authority'[k].by = 0 => authority'[k].count = 0
    <2>1. authority'[k] = IF authority[k].by = t /\ authority[k].count = 0 THEN NoAuthority
                                                                         ELSE authority[k]
      BY DEF Release
    <2>q. QED
      BY <2>1 DEF NoAuthority, ShapeInv, AuthorityShape
  <1>3. Moves(t, {"reserved", "releasing"}, {"over"}) /\ phase'[t] = "over" /\ StateKept
    BY <1>1 DEF Release, Resolved, Moves, StateKept, TypeOK
  <1>4. /\ \A s \in Txs : s # t => receipts'[s] = receipts[s]
        /\ \A s \in Txs : "LoaderFailed" \in receipts'[s] => "LoaderFailed" \in receipts[s]
    BY DEF Release, Resolved, TypeOK
  <1>q. QED
    BY <1>1, <1>2, <1>3, <1>4 DEF Release

\* What an activation does to ShapeInv.
LEMMA ActivateShape ==
  ASSUME TypeOK, ShapeInv, NEW t \in Txs, ResolveActivate(t),
         Activate(t) \/ ActivateLosesAuthority(t)
  PROVE  ShapeInv'
  <1> PICK kinds \in SUBSET (Chrome(t) \cap Present) :
           /\ UNCHANGED <<layout, plugins, open, unloads, owners>>
           /\ reservation[t] = "Reserved" /\ StateKept
           /\ Moves(t, {"reserved", "again"}, {"live", "releasing", "again"})
           /\ running' = running \cup Started(t)
           /\ \A p \in Panes : IF p[1] = t /\ p[2] \in kinds
                                 THEN /\ projects'[p] = <<authority[p[2]].by, p[2]>>
                                      /\ projects'[p] \in Panes
                                 ELSE projects'[p] = projects[p]
           /\ \A k \in Kinds : authority'[k].by = 0 => authority'[k].count = 0
           /\ \A s \in Txs : s # t => receipts'[s] = receipts[s]
    BY ActivateDoes
  <1>1. /\ phase[t] # "new" /\ phase[t] # "committed" /\ phase'[t] # "new"
        /\ \A s \in Txs : s # t => phase'[s] = phase[s]
    BY MovesFacts
  <1>2. BindingShape'
    BY DEF ShapeInv, BindingShape, Chrome
  <1>3. RuntimeShape'
    BY StartedFacts, PaneFacts DEF ShapeInv, RuntimeShape, Started
  <1>4. AuthorityShape'
    BY DEF AuthorityShape
  <1>5. OpenShape'
    BY <1>1 DEF ShapeInv, OpenShape
  <1>6. NewShape'
    <2> SUFFICES ASSUME NEW s \in Txs, phase'[s] = "new"
                 PROVE  /\ reservation'[s] = "absent" /\ receipts'[s] = {} /\ layout'[s] = {}
                        /\ Of(s) \cap (owners' \cup running') = {}
      BY DEF NewShape, Of, Panes
    <2>1. s # t /\ phase[s] = "new"
      BY <1>1
    <2>2. Of(s) \cap Started(t) = {}
      BY <2>1, StartedFacts
    <2>q. QED
      BY <2>1, <2>2 DEF ShapeInv, NewShape, StateKept
  <1>q. QED
    BY <1>2, <1>3, <1>4, <1>5, <1>6 DEF ShapeInv

\* Every step keeps ShapeInv.
LEMMA ShapeStep == TypeOK /\ ShapeInv /\ [Next]_vars => ShapeInv'
  <1> SUFFICES ASSUME TypeOK, ShapeInv, [Next]_vars PROVE ShapeInv'
    OBVIOUS
  <1>1. ASSUME Kept, StateKept, open' = open, NEW t \in Txs, NEW from, NEW to,
               Moves(t, from, to), from \cap {"new", "committed"} = {}, "new" \notin to,
               \A s \in Txs : s # t => receipts'[s] = receipts[s]
        PROVE  ShapeInv'
    <2>1. AuthorityShape'
      BY <1>1 DEF Kept, ShapeInv, AuthorityShape
    <2>2. /\ phase[t] # "new" /\ phase[t] # "committed" /\ phase'[t] # "new"
          /\ \A s \in Txs : s # t => phase'[s] = phase[s]
      BY <1>1, MovesFacts
    <2>q. QED
      BY <1>1, <2>1, <2>2, ShapeKept DEF Kept
  <1>2. ASSUME NEW t \in Txs, Reserve(t) PROVE ShapeInv'
    BY <1>2, ReserveShape
  <1>3. ASSUME NEW t \in Txs, ResolveActivate(t) PROVE ShapeInv'
    <2>1. CASE Activate(t) \/ ActivateLosesAuthority(t)
      BY <1>3, <2>1, ActivateShape
    <2>2. CASE ActivateRollsBack(t) \/ ActivateFails(t) \/ ActivateRefused(t)
      BY <1>1, <1>3, <2>2, ActivateKeeps
    <2>q. QED
      BY <1>3, <2>1, <2>2 DEF ResolveActivate
  <1>4. ASSUME NEW t \in Txs, ResolveCompensate(t) PROVE ShapeInv'
    <2>1. CASE Compensate(t) \/ CompensateFails(t)
      <3>1. /\ UNCHANGED <<layout, plugins, open>> /\ StateKept
            /\ Moves(t, {"live", "compensating"}, {"over", "compensating"})
            /\ owners' \subseteq owners /\ running' \subseteq running
            /\ \A p \in Panes : projects'[p] \in {projects[p], Nothing}
            /\ \A k \in Kinds : authority'[k].by = 0 => authority'[k].count = 0
            /\ \A s \in Txs : s # t => receipts'[s] = receipts[s]
        BY <1>4, <2>1, CompensateDoes
      <3>2. /\ phase[t] # "new" /\ phase[t] # "committed" /\ phase'[t] # "new"
            /\ \A s \in Txs : s # t => phase'[s] = phase[s]
        BY <3>1, MovesFacts
      <3>q. QED
        BY <3>1, <3>2, ShapeKept DEF AuthorityShape
    <2>2. CASE CompensateWaits(t) \/ CompensateReplayed(t)
      BY <1>1, <1>4, <2>2, CompensateKeeps
    <2>q. QED
      BY <1>4, <2>1, <2>2 DEF ResolveCompensate
  <1>5. ASSUME NEW t \in Txs, ResolveRelease(t) PROVE ShapeInv'
    <2>1. CASE Release(t)
      <3>1. /\ UNCHANGED <<layout, plugins, open, projects>> /\ StateKept
            /\ Moves(t, {"reserved", "releasing"}, {"over"})
            /\ owners' \subseteq owners /\ running' \subseteq running
            /\ \A k \in Kinds : authority'[k].by = 0 => authority'[k].count = 0
            /\ \A s \in Txs : s # t => receipts'[s] = receipts[s]
        BY <1>5, <2>1, ReleaseDoes
      <3>2. /\ phase[t] # "new" /\ phase[t] # "committed" /\ phase'[t] # "new"
            /\ \A s \in Txs : s # t => phase'[s] = phase[s]
        BY <3>1, MovesFacts
      <3>q. QED
        BY <3>1, <3>2, ShapeKept DEF AuthorityShape
    <2>2. CASE ReleaseFails(t) \/ ReleaseRefused(t)
      BY <1>1, <1>5, <2>2, ReleaseKeeps
    <2>q. QED
      BY <1>5, <2>1, <2>2 DEF ResolveRelease
  <1>6. ASSUME NEW t \in Txs, LoaderFails(t) \/ LoaderFailsUncleanly(t) PROVE ShapeInv'
    <2>1. /\ Kept /\ StateKept /\ UNCHANGED <<phase, open>> /\ phase[t] # "new"
          /\ \A s \in Txs : s # t => receipts'[s] = receipts[s]
      BY <1>6, LoaderKeeps
    <2>2. AuthorityShape'
      BY <2>1 DEF Kept, ShapeInv, AuthorityShape
    <2>q. QED
      BY <2>1, <2>2, ShapeKept DEF Kept
  <1>7. ASSUME NEW t \in Txs, Commit(t) PROVE ShapeInv'
    <2>1. /\ Kept /\ StateKept /\ UNCHANGED receipts /\ Moves(t, {"live"}, {"committed"})
          /\ open' = [open EXCEPT ![t] = layout[t]]
      BY <1>7, CloseKeeps
    <2>2. AuthorityShape'
      BY <2>1 DEF Kept, ShapeInv, AuthorityShape
    <2>3. /\ phase'[t] = "committed" /\ phase[t] # "new"
          /\ \A s \in Txs : s # t => phase'[s] = phase[s]
      BY <2>1 DEF Moves, TypeOK
    <2>4. open'[t] = layout[t] /\ \A s \in Txs : s # t => open'[s] = open[s]
      BY <2>1 DEF TypeOK
    <2>q. QED
      BY <2>1, <2>2, <2>3, <2>4, ShapeKept DEF Kept
  <1>8. ASSUME NEW t \in Txs, CloseTab(t) \/ CleanUp(t) PROVE ShapeInv'
    <2>1. /\ Kept /\ StateKept /\ UNCHANGED <<receipts, phase>>
          /\ \A s \in Txs : open'[s] \subseteq open[s]
      BY <1>8, CloseKeeps DEF TypeOK
    <2>2. AuthorityShape'
      BY <2>1 DEF Kept, ShapeInv, AuthorityShape
    <2>q. QED
      BY <2>1, <2>2, ShapeKept DEF Kept
  <1>9. ASSUME NEW p \in Panes, ClosePane(p) PROVE ShapeInv'
    <2>1. /\ Kept /\ StateKept /\ UNCHANGED <<receipts, phase>>
          /\ \A s \in Txs : open'[s] \subseteq open[s]
      BY <1>9 DEF ClosePane, Kept, StateKept, bridgeVars, TypeOK
    <2>2. AuthorityShape'
      BY <2>1 DEF Kept, ShapeInv, AuthorityShape
    <2>q. QED
      BY <2>1, <2>2, ShapeKept DEF Kept
  <1>10. ASSUME NEW p \in Panes, Unload(p) PROVE ShapeInv'
    <2>1. /\ UNCHANGED <<layout, plugins, phase, open, receipts>>
          /\ owners' \subseteq owners /\ running' \subseteq running /\ StateKept
          /\ \A q \in Panes : projects'[q] \in {projects[q], Nothing}
          /\ \A k \in Kinds : k # p[2] \/ projects[p] = Nothing => authority'[k] = authority[k]
          /\ projects[p] # Nothing => (authority'[p[2]].by = 0 => authority'[p[2]].count = 0)
      BY <1>10, UnloadKeeps
    <2>2. AuthorityShape'
      BY <2>1 DEF ShapeInv, AuthorityShape
    <2>q. QED
      BY <2>1, <2>2, ShapeKept
  <1>11. ASSUME UNCHANGED vars PROVE ShapeInv'
    BY <1>11 DEF vars, bridgeVars, screenVars, ShapeInv, BindingShape, RuntimeShape, AuthorityShape,
       OpenShape, NewShape, Chrome, Started
  <1>q. QED
    BY <1>2, <1>3, <1>4, <1>5, <1>6, <1>7, <1>8, <1>9, <1>10, <1>11 DEF Next

-----------------------------------------------------------------------------
(* LeftInv.                                                                *)

\* Runtimes and owners that are not a layout's are gone once it is over.
LEMMA NothingLeft ==
  ASSUME TypeOK, ShapeInv, NEW t \in Txs,
         running' = running \ Started(t), owners' = owners \ Started(t)
  PROVE  Of(t) \cap (owners' \cup running') = {}
  BY StartedFacts

\* LeftInv in a step in which no runtime gets an owner or is started, and a
\* layout is over, or its loader has failed, only if nothing of it is left.
LEMMA LeftKept ==
  ASSUME TypeOK, LeftInv, StateKept,
         owners' \cup running' \subseteq owners \cup running,
         \A s \in Txs : phase'[s] = "over" =>
           phase[s] = "over" \/ Of(s) \cap (owners' \cup running') = {},
         \A s \in Txs : "LoaderFailed" \in receipts'[s] =>
           "LoaderFailed" \in receipts[s]
           \/ (reservation'[s] = "absent" /\ Of(s) \cap (owners' \cup running') = {})
  PROVE  LeftInv'
  <1>1. \A s \in Txs : Of(s)' = Of(s)
    BY DEF Of, Panes
  <1>q. QED
    BY <1>1 DEF LeftInv, StateKept

\* Every step keeps LeftInv.
LEMMA LeftStep == TypeOK /\ ShapeInv /\ LeftInv /\ [Next]_vars => LeftInv'
  <1> SUFFICES ASSUME TypeOK, ShapeInv, LeftInv, [Next]_vars PROVE LeftInv'
    OBVIOUS
  <1>1. ASSUME Kept, StateKept, phase' = phase, receipts' = receipts PROVE LeftInv'
    BY <1>1, LeftKept DEF Kept
  <1>2. ASSUME NEW t \in Txs, Reserve(t) PROVE LeftInv'
    <2>1. /\ phase[t] = "new" /\ phase' = [phase EXCEPT ![t] = "reserved"]
          /\ UNCHANGED <<running, receipts>>
          /\ \A s \in Txs : s # t => reservation'[s] = reservation[s]
          /\ owners' = owners \cup ({t} \X plugins'[t])
      BY <1>2, ReserveDoes
    <2>2. receipts[t] = {}
      BY <2>1 DEF ShapeInv, NewShape
    <2>3. \A s \in Txs : s # t => Of(s) \cap owners' = Of(s) \cap owners
      BY <2>1, PaneFacts DEF Of
    <2>4. phase'[t] # "over" /\ \A s \in Txs : s # t => phase'[s] = phase[s]
      BY <2>1 DEF TypeOK
    <2>5. \A s \in Txs : Of(s)' = Of(s)
      BY DEF Of, Panes
    <2>q. QED
      BY <2>1, <2>2, <2>3, <2>4, <2>5 DEF LeftInv
  <1>3. ASSUME NEW t \in Txs, ResolveActivate(t) PROVE LeftInv'
    <2>1. CASE Activate(t) \/ ActivateLosesAuthority(t)
      <3>1. /\ UNCHANGED owners /\ reservation[t] = "Reserved" /\ StateKept
            /\ Moves(t, {"reserved", "again"}, {"live", "releasing", "again"})
            /\ running' = running \cup Started(t)
            /\ \A s \in Txs : s # t => receipts'[s] = receipts[s]
            /\ \A s \in Txs : "LoaderFailed" \in receipts'[s] => "LoaderFailed" \in receipts[s]
        BY <1>3, <2>1, ActivateDoes
      <3>2. phase'[t] # "over" /\ \A s \in Txs : s # t => phase'[s] = phase[s]
        BY <3>1 DEF Moves, TypeOK
      <3>3. "LoaderFailed" \notin receipts[t]
        BY <3>1 DEF LeftInv
      <3>4. \A s \in Txs : s # t => Of(s) \cap Started(t) = {}
        BY StartedFacts
      <3>5. \A s \in Txs : Of(s)' = Of(s)
        BY DEF Of, Panes
      <3>q. QED
        BY <3>1, <3>2, <3>3, <3>4, <3>5 DEF LeftInv, StateKept
    <2>2. CASE ActivateRollsBack(t) \/ ActivateFails(t) \/ ActivateRefused(t)
      <3>1. /\ Kept /\ StateKept
            /\ Moves(t, {"reserved", "again"}, {"over", "releasing", "again"})
            /\ phase'[t] = "over" => running' = running \ Started(t) /\ owners' = owners \ Started(t)
            /\ \A s \in Txs : s # t => receipts'[s] = receipts[s]
            /\ "LoaderFailed" \in receipts'[t] => "LoaderFailed" \in receipts[t]
        BY <1>3, <2>2, ActivateKeeps
      <3>2. \A s \in Txs : s # t => phase'[s] = phase[s]
        BY <3>1, MovesFacts
      <3>3. phase'[t] = "over" => Of(t) \cap (owners' \cup running') = {}
        BY <3>1, NothingLeft
      <3>q. QED
        BY <3>1, <3>2, <3>3, LeftKept DEF Kept
    <2>q. QED
      BY <1>3, <2>1, <2>2 DEF ResolveActivate
  <1>4. ASSUME NEW t \in Txs, ResolveCompensate(t) PROVE LeftInv'
    <2>1. CASE Compensate(t) \/ CompensateFails(t)
      <3>1. /\ Moves(t, {"live", "compensating"}, {"over", "compensating"}) /\ StateKept
            /\ owners' \subseteq owners /\ running' \subseteq running
            /\ \A s \in Txs : "LoaderFailed" \in receipts'[s] => "LoaderFailed" \in receipts[s]
            /\ phase'[t] = "over" => running' = running \ Started(t) /\ owners' = owners \ Started(t)
        BY <1>4, <2>1, CompensateDoes
      <3>2. \A s \in Txs : s # t => phase'[s] = phase[s]
        BY <3>1, MovesFacts
      <3>3. phase'[t] = "over" => Of(t) \cap (owners' \cup running') = {}
        BY <3>1, NothingLeft
      <3>q. QED
        BY <3>1, <3>2, <3>3, LeftKept
    <2>2. CASE CompensateWaits(t) \/ CompensateReplayed(t)
      <3>1. /\ Kept /\ StateKept /\ UNCHANGED receipts
            /\ Moves(t, {"live", "compensating"}, {"over", "compensating"})
            /\ phase'[t] = "over" => "LoaderFailed" \in receipts[t]
        BY <1>4, <2>2, CompensateKeeps
      <3>2. \A s \in Txs : s # t => phase'[s] = phase[s]
        BY <3>1, MovesFacts
      <3>3. phase'[t] = "over" => Of(t) \cap (owners' \cup running') = {}
        BY <3>1 DEF LeftInv, Kept
      <3>q. QED
        BY <3>1, <3>2, <3>3, LeftKept DEF Kept
    <2>q. QED
      BY <1>4, <2>1, <2>2 DEF ResolveCompensate
  <1>5. ASSUME NEW t \in Txs, ResolveRelease(t) PROVE LeftInv'
    <2>1. CASE Release(t)
      <3>1. /\ Moves(t, {"reserved", "releasing"}, {"over"}) /\ StateKept
            /\ running' = running \ Started(t) /\ owners' = owners \ Started(t)
            /\ \A s \in Txs : "LoaderFailed" \in receipts'[s] => "LoaderFailed" \in receipts[s]
        BY <1>5, <2>1, ReleaseDoes
      <3>2. \A s \in Txs : s # t => phase'[s] = phase[s]
        BY <3>1, MovesFacts
      <3>3. Of(t) \cap (owners' \cup running') = {}
        BY <3>1, NothingLeft
      <3>q. QED
        BY <3>1, <3>2, <3>3, LeftKept
    <2>2. CASE ReleaseFails(t) \/ ReleaseRefused(t)
      <3>1. /\ Kept /\ StateKept /\ UNCHANGED receipts
            /\ Moves(t, {"reserved", "releasing"}, {"releasing"})
        BY <1>5, <2>2, ReleaseKeeps
      <3>2. phase'[t] # "over" /\ \A s \in Txs : s # t => phase'[s] = phase[s]
        BY <3>1 DEF Moves, TypeOK
      <3>q. QED
        BY <3>1, <3>2, LeftKept DEF Kept
    <2>q. QED
      BY <1>5, <2>1, <2>2 DEF ResolveRelease
  <1>6. ASSUME NEW t \in Txs, LoaderFails(t) \/ LoaderFailsUncleanly(t) PROVE LeftInv'
    <2>1. /\ Kept /\ StateKept /\ UNCHANGED phase
          /\ \A s \in Txs : s # t => receipts'[s] = receipts[s]
          /\ \/ receipts' = receipts
             \/ /\ running' = running \ Started(t) /\ owners' = owners \ Started(t)
                /\ reservation'[t] = "absent"
      BY <1>6, LoaderKeeps
    <2>2. \/ receipts' = receipts
          \/ reservation'[t] = "absent" /\ Of(t) \cap (owners' \cup running') = {}
      BY <2>1, NothingLeft
    <2>q. QED
      BY <2>1, <2>2, LeftKept DEF Kept
  <1>7. ASSUME NEW t \in Txs, Commit(t) PROVE LeftInv'
    <2>1. /\ Kept /\ StateKept /\ UNCHANGED receipts /\ Moves(t, {"live"}, {"committed"})
      BY <1>7, CloseKeeps
    <2>2. phase'[t] # "over" /\ \A s \in Txs : s # t => phase'[s] = phase[s]
      BY <2>1 DEF Moves, TypeOK
    <2>q. QED
      BY <2>1, <2>2, LeftKept DEF Kept
  <1>8. ASSUME NEW t \in Txs, CloseTab(t) \/ CleanUp(t) PROVE LeftInv'
    BY <1>1, <1>8, CloseKeeps
  <1>9. ASSUME NEW p \in Panes, ClosePane(p) PROVE LeftInv'
    BY <1>1, <1>9 DEF ClosePane, Kept, StateKept, bridgeVars
  <1>10. ASSUME NEW p \in Panes, Unload(p) PROVE LeftInv'
    <2>1. /\ UNCHANGED <<phase, receipts>> /\ StateKept
          /\ owners' \subseteq owners /\ running' \subseteq running
      BY <1>10, UnloadKeeps
    <2>q. QED
      BY <2>1, LeftKept
  <1>11. ASSUME UNCHANGED vars PROVE LeftInv'
    BY <1>11 DEF vars, bridgeVars, screenVars, LeftInv, Of, Panes
  <1>q. QED
    BY <1>2, <1>3, <1>4, <1>5, <1>6, <1>7, <1>8, <1>9, <1>10, <1>11 DEF Next

-----------------------------------------------------------------------------
(* BoundInv.                                                               *)

\* A bound pane is one of its transaction's layout.
LEMMA BoundInLayout ==
  ASSUME ShapeInv, NEW t \in Txs, NEW k \in Kinds, k \notin layout[t]
  PROVE  projects[<<t, k>>] = Nothing
  BY PaneFacts DEF ShapeInv, BindingShape, Chrome

\* BoundInv in a step of one transaction.
LEMMA BoundKept ==
  ASSUME TypeOK, BoundInv, NEW t \in Txs, torn \subseteq torn',
         \A s \in Txs : s # t => /\ phase'[s] = phase[s] /\ layout'[s] = layout[s]
                                 /\ open'[s] = open[s] /\ receipts'[s] = receipts[s],
         \A p \in Panes : p[1] # t => projects'[p] = projects[p],
         \A k \in Kinds \ torn' : BoundOf(t, k)'
  PROVE  BoundInv'
  <1> SUFFICES ASSUME NEW s \in Txs, NEW k \in Kinds \ torn', s # t PROVE BoundOf(s, k)'
    BY DEF BoundInv
  <1>1. projects'[<<s, k>>] = projects[<<s, k>>]
    BY PaneFacts
  <1>q. QED
    BY <1>1 DEF BoundInv, BoundOf

\* BoundInv in a step that binds and unbinds nothing.
LEMMA BoundSame ==
  ASSUME TypeOK, BoundInv, projects' = projects, layout' = layout, torn' = torn,
         phase' = phase, \A s \in Txs : open'[s] \subseteq open[s],
         \A s \in Txs : "LoaderFailed" \in receipts[s] => "LoaderFailed" \in receipts'[s]
  PROVE  BoundInv'
  BY DEF BoundInv, BoundOf

\* Every step keeps BoundInv.
LEMMA BoundStep ==
  TypeOK /\ ShapeInv /\ BoundInv /\ UnloadInv /\ [Next]_vars => BoundInv'
  <1> SUFFICES ASSUME TypeOK, ShapeInv, BoundInv, UnloadInv, [Next]_vars PROVE BoundInv'
    OBVIOUS
  <1>1. ASSUME NEW t \in Txs, Reserve(t) PROVE BoundInv'
    <2>1. /\ phase[t] = "new" /\ phase' = [phase EXCEPT ![t] = "reserved"]
          /\ UNCHANGED <<projects, receipts, open, torn>>
          /\ \A s \in Txs : s # t => layout'[s] = layout[s]
      BY <1>1, ReserveDoes
    <2>2. phase'[t] = "reserved" /\ \A s \in Txs : s # t => phase'[s] = phase[s]
      BY <2>1 DEF TypeOK
    <2>3. \A k \in Kinds \ torn' : BoundOf(t, k)'
      BY <2>1, <2>2 DEF BoundInv, BoundOf
    <2>q. QED
      BY <2>1, <2>2, <2>3, BoundKept
  <1>2. ASSUME NEW t \in Txs, ResolveActivate(t) PROVE BoundInv'
    <2>1. CASE Activate(t) \/ ActivateLosesAuthority(t)
      <3>1. PICK kinds \in SUBSET (Chrome(t) \cap Present) :
              /\ UNCHANGED <<layout, open>>
              /\ Moves(t, {"reserved", "again"}, {"live", "releasing", "again"})
              /\ \A p \in Panes : IF p[1] = t /\ p[2] \in kinds
                                    THEN projects'[p] \in Panes
                                    ELSE projects'[p] = projects[p]
              /\ \A s \in Txs : s # t => receipts'[s] = receipts[s]
              /\ \/ kinds = Chrome(t) /\ torn' = torn /\ phase'[t] = "live"
                 \/ torn' = torn \cup kinds /\ phase'[t] \in {"releasing", "again"}
        BY <1>2, <2>1, ActivateDoes, SMTT(30)
      <3>2. phase[t] \in {"reserved", "again"} /\ \A s \in Txs : s # t => phase'[s] = phase[s]
        BY <3>1, MovesFacts DEF Moves
      <3>3. ASSUME NEW k \in Kinds \ torn' PROVE BoundOf(t, k)'
        <4>1. projects[<<t, k>>] = Nothing /\ <<t, k>> \in Panes
          BY <3>1, <3>2, PaneFacts DEF BoundInv, BoundOf
        <4>2. CASE kinds = Chrome(t) /\ torn' = torn /\ phase'[t] = "live"
          <5>1. k \in layout[t] => projects'[<<t, k>>] # Nothing
            BY <3>1, <4>1, <4>2, PaneFacts DEF Chrome
          <5>q. QED
            BY <3>1, <4>2, <5>1 DEF BoundOf
        <4>3. CASE torn' = torn \cup kinds /\ phase'[t] \in {"releasing", "again"}
          <5>1. projects'[<<t, k>>] = Nothing
            BY <3>1, <4>1, <4>3
          <5>q. QED
            BY <4>3, <5>1 DEF BoundOf
        <4>q. QED
          BY <3>1, <4>2, <4>3
      <3>q. QED
        BY <3>1, <3>2, <3>3, BoundKept
    <2>2. CASE ActivateRollsBack(t) \/ ActivateFails(t) \/ ActivateRefused(t)
      <3>1. /\ Kept /\ open' = open
            /\ Moves(t, {"reserved", "again"}, {"over", "releasing", "again"})
            /\ \A s \in Txs : s # t => receipts'[s] = receipts[s]
        BY <1>2, <2>2, ActivateKeeps
      <3>2. /\ phase[t] \in {"reserved", "again"} /\ phase'[t] \in {"over", "releasing", "again"}
            /\ \A s \in Txs : s # t => phase'[s] = phase[s]
        BY <3>1 DEF Moves, TypeOK
      <3>3. \A k \in Kinds \ torn' : BoundOf(t, k)'
        BY <3>1, <3>2 DEF BoundInv, BoundOf, Kept
      <3>q. QED
        BY <3>1, <3>2, <3>3, BoundKept DEF Kept
    <2>q. QED
      BY <1>2, <2>1, <2>2 DEF ResolveActivate
  <1>3. ASSUME NEW t \in Txs, ResolveCompensate(t) PROVE BoundInv'
    <2>1. CASE Compensate(t) \/ CompensateFails(t)
      <3>1. /\ UNCHANGED <<layout, open>>
            /\ Moves(t, {"live", "compensating"}, {"over", "compensating"})
            /\ \A p \in Panes : projects'[p] = IF p[1] = t /\ p[2] \in Chrome(t)
                                                 THEN Nothing ELSE projects[p]
            /\ \A s \in Txs : s # t => receipts'[s] = receipts[s]
            /\ \/ torn' = torn /\ phase'[t] = "over"
               \/ torn' = torn \cup Chrome(t) /\ phase'[t] = "compensating"
        BY <1>3, <2>1, CompensateDoes
      <3>2. \A s \in Txs : s # t => phase'[s] = phase[s]
        BY <3>1, MovesFacts
      <3>3. ASSUME NEW k \in Kinds \ torn' PROVE BoundOf(t, k)'
        <4>1. <<t, k>> \in Panes
          BY PaneFacts
        <4>2. projects'[<<t, k>>] = Nothing
          BY <3>1, <4>1, BoundInLayout DEF Chrome
        <4>3. phase'[t] = "compensating" => k \notin layout'[t]
          BY <3>1 DEF Chrome
        <4>q. QED
          BY <3>1, <4>2, <4>3 DEF BoundOf
      <3>q. QED
        BY <3>1, <3>2, <3>3, BoundKept
    <2>2. CASE CompensateWaits(t) \/ CompensateReplayed(t)
      <3>1. /\ Kept /\ UNCHANGED <<open, receipts>>
            /\ Moves(t, {"live", "compensating"}, {"over", "compensating"})
            /\ phase'[t] = "over" => "LoaderFailed" \in receipts[t]
        BY <1>3, <2>2, CompensateKeeps
      <3>2. /\ phase[t] \in {"live", "compensating"} /\ phase'[t] \in {"over", "compensating"}
            /\ \A s \in Txs : s # t => phase'[s] = phase[s]
        BY <3>1 DEF Moves, TypeOK
      <3>3. \A k \in Kinds \ torn' : BoundOf(t, k)'
        BY <3>1, <3>2 DEF BoundInv, BoundOf, Kept
      <3>q. QED
        BY <3>1, <3>2, <3>3, BoundKept DEF Kept
    <2>q. QED
      BY <1>3, <2>1, <2>2 DEF ResolveCompensate
  <1>4. ASSUME NEW t \in Txs, ResolveRelease(t) PROVE BoundInv'
    <2>1. /\ UNCHANGED <<layout, open, projects, torn>>
          /\ Moves(t, {"reserved", "releasing"}, {"over", "releasing"})
          /\ \A s \in Txs : s # t => receipts'[s] = receipts[s]
      <3>1. CASE Release(t)
        BY <1>4, <3>1, ReleaseDoes DEF Moves
      <3>2. CASE ReleaseFails(t) \/ ReleaseRefused(t)
        BY <1>4, <3>2, ReleaseKeeps DEF Kept, Moves
      <3>q. QED
        BY <1>4, <3>1, <3>2 DEF ResolveRelease
    <2>2. /\ phase[t] \in {"reserved", "releasing"} /\ phase'[t] \in {"over", "releasing"}
          /\ \A s \in Txs : s # t => phase'[s] = phase[s]
      BY <2>1 DEF Moves, TypeOK
    <2>3. \A k \in Kinds \ torn' : BoundOf(t, k)'
      BY <2>1, <2>2 DEF BoundInv, BoundOf
    <2>q. QED
      BY <2>1, <2>2, <2>3, BoundKept
  <1>5. ASSUME NEW t \in Txs, LoaderFails(t) \/ LoaderFailsUncleanly(t) PROVE BoundInv'
    <2>1. /\ Kept /\ UNCHANGED <<phase, open>>
          /\ \A s \in Txs : s # t => receipts'[s] = receipts[s]
          /\ receipts' = receipts \/ receipts'[t] = receipts[t] \cup {"LoaderFailed"}
      BY <1>5, LoaderKeeps
    <2>q. QED
      BY <2>1, BoundSame DEF Kept
  <1>6. ASSUME NEW t \in Txs, Commit(t) PROVE BoundInv'
    <2>1. /\ Kept /\ UNCHANGED receipts /\ Moves(t, {"live"}, {"committed"})
          /\ open' = [open EXCEPT ![t] = layout[t]]
      BY <1>6, CloseKeeps
    <2>2. /\ phase[t] = "live" /\ phase'[t] = "committed" /\ open'[t] = layout[t]
          /\ \A s \in Txs : s # t => phase'[s] = phase[s] /\ open'[s] = open[s]
      BY <2>1 DEF Moves, TypeOK
    <2>3. \A k \in Kinds \ torn' : BoundOf(t, k)'
      BY <2>1, <2>2 DEF BoundInv, BoundOf, Kept
    <2>q. QED
      BY <2>1, <2>2, <2>3, BoundKept DEF Kept
  <1>7. ASSUME NEW t \in Txs, CloseTab(t) \/ CleanUp(t) PROVE BoundInv'
    <2>1. /\ Kept /\ UNCHANGED <<receipts, phase>>
          /\ \A s \in Txs : open'[s] \subseteq open[s]
      BY <1>7, CloseKeeps DEF TypeOK
    <2>q. QED
      BY <2>1, BoundSame DEF Kept
  <1>8. ASSUME NEW p \in Panes, ClosePane(p) PROVE BoundInv'
    BY <1>8, BoundSame DEF ClosePane, bridgeVars, TypeOK
  <1>9. ASSUME NEW p \in Panes, Unload(p) PROVE BoundInv'
    <2>1. /\ UNCHANGED <<layout, phase, open, receipts>> /\ torn \subseteq torn'
          /\ \A q \in Panes : projects'[q] = IF q = p THEN Nothing ELSE projects[q]
      BY <1>9, UnloadKeeps
    <2>2. p[2] \in Kinds \ torn => phase[p[1]] = "committed" /\ p[2] \notin open[p[1]]
      BY <1>9 DEF Unload, UnloadInv
    <2> SUFFICES ASSUME NEW t \in Txs, NEW k \in Kinds \ torn' PROVE BoundOf(t, k)'
      BY DEF BoundInv
    <2>3. BoundOf(t, k) /\ <<t, k>> \in Panes
      BY <2>1, PaneFacts DEF BoundInv
    <2>4. CASE <<t, k>> = p
      BY <2>1, <2>2, <2>3, <2>4 DEF BoundOf
    <2>5. CASE <<t, k>> # p
      BY <2>1, <2>3, <2>5 DEF BoundOf
    <2>q. QED
      BY <2>4, <2>5
  <1>10. ASSUME UNCHANGED vars PROVE BoundInv'
    BY <1>10, BoundSame DEF vars, bridgeVars, screenVars
  <1>q. QED
    BY <1>1, <1>2, <1>3, <1>4, <1>5, <1>6, <1>7, <1>8, <1>9, <1>10 DEF Next

-----------------------------------------------------------------------------
(* CountsExact.                                                            *)

Exact(k) == authority[k].count = Cardinality(Bound(k))

\* The panes bound to a kind are finitely many.
LEMMA BoundFinite ==
  ASSUME NEW k
  PROVE  IsFiniteSet(Txs \X {k}) /\ IsFiniteSet(Bound(k)) /\ Cardinality(Bound(k)) \in Nat
  <1>1. IsFiniteSet(Txs)
    BY ChromeAssumption, FS_Interval, 1 \in Int DEF Txs
  <1>2. IsFiniteSet({k})
    BY FS_Singleton
  <1>3. IsFiniteSet(Txs \X {k})
    BY <1>1, <1>2, FS_Product
  <1>4. Bound(k) \in SUBSET (Txs \X {k})
    BY DEF Bound
  <1>5. IsFiniteSet(Bound(k))
    BY <1>3, <1>4, FS_Subset
  <1>q. QED
    BY <1>3, <1>5, FS_CardinalityType

\* What is bound to a kind: panes of that kind.
LEMMA BoundPanes ==
  ASSUME NEW k \in Kinds
  PROVE  /\ Bound(k) = {p \in Panes : p[2] = k /\ projects[p] # Nothing}
         /\ Bound(k)' = {p \in Panes : p[2] = k /\ projects'[p] # Nothing}
  <1>1. Txs \X {k} = {p \in Panes : p[2] = k}
    BY PaneFacts DEF Panes
  <1>q. QED
    BY <1>1 DEF Bound

\* Neither a pane of the kind nor the count changes.
LEMMA CountSame ==
  ASSUME NEW k \in Kinds, Exact(k), authority'[k].count = authority[k].count,
         \A p \in Panes : p[2] = k => projects'[p] = projects[p]
  PROVE  Exact(k)'
  <1>1. Bound(k)' = Bound(k)
    BY BoundPanes, ZenonT(40)
  <1>q. QED
    BY <1>1 DEF Exact

\* One more pane is bound and counted.
LEMMA CountMore ==
  ASSUME NEW k \in Kinds, Exact(k), authority'[k].count = authority[k].count + 1,
         NEW p \in Panes, p[2] = k, projects[p] = Nothing, projects'[p] # Nothing,
         \A q \in Panes : q # p => projects'[q] = projects[q]
                                   \/ q[2] # k
  PROVE  Exact(k)'
  <1>1. Bound(k)' = Bound(k) \cup {p} /\ p \notin Bound(k)
    BY BoundPanes
  <1>2. Cardinality(Bound(k) \cup {p}) = Cardinality(Bound(k)) + 1
    BY <1>1, BoundFinite, FS_AddElement
  <1>q. QED
    BY <1>1, <1>2 DEF Exact

\* A bound pane is unbound and the count is lowered: it was not zero.
LEMMA CountLess ==
  ASSUME NEW k \in Kinds, Exact(k), authority'[k].count = Dropped(authority[k].count),
         NEW p \in Panes, p[2] = k, projects[p] # Nothing, projects'[p] = Nothing,
         \A q \in Panes : q # p => projects'[q] = projects[q]
                                   \/ q[2] # k
  PROVE  Exact(k)'
  <1>1. Bound(k)' = Bound(k) \ {p} /\ p \in Bound(k)
    BY BoundPanes
  <1>2. Cardinality(Bound(k) \ {p}) = Cardinality(Bound(k)) - 1
    BY <1>1, BoundFinite, FS_RemoveElement, ZenonT(40)
  <1>3. Cardinality(Bound(k)) # 0
    BY <1>1, BoundFinite, FS_EmptySet
  <1>q. QED
    BY <1>1, <1>2, <1>3 DEF Exact, Dropped

\* A count of one at most stands for one pane at most.
LEMMA CountOne ==
  ASSUME NEW k \in Kinds, Exact(k), authority[k].count <= 1,
         NEW p \in Panes, p[2] = k, projects[p] # Nothing,
         NEW q \in Panes, q[2] = k, projects[q] # Nothing
  PROVE  p = q
  <1>1. p \in Bound(k) /\ q \in Bound(k)
    BY BoundPanes
  <1>2. Cardinality(Bound(k)) # 0
    BY <1>1, BoundFinite, FS_EmptySet
  <1>3. Cardinality(Bound(k)) = 1
    <2>1. Cardinality(Bound(k)) \in Nat
      BY BoundFinite
    <2>2. Cardinality(Bound(k)) <= 1
      BY DEF Exact
    <2>q. QED
      BY <1>2, <2>1, <2>2
  <1>4. \E x : Bound(k) = {x}
    BY <1>3, BoundFinite, FS_Singleton
  <1>q. QED
    BY <1>1, <1>4

\* Every step keeps the counts exact.
LEMMA CountsStep ==
  TypeOK /\ ShapeInv /\ BoundInv /\ CountsExact /\ [Next]_vars => CountsExact'
  <1> SUFFICES ASSUME TypeOK, ShapeInv, BoundInv, CountsExact, [Next]_vars,
                      NEW k \in Kinds \ torn'
               PROVE  Exact(k)'
    BY DEF CountsExact, Exact
  <1>1. ASSUME torn \subseteq torn' PROVE Exact(k)
    BY <1>1 DEF CountsExact, Exact
  <1>2. ASSUME projects' = projects, torn' = torn, authority'[k].count = authority[k].count
        PROVE  Exact(k)'
    BY <1>1, <1>2, CountSame
  <1>3. ASSUME Kept PROVE Exact(k)'
    BY <1>2, <1>3 DEF Kept
  <1>4. ASSUME NEW t \in Txs, Reserve(t) PROVE Exact(k)'
    BY <1>2, <1>4, ReserveDoes
  <1>5. ASSUME NEW t \in Txs, ResolveActivate(t) PROVE Exact(k)'
    <2>1. CASE Activate(t) \/ ActivateLosesAuthority(t)
      <3>1. PICK kinds \in SUBSET (Chrome(t) \cap Present) :
              /\ Moves(t, {"reserved", "again"}, {"live", "releasing", "again"})
              /\ \A p \in Panes : IF p[1] = t /\ p[2] \in kinds
                                    THEN projects'[p] \in Panes
                                    ELSE projects'[p] = projects[p]
              /\ authority'[k].count = IF k \in kinds THEN authority[k].count + 1
                                                      ELSE authority[k].count
              /\ torn' = torn \/ torn' = torn \cup kinds
        BY <1>5, <2>1, ActivateDoes
      <3>2. Exact(k)
        BY <1>1, <3>1
      <3>3. CASE k \in kinds
        <4>1. <<t, k>> \in Panes /\ projects'[<<t, k>>] # Nothing
          BY <3>1, <3>3, PaneFacts
        <4>2. projects[<<t, k>>] = Nothing
          BY <3>1 DEF Moves, BoundInv, BoundOf
        <4>3. \A q \in Panes : q # <<t, k>> => projects'[q] = projects[q] \/ q[2] # k
          BY <3>1, PaneFacts
        <4>q. QED
          BY <3>1, <3>2, <3>3, <4>1, <4>2, <4>3, CountMore
      <3>4. CASE k \notin kinds
        <4>1. \A p \in Panes : p[2] = k => projects'[p] = projects[p]
          BY <3>1, <3>4
        <4>q. QED
          BY <3>1, <3>2, <3>4, <4>1, CountSame
      <3>q. QED
        BY <3>3, <3>4
    <2>2. CASE ActivateRollsBack(t) \/ ActivateFails(t) \/ ActivateRefused(t)
      BY <1>3, <1>5, <2>2, ActivateKeeps
    <2>q. QED
      BY <1>5, <2>1, <2>2 DEF ResolveActivate
  <1>6. ASSUME NEW t \in Txs, ResolveCompensate(t) PROVE Exact(k)'
    <2>1. CASE Compensate(t) \/ CompensateFails(t)
      <3>1. /\ Moves(t, {"live", "compensating"}, {"over", "compensating"})
            /\ \A p \in Panes : projects'[p] = IF p[1] = t /\ p[2] \in Chrome(t)
                                                 THEN Nothing ELSE projects[p]
            /\ authority'[k].count = IF k \in Chrome(t) THEN Dropped(authority[k].count)
                                                        ELSE authority[k].count
            /\ torn' = torn \/ torn' = torn \cup Chrome(t)
        BY <1>6, <2>1, CompensateDoes
      <3>2. Exact(k)
        BY <1>1, <3>1
      <3>3. CASE k \in Chrome(t)
        <4>1. <<t, k>> \in Panes /\ projects'[<<t, k>>] = Nothing
          BY <3>1, <3>3, PaneFacts
        <4>2. projects[<<t, k>>] # Nothing
          BY <3>1, <3>3 DEF Moves, BoundInv, BoundOf, Chrome
        <4>3. \A q \in Panes : q # <<t, k>> => projects'[q] = projects[q] \/ q[2] # k
          BY <3>1, PaneFacts
        <4>q. QED
          BY <3>1, <3>2, <3>3, <4>1, <4>2, <4>3, CountLess
      <3>4. CASE k \notin Chrome(t)
        <4>1. \A p \in Panes : p[2] = k => projects'[p] = projects[p]
          BY <3>1, <3>4
        <4>q. QED
          BY <3>1, <3>2, <3>4, <4>1, CountSame
      <3>q. QED
        BY <3>3, <3>4
    <2>2. CASE CompensateWaits(t) \/ CompensateReplayed(t)
      BY <1>3, <1>6, <2>2, CompensateKeeps
    <2>q. QED
      BY <1>6, <2>1, <2>2 DEF ResolveCompensate
  <1>7. ASSUME NEW t \in Txs, ResolveRelease(t) PROVE Exact(k)'
    <2>1. CASE Release(t)
      BY <1>2, <1>7, <2>1, ReleaseDoes
    <2>2. CASE ReleaseFails(t) \/ ReleaseRefused(t)
      BY <1>3, <1>7, <2>2, ReleaseKeeps
    <2>q. QED
      BY <1>7, <2>1, <2>2 DEF ResolveRelease
  <1>8. ASSUME NEW t \in Txs, LoaderFails(t) \/ LoaderFailsUncleanly(t) PROVE Exact(k)'
    BY <1>3, <1>8, LoaderKeeps
  <1>9. ASSUME NEW t \in Txs, Commit(t) \/ CloseTab(t) \/ CleanUp(t) PROVE Exact(k)'
    BY <1>3, <1>9, CloseKeeps
  <1>10. ASSUME NEW p \in Panes, ClosePane(p) PROVE Exact(k)'
    BY <1>2, <1>10 DEF ClosePane, bridgeVars
  <1>11. ASSUME NEW p \in Panes, Unload(p) PROVE Exact(k)'
    <2>1. /\ \A q \in Panes : projects'[q] = IF q = p THEN Nothing ELSE projects[q]
          /\ torn \subseteq torn'
          /\ k # p[2] \/ projects[p] = Nothing => authority'[k] = authority[k]
          /\ projects[p] # Nothing => authority'[p[2]].count = Dropped(authority[p[2]].count)
      BY <1>11, UnloadKeeps
    <2>2. Exact(k)
      BY <1>1, <2>1
    <2>3. CASE k = p[2] /\ projects[p] # Nothing
      BY <2>1, <2>2, <2>3, CountLess
    <2>4. CASE k # p[2] \/ projects[p] = Nothing
      <3>1. \A q \in Panes : q[2] = k => projects'[q] = projects[q]
        BY <2>1, <2>4
      <3>q. QED
        BY <2>1, <2>2, <2>4, <3>1, CountSame
    <2>q. QED
      BY <2>3, <2>4
  <1>12. ASSUME UNCHANGED vars PROVE Exact(k)'
    BY <1>2, <1>12 DEF vars, bridgeVars, screenVars
  <1>q. QED
    BY <1>4, <1>5, <1>6, <1>7, <1>8, <1>9, <1>10, <1>11, <1>12 DEF Next

-----------------------------------------------------------------------------
(* UnloadInv.                                                              *)

\* UnloadInv in a step that closes no pane and touches no committed layout.
LEMMA UnloadKept ==
  ASSUME TypeOK, UnloadInv, unloads' \subseteq unloads, torn \subseteq torn',
         \A s \in Txs : phase[s] = "committed" =>
           phase'[s] = "committed" /\ open'[s] \subseteq open[s],
         \A p \in Panes : phase[p[1]] = "committed" => projects'[p] = projects[p],
         \A k \in Kinds : \/ authority'[k].by \in {0, authority[k].by}
                          \/ authority'[k].by \in Txs /\ phase[authority'[k].by] # "committed",
         \A p \in Panes : projects'[p] \in {projects[p], Nothing, <<authority[p[2]].by, p[2]>>}
  PROVE  UnloadInv'
  <1> SUFFICES ASSUME NEW p \in unloads', p[2] \in Kinds \ torn'
               PROVE  /\ phase'[p[1]] = "committed" /\ p[2] \notin open'[p[1]]
                      /\ \/ projects'[p] # Nothing
                         \/ /\ authority'[p[2]].by # p[1]
                            /\ \A q \in Panes : projects'[q] # p
    BY DEF UnloadInv
  <1>1. p \in Panes /\ p[1] \in Txs /\ p[1] # 0
    BY PaneFacts DEF TypeOK
  <1>2. phase[p[1]] = "committed" /\ p[2] \notin open[p[1]]
    BY DEF UnloadInv
  <1>3. phase'[p[1]] = "committed" /\ p[2] \notin open'[p[1]] /\ projects'[p] = projects[p]
    BY <1>1, <1>2
  <1>4. ASSUME projects[p] = Nothing
        PROVE  authority'[p[2]].by # p[1] /\ \A q \in Panes : projects'[q] # p
    <2>1. authority[p[2]].by # p[1] /\ \A q \in Panes : projects[q] # p
      BY <1>4 DEF UnloadInv
    <2>2. authority'[p[2]].by # p[1]
      BY <1>1, <1>2, <2>1
    <2>3. \A q \in Panes : <<authority[q[2]].by, q[2]>> # p
      BY <1>1, <2>1, PaneFacts
    <2>4. Nothing # p
      BY <1>1, PaneFacts
    <2>q. QED
      BY <2>1, <2>2, <2>3, <2>4
  <1>q. QED
    BY <1>3, <1>4

\* The pane p whose unload is handled may have been the last that projected its
\* own runtime: then its unload is asked for again and nobody refers to it.
LEMMA UnloadUnload ==
  ASSUME TypeOK, ShapeInv, UnloadInv, CountsExact, NEW p \in Panes, Unload(p)
  PROVE  UnloadInv'
  <1>1. /\ UNCHANGED <<phase, open>> /\ torn \subseteq torn'
        /\ \A q \in Panes : projects'[q] = IF q = p THEN Nothing ELSE projects[q]
        /\ \A k \in Kinds : authority'[k].by \in {0, authority[k].by}
    BY UnloadKeeps
  <1>2. ASSUME NEW q \in unloads, q # p, q[2] \in Kinds \ torn'
        PROVE  /\ phase'[q[1]] = "committed" /\ q[2] \notin open'[q[1]]
               /\ \/ projects'[q] # Nothing
                  \/ /\ authority'[q[2]].by # q[1]
                     /\ \A r \in Panes : projects'[r] # q
    <2>1. q \in Panes /\ q[1] # 0 /\ q # Nothing /\ q[2] \in Kinds \ torn
      BY <1>1, <1>2, PaneFacts DEF TypeOK
    <2>2. /\ phase[q[1]] = "committed" /\ q[2] \notin open[q[1]]
          /\ \/ projects[q] # Nothing
             \/ authority[q[2]].by # q[1] /\ \A r \in Panes : projects[r] # q
      BY <1>2, <2>1 DEF UnloadInv
    <2>q. QED
      BY <1>1, <1>2, <2>1, <2>2
  <1>3. ASSUME p \in unloads', p[2] \in Kinds \ torn'
        PROVE  /\ phase'[p[1]] = "committed" /\ p[2] \notin open'[p[1]]
               /\ authority'[p[2]].by # p[1] /\ \A r \in Panes : projects'[r] # p
    <2>1. p[2] \in Kinds \ torn /\ p[1] # 0 /\ p # Nothing
      BY <1>1, <1>3, PaneFacts
    <2>2. /\ phase[p[1]] = "committed" /\ p[2] \notin open[p[1]]
          /\ \/ projects[p] # Nothing
             \/ authority[p[2]].by # p[1] /\ \A r \in Panes : projects[r] # p
      BY <2>1 DEF UnloadInv, Unload
    <2>3. CASE UnloadProjector(p)
      BY <1>3, <2>3 DEF UnloadProjector
    <2>4. CASE UnloadLastProjector(p)
      <3>1. /\ projects[p] # Nothing /\ authority[p[2]].count <= 1
            /\ authority'[p[2]].by = 0
        BY <2>1, <2>4 DEF UnloadLastProjector, TypeOK, NoAuthority
      <3>2. ASSUME NEW r \in Panes PROVE projects'[r] # p
        <4>1. CASE r = p
          BY <1>1, <2>1, <4>1
        <4>2. CASE r # p /\ r[2] = p[2]
          BY <1>1, <2>1, <3>1, <4>2, CountOne DEF CountsExact, Exact
        <4>3. CASE r[2] # p[2]
          BY <1>1, <2>1, <4>3 DEF ShapeInv, BindingShape
        <4>q. QED
          BY <4>1, <4>2, <4>3
      <3>q. QED
        BY <1>1, <2>1, <2>2, <3>1, <3>2
    <2>5. CASE UnloadOwn(p)
      <3>1. projects[p] = Nothing
        BY <2>5 DEF UnloadOwn
      <3>q. QED
        BY <1>1, <2>1, <2>2, <3>1
    <2>q. QED
      BY <2>3, <2>4, <2>5 DEF Unload
  <1>4. ASSUME NEW q \in unloads', q[2] \in Kinds \ torn' PROVE q \in unloads \/ q = p
    <2>1. CASE UnloadProjector(p)
      BY <1>4, <2>1 DEF UnloadProjector
    <2>2. CASE UnloadLastProjector(p)
      <3>1. UnloadRuntime(p, projects[p]) /\ projects[p] # Nothing
        BY <2>2 DEF UnloadLastProjector
      <3>2. \/ unloads' = unloads \ {p}
            \/ unloads' = (unloads \ {p}) \cup {projects[p]} /\ projects[p] = p
            \/ /\ unloads' = (unloads \ {p}) \cup {projects[p]}
               /\ torn' = torn \cup {projects[p][2]}
        BY <3>1, UnloadRuntimeKeeps
      <3>q. QED
        BY <1>4, <3>2
    <2>3. CASE UnloadOwn(p)
      <3>1. UnloadRuntime(p, p)
        BY <2>3 DEF UnloadOwn
      <3>q. QED
        BY <1>4, <3>1, UnloadRuntimeKeeps
    <2>q. QED
      BY <2>1, <2>2, <2>3 DEF Unload
  <1>q. QED
    BY <1>2, <1>3, <1>4 DEF UnloadInv

\* Every step keeps UnloadInv.
LEMMA UnloadStep ==
  TypeOK /\ ShapeInv /\ BoundInv /\ UnloadInv /\ CountsExact /\ [Next]_vars => UnloadInv'
  <1> SUFFICES ASSUME TypeOK, ShapeInv, BoundInv, UnloadInv, CountsExact, [Next]_vars
               PROVE  UnloadInv'
    OBVIOUS
  <1>1. ASSUME NEW t \in Txs, phase[t] # "committed", UNCHANGED unloads, torn \subseteq torn',
               \A s \in Txs : s # t => phase'[s] = phase[s], UNCHANGED open,
               \A p \in Panes : p[1] # t => projects'[p] = projects[p],
               \A p \in Panes : projects'[p] \in {projects[p], Nothing, <<authority[p[2]].by, p[2]>>},
               \A k \in Kinds : authority'[k].by \in {0, authority[k].by, t}
        PROVE  UnloadInv'
    <2>1. \A p \in Panes : phase[p[1]] = "committed" => p[1] # t
      BY <1>1
    <2>q. QED
      BY <1>1, <2>1, UnloadKept
  <1>2. ASSUME NEW t \in Txs, Kept, UNCHANGED <<unloads, open>>, NEW from, NEW to,
               Moves(t, from, to), from \cap {"new", "committed"} = {}, "new" \notin to
        PROVE  UnloadInv'
    <2>1. phase[t] # "committed" /\ \A s \in Txs : s # t => phase'[s] = phase[s]
      BY <1>2, MovesFacts
    <2>q. QED
      BY <1>1, <1>2, <2>1 DEF Kept
  <1>3. ASSUME Kept, UNCHANGED <<unloads, phase>>, \A s \in Txs : open'[s] \subseteq open[s]
        PROVE  UnloadInv'
    BY <1>3, UnloadKept DEF Kept
  <1>4. ASSUME NEW t \in Txs, Reserve(t) PROVE UnloadInv'
    <2>1. /\ phase[t] = "new" /\ phase' = [phase EXCEPT ![t] = "reserved"]
          /\ UNCHANGED <<projects, open, unloads, torn>>
          /\ \A k \in Kinds : authority'[k].by \in {t, authority[k].by}
      BY <1>4, ReserveDoes
    <2>2. \A s \in Txs : s # t => phase'[s] = phase[s]
      BY <2>1 DEF TypeOK
    <2>q. QED
      BY <1>1, <2>1, <2>2
  <1>5. ASSUME NEW t \in Txs, ResolveActivate(t) PROVE UnloadInv'
    <2>1. CASE Activate(t) \/ ActivateLosesAuthority(t)
      <3>1. PICK kinds \in SUBSET (Chrome(t) \cap Present) :
              /\ UNCHANGED <<open, unloads>>
              /\ Moves(t, {"reserved", "again"}, {"live", "releasing", "again"})
              /\ \A p \in Panes : IF p[1] = t /\ p[2] \in kinds
                                    THEN projects'[p] = <<authority[p[2]].by, p[2]>>
                                    ELSE projects'[p] = projects[p]
              /\ \A k \in Kinds : authority'[k].by = authority[k].by
              /\ torn' = torn \/ torn' = torn \cup kinds
        BY <1>5, <2>1, ActivateDoes
      <3>2. phase[t] # "committed" /\ \A s \in Txs : s # t => phase'[s] = phase[s]
        BY <3>1, MovesFacts
      <3>q. QED
        BY <1>1, <3>1, <3>2
    <2>2. CASE ActivateRollsBack(t) \/ ActivateFails(t) \/ ActivateRefused(t)
      BY <1>2, <1>5, <2>2, ActivateKeeps
    <2>q. QED
      BY <1>5, <2>1, <2>2 DEF ResolveActivate
  <1>6. ASSUME NEW t \in Txs, ResolveCompensate(t) PROVE UnloadInv'
    <2>1. CASE Compensate(t) \/ CompensateFails(t)
      <3>1. /\ UNCHANGED <<open, unloads>>
            /\ Moves(t, {"live", "compensating"}, {"over", "compensating"})
            /\ \A p \in Panes : projects'[p] = IF p[1] = t /\ p[2] \in Chrome(t)
                                                 THEN Nothing ELSE projects[p]
            /\ \A k \in Kinds : authority'[k].by \in {0, authority[k].by}
            /\ torn' = torn \/ torn' = torn \cup Chrome(t)
        BY <1>6, <2>1, CompensateDoes
      <3>2. phase[t] # "committed" /\ \A s \in Txs : s # t => phase'[s] = phase[s]
        BY <3>1, MovesFacts
      <3>q. QED
        BY <1>1, <3>1, <3>2
    <2>2. CASE CompensateWaits(t) \/ CompensateReplayed(t)
      BY <1>2, <1>6, <2>2, CompensateKeeps
    <2>q. QED
      BY <1>6, <2>1, <2>2 DEF ResolveCompensate
  <1>7. ASSUME NEW t \in Txs, ResolveRelease(t) PROVE UnloadInv'
    <2>1. CASE Release(t)
      <3>1. /\ UNCHANGED <<open, unloads, projects, torn>>
            /\ Moves(t, {"reserved", "releasing"}, {"over"})
            /\ \A k \in Kinds : authority'[k].by \in {0, authority[k].by}
        BY <1>7, <2>1, ReleaseDoes
      <3>2. phase[t] # "committed" /\ \A s \in Txs : s # t => phase'[s] = phase[s]
        BY <3>1, MovesFacts
      <3>q. QED
        BY <1>1, <3>1, <3>2
    <2>2. CASE ReleaseFails(t) \/ ReleaseRefused(t)
      BY <1>2, <1>7, <2>2, ReleaseKeeps
    <2>q. QED
      BY <1>7, <2>1, <2>2 DEF ResolveRelease
  <1>8. ASSUME NEW t \in Txs, LoaderFails(t) \/ LoaderFailsUncleanly(t) PROVE UnloadInv'
    BY <1>3, <1>8, LoaderKeeps
  <1>9. ASSUME NEW t \in Txs, Commit(t) PROVE UnloadInv'
    <2>1. /\ Kept /\ UNCHANGED unloads /\ Moves(t, {"live"}, {"committed"})
          /\ open' = [open EXCEPT ![t] = layout[t]]
      BY <1>9, CloseKeeps
    <2>2. /\ phase[t] = "live"
          /\ \A s \in Txs : s # t => phase'[s] = phase[s] /\ open'[s] = open[s]
      BY <2>1 DEF Moves, TypeOK
    <2>q. QED
      BY <2>1, <2>2, UnloadKept DEF Kept
  <1>10. ASSUME NEW t \in Txs, CloseTab(t) \/ CleanUp(t) PROVE UnloadInv'
    <2>1. Kept /\ UNCHANGED <<unloads, phase>> /\ \A s \in Txs : open'[s] \subseteq open[s]
      BY <1>10, CloseKeeps DEF TypeOK
    <2>q. QED
      BY <1>3, <2>1
  <1>11. ASSUME NEW p \in Panes, ClosePane(p) PROVE UnloadInv'
    <2>1. /\ UNCHANGED <<projects, authority, phase, torn>> /\ unloads' = unloads \cup {p}
          /\ phase[p[1]] = "committed" /\ p[2] \in open[p[1]]
          /\ open' = [open EXCEPT ![p[1]] = @ \ {p[2]}]
      BY <1>11 DEF ClosePane, bridgeVars
    <2>2. /\ \A s \in Txs : open'[s] \subseteq open[s]
          /\ p[2] \notin open'[p[1]]
      BY <2>1, PaneFacts DEF TypeOK
    <2>3. p[2] \in Kinds \ torn => projects[p] # Nothing
      BY <2>1, PaneFacts DEF BoundInv, BoundOf
    <2>4. ASSUME NEW q \in unloads', q[2] \in Kinds \ torn', q # p
          PROVE  /\ phase'[q[1]] = "committed" /\ q[2] \notin open'[q[1]]
                 /\ \/ projects'[q] # Nothing
                    \/ authority'[q[2]].by # q[1] /\ \A r \in Panes : projects'[r] # q
      <3>1. q \in unloads /\ q \in Panes /\ q[1] \in Txs
        BY <2>1, <2>4, PaneFacts DEF TypeOK
      <3>q. QED
        BY <2>1, <2>2, <2>4, <3>1 DEF UnloadInv
    <2>q. QED
      BY <2>1, <2>2, <2>3, <2>4 DEF UnloadInv
  <1>12. ASSUME NEW p \in Panes, Unload(p) PROVE UnloadInv'
    BY <1>12, UnloadUnload
  <1>13. ASSUME UNCHANGED vars PROVE UnloadInv'
    BY <1>13 DEF vars, bridgeVars, screenVars, UnloadInv, Panes, Items, Txs
  <1>q. QED
    BY <1>4, <1>5, <1>6, <1>7, <1>8, <1>9, <1>10, <1>11, <1>12, <1>13 DEF Next

-----------------------------------------------------------------------------
(* The theorems.                                                           *)

\* Before anything is reserved no count is kept and no pane is bound.
LEMMA InitInv == Init => IInv
  <1> SUFFICES ASSUME Init PROVE IInv
    OBVIOUS
  <1>1. TypeOK
    BY InitTypes
  <1>2. ShapeInv
    BY PaneFacts
    DEF Init, ShapeInv, BindingShape, RuntimeShape, AuthorityShape, OpenShape, NewShape,
        NoAuthority, Of
  <1>3. BoundInv
    BY PaneFacts DEF Init, BoundInv, BoundOf
  <1>4. UnloadInv /\ LeftInv
    BY DEF Init, UnloadInv, LeftInv
  <1>5. CountsExact
    <2> SUFFICES ASSUME NEW k \in Kinds PROVE authority[k].count = Cardinality(Bound(k))
      BY DEF CountsExact
    <2>1. Bound(k) = {}
      BY BoundPanes DEF Init
    <2>2. authority[k].count = 0
      BY DEF Init, NoAuthority
    <2>q. QED
      BY <2>1, <2>2, FS_EmptySet
  <1>q. QED
    BY <1>1, <1>2, <1>3, <1>4, <1>5 DEF IInv

LEMMA InvStep == IInv /\ [Next]_vars => IInv'
  BY TypeStep, ShapeStep, BoundStep, UnloadStep, LeftStep, CountsStep DEF IInv

THEOREM Invariance == Spec => []IInv
  BY InitInv, InvStep, PTL DEF Spec

\* Every variable keeps its type in every reachable state.
THEOREM TypeCorrect == Spec => []TypeOK
  <1>1. IInv => TypeOK
    BY DEF IInv
  <1>q. QED
    BY <1>1, Invariance, PTL

\* For any number of tabs and kinds of chrome: an authority's count of projectors
\* is the number of panes bound to its kind, whatever is activated, compensated,
\* closed or failed before (except for the kinds excused in torn).
THEOREM CountsAreExact == Spec => []CountsExact
  <1>1. IInv => CountsExact
    BY DEF IInv
  <1>q. QED
    BY <1>1, Invariance, PTL

\* A layout that was taken back has no runtime, no owner of one and no bound
\* pane (except after a failed loader and for the kinds excused in torn).
THEOREM RejectedIsClean == Spec => []RejectedLeavesNothing
  <1>1. IInv => RejectedLeavesNothing
    BY DEF IInv, LeftInv, BoundInv, BoundOf, RejectedLeavesNothing
  <1>q. QED
    BY <1>1, Invariance, PTL

\* The unload of a pane stops no runtime that another bound pane projects.
LEMMA UnloadSpares ==
  ASSUME IInv, NEW p \in unloads, Unload(p),
         NEW q \in Panes, q # p, projects[q] # Nothing, q[2] \notin torn, projects[q] \in running
  PROVE  projects[q] \in running'
  <1>1. p \in Panes /\ q[2] \in Kinds /\ projects[q][2] = q[2]
    BY DEF IInv, TypeOK, ShapeInv, BindingShape, Chrome
  <1>2. TypeOK
    BY DEF IInv
  <1>3. CASE UnloadProjector(p)
    BY <1>3 DEF UnloadProjector
  <1>4. CASE UnloadLastProjector(p)
    <2>1. /\ projects[p] # Nothing /\ authority[p[2]].count <= 1
          /\ UnloadRuntime(p, projects[p])
      BY <1>4 DEF UnloadLastProjector
    <2>2. projects[p][2] = p[2]
      BY <1>1, <2>1 DEF IInv, ShapeInv, BindingShape
    <2>3. p[2] # q[2]
      BY <1>1, <2>1, CountOne DEF IInv, CountsExact, Exact
    <2>4. projects[q] # projects[p]
      BY <1>1, <2>2, <2>3
    <2>q. QED
      BY <1>2, <2>1, <2>4, UnloadRuntimeKeeps
  <1>5. CASE UnloadOwn(p)
    <2>1. projects[p] = Nothing /\ UnloadRuntime(p, p)
      BY <1>5 DEF UnloadOwn
    <2>2. projects[q] # p
      BY <1>1, <2>1 DEF IInv, UnloadInv
    <2>q. QED
      BY <1>2, <2>1, <2>2, UnloadRuntimeKeeps
  <1>q. QED
    BY <1>3, <1>4, <1>5 DEF Unload

\* Closing a pane never stops a runtime that another bound pane projects
\* (except for the kinds excused in torn).
THEOREM ClosingIsLocal == Spec => ClosingSparesOthers
  <1>1. IInv /\ [Next]_vars =>
          [\A p \in unloads : Unload(p) =>
             \A q \in Panes : /\ q # p /\ projects[q] # Nothing /\ q[2] \notin torn
                              /\ projects[q] \in running
                              => projects[q] \in running']_vars
    BY UnloadSpares
  <1>q. QED
    BY <1>1, Invariance, PTL DEF Spec, ClosingSparesOthers
=============================================================================
