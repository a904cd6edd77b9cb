---------------------------- MODULE SessionChrome ----------------------------
(***************************************************************************)
(* The session chrome (tab bar, session manager, status bar) runs once in  *)
(* a session: the tab whose layout asks for it first starts its runtime,   *)
(* every other tab's pane projects that runtime.  The Plugin thread keeps, *)
(* for each kind, an authority with the runtime and a count of projectors  *)
(* (zellij-server/src/plugins/wasm_bridge.rs), which the layout            *)
(* transactions of all tabs, panes that are closed one by one and tabs     *)
(* that are closed as a whole change in turn.                              *)
(*                                                                         *)
(* A layout has at most one pane of each kind, and "own", a plugin of the  *)
(* tab's own.  A pane is named by its transaction and what it shows; so is *)
(* a runtime, by the pane it was first reserved for (both have one id).    *)
(***************************************************************************)
EXTENDS Naturals, FiniteSets

CONSTANTS
  Last,      \* bound: layout transactions, numbered in the order of Plugin's channel
  Kinds,     \* SessionChromeKind
  Layouts,   \* what layouts ask for: sets of kinds and "own"
  PaneCloses, TabCloses,   \* whether panes, and whole tabs, are closed
  MaxFaults, \* bound: things that go wrong
  Faults     \* subset of {"late", "schedule", "quiesce", "cleanup", "load"}

Txs == 1 .. Last
Items == Kinds \cup {"own"}
Panes == Txs \X Items

ASSUME ChromeAssumption ==
  /\ Last \in Nat /\ MaxFaults \in Nat
  /\ "own" \notin Kinds /\ IsFiniteSet(Kinds)
  /\ Layouts \subseteq (SUBSET Items) \ {{}}
  /\ PaneCloses \in BOOLEAN /\ TabCloses \in BOOLEAN
  /\ Faults \subseteq {"late", "schedule", "quiesce", "cleanup", "load"}

VARIABLES
  authority,    \* session_chrome_authorities
  projects,     \* session_chrome_projectors: the runtime of every bound pane
  layout,       \* the panes of each reservation (pane_bindings)
  binding,      \* what each of them was bound to when it was reserved
  plugins,      \* reservation.plugins: the runtimes it starts
  reservation,  \* reservation.state
  owners,       \* the keys of layout_plugin_owners
  running,      \* plugin_map and the executor's assignments
  receipts,     \* layout_plugin_receipts
  phase,        \* how far Screen is with each transaction
  open,         \* the panes in each committed tab
  cleanup,      \* pending_layout_cleanup of the tab's closing
  unloads,      \* Unload messages on their way, of panes and of runtimes
  torn,         \* kinds that a resolution changed before it failed, or whose runtime is
                \* asked to unload once more because it did not stop
  faults

bridgeVars == <<authority, projects, layout, binding, plugins, reservation, owners, running,
                receipts>>
screenVars == <<phase, open, cleanup, unloads>>
vars == <<bridgeVars, screenVars, torn, faults>>

NoAuthority == [by |-> 0, count |-> 0]
Nothing == <<0, "own">>

Of(t) == {p \in Panes : p[1] = t}
Chrome(t) == layout[t] \cap Kinds
Bound(k) == {p \in Txs \X {k} : projects[p] # Nothing}

Spend == faults < MaxFaults /\ faults' = faults + 1

Init ==
  /\ authority = [k \in Kinds |-> NoAuthority]
  /\ projects = [p \in Panes |-> Nothing]
  /\ layout = [t \in Txs |-> {}]
  /\ binding = [p \in Panes |-> Nothing]
  /\ plugins = [t \in Txs |-> {}]
  /\ reservation = [t \in Txs |-> "absent"]
  /\ owners = {} /\ running = {}
  /\ receipts = [t \in Txs |-> {}]
  /\ phase = [t \in Txs |-> "new"]
  /\ open = [t \in Txs |-> {}]
  /\ cleanup = [t \in Txs |-> {}]
  /\ unloads = {} /\ torn = {} /\ faults = 0

-----------------------------------------------------------------------------
(* Reservation and the unloading of runtimes. *)

Present == {k \in Kinds : authority[k] # NoAuthority}

\* reserve_layout_plugins: the first to ask for a kind becomes its authority.
\* Plugin handles NewTab in the order of the transactions' numbers.
Reserve(t) ==
  /\ phase[t] = "new" /\ \A s \in Txs : s < t => phase[s] # "new"
  /\ \E items \in Layouts :
       LET starts == items \ Present
       IN  /\ layout' = [layout EXCEPT ![t] = items]
           /\ plugins' = [plugins EXCEPT ![t] = starts]
           /\ owners' = owners \cup ({t} \X starts)
           /\ authority' = [k \in Kinds |-> IF k \in starts THEN [by |-> t, count |-> 0]
                                                            ELSE authority[k]]
           /\ binding' = [p \in Panes |->
                            IF p[1] = t /\ p[2] \in items
                              THEN IF p[2] \in starts THEN p ELSE <<authority[p[2]].by, p[2]>>
                              ELSE binding[p]]
  /\ reservation' = [reservation EXCEPT ![t] = "Reserved"]
  /\ phase' = [phase EXCEPT ![t] = "reserved"]
  /\ UNCHANGED <<projects, running, receipts, open, cleanup, unloads, torn, faults>>

\* cleanup_layout_plugin for each of these ids: the runtimes are stopped and
\* their owners forgotten; a reservation without owners goes with the last.
Unloaded(ids) ==
  /\ running' = running \ ids
  /\ owners' = owners \ ids
  /\ reservation' = [t \in Txs |-> IF owners \cap Of(t) # {} /\ (owners \ ids) \cap Of(t) = {}
                                     THEN "absent" ELSE reservation[t]]

\* The same when one of them does not stop: those before it are gone.
PartlyUnloaded(ids) ==
  /\ "cleanup" \in Faults /\ Spend
  /\ \E left \in SUBSET (ids \cap (owners \cup running)) :
       left # {} /\ Unloaded(ids \ left)

Started(t) == {t} \X plugins[t]

-----------------------------------------------------------------------------
(* resolve_layout_plugins for the requests that Screen sends.              *)

\* Screen coordinates one transaction after the other, in the order in which
\* their layouts come back from the PTY thread; what is left undecided is
\* repeated in the background.
FirstOf(t) == phase[t] = "reserved" /\ \A s \in Txs : s < t => phase[s] # "reserved"

Bind(t, kinds) ==
  /\ projects' = [p \in Panes |-> IF p[1] = t /\ p[2] \in kinds
                                    THEN <<authority[p[2]].by, p[2]>> ELSE projects[p]]
  /\ authority' = [k \in Kinds |-> IF k \in kinds THEN [authority[k] EXCEPT !.count = @ + 1]
                                                  ELSE authority[k]]

Resolved(t, state, receipt, next) ==
  /\ reservation' = [reservation EXCEPT ![t] = state]
  /\ receipts' = [receipts EXCEPT ![t] = @ \cup {receipt}]
  /\ phase' = [phase EXCEPT ![t] = next]

Activate(t) ==
  /\ reservation[t] = "Reserved" /\ Chrome(t) \subseteq Present
  /\ running' = running \cup Started(t)
  /\ Bind(t, Chrome(t))
  /\ Resolved(t, "Activated", "Activated", "live")
  /\ UNCHANGED <<owners, torn, faults>>

\* An error is answered by a release, unless the answer came too late: then
\* the activation is asked for again.
Refused(t) ==
  \/ phase' = [phase EXCEPT ![t] = "releasing"] /\ UNCHANGED faults
  \/ phase' = [phase EXCEPT ![t] = "again"] /\ "late" \in Faults /\ Spend

\* "lost its authority": the panes before it are bound, the loaders run, and
\* the reservation stays what it was.
ActivateLosesAuthority(t) ==
  /\ reservation[t] = "Reserved" /\ ~(Chrome(t) \subseteq Present)
  /\ running' = running \cup Started(t)
  /\ \E kinds \in SUBSET (Chrome(t) \cap Present) : Bind(t, kinds) /\ torn' = torn \cup kinds
  /\ Refused(t)
  /\ UNCHANGED <<owners, reservation, receipts>>

\* A loader cannot be scheduled, and those before it are unloaded.
ActivateRollsBack(t) ==
  /\ reservation[t] = "Reserved" /\ plugins[t] # {}
  /\ "schedule" \in Faults /\ Spend
  /\ Unloaded(Started(t))
  /\ receipts' = [receipts EXCEPT ![t] = @ \cup {"ActivationRolledBack"}]
  /\ phase' = [phase EXCEPT ![t] = "over"]
  /\ UNCHANGED <<authority, projects, torn>>

\* One of those is not, and keeps its owner; as do all when a loader is busy.
ActivateFails(t) ==
  /\ reservation[t] = "Reserved" /\ plugins[t] # {}
  /\ {"schedule", "cleanup"} \subseteq Faults /\ Spend
  /\ \E left \in (SUBSET (owners \cap Started(t))) \ {{}} :
       /\ running' = (running \ Started(t)) \cup left
       /\ owners' = (owners \ Started(t)) \cup left
  /\ reservation' = [reservation EXCEPT ![t] = "ActivationFailed"]
  /\ phase' = [phase EXCEPT ![t] = "releasing"]
  /\ UNCHANGED <<authority, projects, receipts, torn>>

\* Its reservation is gone or was failed by a loader.
ActivateRefused(t) ==
  /\ reservation[t] # "Reserved"
  /\ Refused(t)
  /\ UNCHANGED <<authority, projects, reservation, owners, running, receipts, torn>>

ResolveActivate(t) ==
  /\ FirstOf(t) \/ phase[t] = "again"
  /\ \/ Activate(t) \/ ActivateLosesAuthority(t) \/ ActivateRollsBack(t)
     \/ ActivateFails(t) \/ ActivateRefused(t)
  /\ UNCHANGED <<layout, binding, plugins, open, cleanup, unloads>>

\* The terminals of the layout run, and Screen commits.
Commit(t) ==
  /\ phase[t] = "live"
  /\ phase' = [phase EXCEPT ![t] = "committed"]
  /\ open' = [open EXCEPT ![t] = layout[t]]
  /\ UNCHANGED <<bridgeVars, cleanup, unloads, torn, faults>>

\* Mutant: a count wraps below zero (wrapping_sub instead of saturating_sub).
MutDropped(n) == n - 1

Dropped(n) == IF n = 0 THEN 0 ELSE n - 1

\* The counts once the panes of t are unbound (saturating_sub).
Unbind(t) ==
  /\ projects' = [p \in Panes |-> IF p[1] = t /\ p[2] \in Chrome(t) THEN Nothing ELSE projects[p]]
  /\ authority' = [k \in Kinds |-> IF k \in Chrome(t) \cap Present
                                     THEN [authority[k] EXCEPT !.count = Dropped(@)]
                                     ELSE authority[k]]

\* Mutant: the compensation restores the counts and forgets the bindings.
MutCompensate(t) ==
  /\ reservation[t] \in {"Activated", "ActivationFailed"}
  /\ authority' = [k \in Kinds |->
                     LET left == Dropped(authority[k].count)
                         n == IF k \in Chrome(t) THEN left ELSE authority[k].count
                     IN  IF n = 0 THEN NoAuthority ELSE [authority[k] EXCEPT !.count = n]]
  /\ running' = running \ Started(t) /\ owners' = owners \ Started(t)
  /\ Resolved(t, "absent", "Compensated", "over")
  /\ UNCHANGED <<projects, torn, faults>>

\* The panes are unbound, the runtimes that t started are stopped, and no
\* authority is kept that has no projector.
Compensate(t) ==
  /\ reservation[t] \in {"Activated", "ActivationFailed"}
  /\ projects' = [p \in Panes |-> IF p[1] = t /\ p[2] \in Chrome(t) THEN Nothing ELSE projects[p]]
  /\ authority' = [k \in Kinds |->
                     LET left == Dropped(authority[k].count)
                         n == IF k \in Chrome(t) THEN left ELSE authority[k].count
                     IN  IF n = 0 THEN NoAuthority ELSE [authority[k] EXCEPT !.count = n]]
  /\ running' = running \ Started(t) /\ owners' = owners \ Started(t)
  /\ Resolved(t, "absent", "Compensated", "over")
  /\ UNCHANGED <<torn, faults>>

\* The panes are unbound before the unloads that fail.
CompensateFails(t) ==
  /\ reservation[t] \in {"Activated", "ActivationFailed"}
  /\ Unbind(t)
  /\ PartlyUnloaded(Started(t))
  /\ torn' = torn \cup Chrome(t)
  /\ phase' = [phase EXCEPT ![t] = "compensating"]
  /\ UNCHANGED receipts

\* A loader is busy: nothing was changed yet.
CompensateWaits(t) ==
  /\ reservation[t] \in {"Activated", "ActivationFailed"} /\ plugins[t] # {}
  /\ "quiesce" \in Faults /\ Spend
  /\ phase' = [phase EXCEPT ![t] = "compensating"]
  /\ UNCHANGED <<authority, projects, reservation, owners, running, receipts, torn>>

\* A failed loader has compensated t: its receipt names the runtimes.
CompensateReplayed(t) ==
  /\ "LoaderFailed" \in receipts[t]
  /\ phase' = [phase EXCEPT ![t] = IF plugins[t] = layout[t] THEN "over" ELSE "compensating"]
  /\ UNCHANGED <<authority, projects, reservation, owners, running, receipts, torn, faults>>

ResolveCompensate(t) ==
  /\ phase[t] \in {"live", "compensating"}
  /\ \/ "LoaderFailed" \notin receipts[t]
          /\ (Compensate(t) \/ CompensateFails(t) \/ CompensateWaits(t))
     \/ CompensateReplayed(t)
  /\ UNCHANGED <<layout, binding, plugins, open, cleanup, unloads>>

Release(t) ==
  /\ reservation[t] \in {"Reserved", "ActivationFailed"}
  /\ running' = running \ Started(t) /\ owners' = owners \ Started(t)
  /\ authority' = [k \in Kinds |-> IF authority[k].by = t /\ authority[k].count = 0
                                     THEN NoAuthority ELSE authority[k]]
  /\ Resolved(t, "absent", "Released", "over")
  /\ UNCHANGED <<projects, torn, faults>>

ReleaseFails(t) ==
  /\ reservation[t] \in {"Reserved", "ActivationFailed"}
  /\ PartlyUnloaded(running \cap Started(t))
  /\ phase' = [phase EXCEPT ![t] = "releasing"]
  /\ UNCHANGED <<authority, projects, receipts, torn>>

\* The reservation is gone, or a loader failed and the receipt says so.
ReleaseRefused(t) ==
  /\ reservation[t] = "absent"
  /\ phase' = [phase EXCEPT ![t] = "releasing"]
  /\ UNCHANGED <<authority, projects, reservation, owners, running, receipts, torn, faults>>

ResolveRelease(t) ==
  /\ FirstOf(t) \/ phase[t] = "releasing"
  /\ Release(t) \/ ReleaseFails(t) \/ ReleaseRefused(t)
  /\ UNCHANGED <<layout, binding, plugins, open, cleanup, unloads>>

\* handle_layout_plugin_activation_failure: the runtimes of t are unloaded; the
\* panes stay bound and counted.
LoaderFails(t) ==
  /\ "load" \in Faults /\ Spend
  /\ reservation[t] # "absent" /\ Started(t) \cap running # {}
  /\ running' = running \ Started(t) /\ owners' = owners \ Started(t)
  /\ reservation' = [reservation EXCEPT ![t] = "absent"]
  /\ receipts' = [receipts EXCEPT ![t] = @ \cup {"LoaderFailed"}]
  /\ UNCHANGED <<authority, projects, layout, binding, plugins, screenVars, torn>>

\* One of the runtimes does not stop.
LoaderFailsUncleanly(t) ==
  /\ "load" \in Faults
  /\ reservation[t] # "absent" /\ Started(t) \cap running # {}
  /\ \E left \in (SUBSET (owners \cap Started(t))) \ {{}} :
       /\ owners' = (owners \ Started(t)) \cup left
       /\ running' = (running \ Started(t)) \cup left
  /\ "cleanup" \in Faults /\ Spend
  /\ reservation' = [reservation EXCEPT ![t] = "ActivationFailed"]
  /\ UNCHANGED <<authority, projects, layout, binding, plugins, receipts, screenVars, torn>>

-----------------------------------------------------------------------------
(* Panes and tabs that are closed. *)

ClosePane(p) ==
  /\ PaneCloses
  /\ phase[p[1]] = "committed" /\ p[2] \in open[p[1]]
  /\ open' = [open EXCEPT ![p[1]] = @ \ {p[2]}]
  /\ unloads' = unloads \cup {p}
  /\ UNCHANGED <<bridgeVars, phase, cleanup, torn, faults>>

\* cleanup_layout_plugin by unload_plugin, retried later if it fails: the retry
\* names the runtime, and is taken for the closing of the pane with that id
UnloadRuntime(p, r) ==
  \/ /\ Unloaded({r})
     /\ unloads' = unloads \ {p}
     /\ UNCHANGED <<torn, faults>>
  \/ /\ r \in owners \cup running
     /\ "cleanup" \in Faults /\ Spend
     /\ unloads' = (unloads \ {p}) \cup {r}
     /\ torn' = IF r = p THEN torn ELSE torn \cup {r[2]}
     /\ UNCHANGED <<running, owners, reservation>>

\* Mutant: a projector is forgotten and its authority still counts it.
MutUnloadProjector(p) ==
  /\ projects[p] # Nothing /\ authority[p[2]].count > 1
  /\ projects' = [projects EXCEPT ![p] = Nothing]
  /\ unloads' = unloads \ {p}
  /\ UNCHANGED <<authority, running, owners, reservation, torn, faults>>

\* Somebody else projects the runtime: it stays.
UnloadProjector(p) ==
  /\ projects[p] # Nothing /\ authority[p[2]].count > 1
  /\ projects' = [projects EXCEPT ![p] = Nothing]
  /\ authority' = [authority EXCEPT ![p[2]].count = @ - 1]
  /\ unloads' = unloads \ {p}
  /\ UNCHANGED <<running, owners, reservation, torn, faults>>

\* Mutant: the runtime is unloaded while one projector is left.
MutUnloadLastProjector(p) ==
  /\ projects[p] # Nothing /\ authority[p[2]].count <= 2
  /\ projects' = [projects EXCEPT ![p] = Nothing]
  /\ authority' = [authority EXCEPT ![p[2]] = NoAuthority]
  /\ UnloadRuntime(p, projects[p])

\* Nobody else does: the authority is dropped and the runtime is unloaded.
UnloadLastProjector(p) ==
  /\ projects[p] # Nothing /\ authority[p[2]].count <= 1
  /\ projects' = [projects EXCEPT ![p] = Nothing]
  /\ authority' = [authority EXCEPT ![p[2]] = NoAuthority]
  /\ UnloadRuntime(p, projects[p])

UnloadOwn(p) ==
  /\ projects[p] = Nothing
  /\ UnloadRuntime(p, p)
  /\ UNCHANGED <<projects, authority>>

\* unload_plugin
Unload(p) ==
  /\ p \in unloads
  /\ UnloadProjector(p) \/ UnloadLastProjector(p) \/ UnloadOwn(p)
  /\ UNCHANGED <<layout, binding, plugins, receipts, phase, open, cleanup>>

\* close_tab_by_id: the ids of the tab's panes are handed over for cleanup.
CloseTab(t) ==
  /\ TabCloses
  /\ phase[t] = "committed" /\ open[t] # {}
  /\ cleanup' = [cleanup EXCEPT ![t] = open[t]]
  /\ open' = [open EXCEPT ![t] = {}]
  /\ UNCHANGED <<bridgeVars, phase, unloads, torn, faults>>

\* cleanup_layout_plugins: of these ids, those of runtimes are unloaded; the
\* authorities and projectors are not looked at.
CleanUp(t) ==
  /\ cleanup[t] # {}
  /\ \/ Unloaded({t} \X cleanup[t]) /\ cleanup' = [cleanup EXCEPT ![t] = {}] /\ UNCHANGED faults
     \* it is asked for again, or given up after the last retry
     \/ PartlyUnloaded({t} \X cleanup[t])
          /\ (UNCHANGED cleanup \/ cleanup' = [cleanup EXCEPT ![t] = {}])
  /\ UNCHANGED <<authority, projects, layout, binding, plugins, receipts, phase, open, unloads,
                 torn>>

Next ==
  \/ \E t \in Txs : \/ Reserve(t) \/ ResolveActivate(t) \/ Commit(t) \/ ResolveCompensate(t)
                    \/ ResolveRelease(t) \/ LoaderFails(t) \/ LoaderFailsUncleanly(t)
                    \/ CloseTab(t) \/ CleanUp(t)
  \/ \E p \in Panes : ClosePane(p) \/ Unload(p)

Spec == Init /\ [][Next]_vars

-----------------------------------------------------------------------------
States == {"absent", "Reserved", "Activated", "ActivationFailed"}
Receipts == {"Activated", "ActivationRolledBack", "Compensated", "Released", "LoaderFailed"}
Phases == {"new", "reserved", "again", "releasing", "live", "compensating", "committed", "over"}

\* Every variable has its type.
TypeOK ==
  /\ authority \in [Kinds -> [by : 0 .. Last, count : Nat]]
  /\ projects \in [Panes -> Panes \cup {Nothing}]
  /\ layout \in [Txs -> SUBSET Items] /\ plugins \in [Txs -> SUBSET Items]
  /\ binding \in [Panes -> Panes \cup {Nothing}]
  /\ reservation \in [Txs -> States] /\ receipts \in [Txs -> SUBSET Receipts]
  /\ owners \subseteq Panes /\ running \subseteq Panes /\ unloads \subseteq Panes
  /\ phase \in [Txs -> Phases]
  /\ open \in [Txs -> SUBSET Items] /\ cleanup \in [Txs -> SUBSET Items]
  /\ torn \subseteq Kinds /\ faults \in 0 .. MaxFaults

\* An authority's projector_count is the number of panes bound to its kind, in
\* whatever order layouts are activated and compensated, panes and tabs closed
\* and loaders fail; only a resolution that failed after it had begun to
\* change the counts, and a repeated unload (torn), may leave them wrong.
CountsExact ==
  \A k \in Kinds \ torn : authority[k].count = Cardinality(Bound(k))

\* Closing a pane never stops a runtime that another bound pane projects, unless
\* the counts of its kind were left half changed (torn).
ClosingSparesOthers ==
  [][\A p \in unloads : Unload(p) =>
       \A q \in Panes : /\ q # p /\ projects[q] # Nothing /\ q[2] \notin torn
                        /\ projects[q] \in running
                        => projects[q] \in running']_vars

\* A layout that was taken back leaves nothing behind: no runtime and no owner
\* of one, no bound pane (unless a loader failed, which keeps the bindings, or the
\* counts of the kind were left half changed, see CountsExact).
RejectedLeavesNothing ==
  \A t \in Txs : phase[t] = "over" =>
    /\ Of(t) \cap (owners \cup running) = {}
    /\ "LoaderFailed" \notin receipts[t] =>
         \A k \in Kinds \ torn : projects[<<t, k>>] = Nothing

\* A runtime that a committed layout has started runs while the pane of some
\* open tab projects it.
SharedRuntimeLives ==
  \A t \in Txs : \A k \in open[t] \cap Kinds :
    LET runtime == binding[<<t, k>>]
    IN  phase[runtime[1]] = "committed" => runtime \in running
=============================================================================
