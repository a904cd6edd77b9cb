---------------------------- MODULE ViewerDrawer ----------------------------
(***************************************************************************)
(* The drawers: the sessions that show finished runs, one viewer tab each. *)
(*                                                                         *)
(* A viewer is asked for by a new-tab request that carries a fence: the    *)
(* token of the viewer and the generation of the request, both checked     *)
(* against the receipt of the run's transfer on disk.  The server creates  *)
(* an empty pending tab, or finds the one with the token, and hands the    *)
(* layout to a writer (the Plugin and Pty threads); when the writer comes  *)
(* back the Screen thread checks the fence again and shows the layout.     *)
(* Writers of one tab are ordered by a generation that Screen keeps.       *)
(*                                                                         *)
(* A drawer is saved for resurrection and restored from its saved layout,  *)
(* pending tab by pending tab, by requests that carry no fence.            *)
(***************************************************************************)
EXTENDS Naturals, FiniteSets, Sequences

CONSTANTS
  Buckets,    \* the drawers, of three: "Finalized runs", "Failed runs", "Needs attention"
  Tokens,     \* the viewer tokens of the run, numbered as they are drawn
  MaxFaults   \* bound on everything that goes wrong, in all modules

ASSUME TokensAssumption == Tokens \subseteq Nat \ {0}

VARIABLES
  receipt,   \* the run's transfer receipt on disk; rev 0: there is none
  drawer,    \* per drawer: is it up, its incarnation, tabs, layout
             \* generations, the layout on disk and the save under way
  requests,  \* the new-tab commands that have not been handled
  writers,   \* the layouts handed to the Plugin and Pty threads
  busy,      \* the writers whose layout Screen has checked and is committing
  faults

serverVars == <<drawer, requests, writers, busy>>

TabStates == {"none", "pending", "blank", "viewer"}
Layouts == [Tokens -> {"none", "blank", "viewer"}]
Drawers == [up : BOOLEAN, life : Nat, tab : [Tokens -> TabStates],
            local : [Tokens -> Nat], saved : SUBSET Layouts,
            saving : SUBSET Layouts]
Requests == [bucket : Buckets, token : Tokens, gen : Nat]
Writers == [bucket : Buckets, token : Tokens, local : Nat, gen : Nat,
            kind : {"new", "recovery"}, makes : {"blank", "viewer"}]

DrawerTypeOK ==
  /\ drawer \in [Buckets -> Drawers]
  /\ requests \subseteq Requests
  /\ writers \subseteq Writers /\ busy \subseteq writers
  /\ faults \in Nat

NoTabs == [t \in Tokens |-> "none"]

DrawerInit ==
  /\ drawer = [b \in Buckets |->
                 [up |-> FALSE, life |-> 0, tab |-> NoTabs,
                  local |-> [t \in Tokens |-> 0], saved |-> {},
                  saving |-> {}]]
  /\ requests = {} /\ writers = {} /\ busy = {}
  /\ faults = 0

Bounded == faults < MaxFaults

\* The Screen thread is not in the middle of a commit.
Serves(b) == drawer[b].up /\ \A w \in busy : w.bucket # b

WithTab(b, t, state) == [drawer EXCEPT ![b].tab[t] = state]

-----------------------------------------------------------------------------
(* The fence.                                                              *)

\* OwnershipLost: the receipt has another token or another drawer.
OwnershipLost(f) ==
  \/ receipt.rev = 0
  \/ receipt.token # f.token \/ receipt.bucket # f.bucket

\* SupersededSameViewer: the same viewer, asked for again since.
Superseded(f) == receipt.gen # f.gen \/ ~receipt.pending

\* Mutant: a late request is served as any other.
MutVerified(f) == f.gen >= 0

\* verify_for_install; a restored tab's request has no fence (gen 0).
Verified(f) == f.gen = 0 \/ ~(OwnershipLost(f) \/ Superseded(f))

-----------------------------------------------------------------------------
(* New tabs and their layouts.                                             *)

\* NewTab: a request whose fence does not hold is refused before anything is
\* allocated; a tab that has the token already is recovered in place.
NewTab(f) ==
  /\ f \in requests /\ Serves(f.bucket)
  /\ requests' = requests \ {f}
  /\ LET d == drawer[f.bucket]
         found == d.tab[f.token] # "none"
         next == d.local[f.token] + 1
     IN IF Verified(f)
        THEN /\ drawer' = [drawer EXCEPT
                  ![f.bucket].local[f.token] = next,
                  ![f.bucket].tab[f.token] = IF found THEN @ ELSE "pending"]
             /\ writers' = writers \cup
                  {[bucket |-> f.bucket, token |-> f.token, local |-> next,
                    gen |-> f.gen, makes |-> "viewer",
                    kind |-> IF found THEN "recovery" ELSE "new"]}
        ELSE UNCHANGED <<drawer, writers>>
  /\ UNCHANGED <<receipt, busy, faults>>

\* durable_tab_layout_generation_is_current
IsCurrentWriter(w) ==
  LET d == drawer[w.bucket] IN
    d.tab[w.token] # "none" /\ d.local[w.token] = w.local

\* ApplyLayout, and OverrideLayout of a recovery, up to the last check.
ApplyLayout(w) ==
  /\ w \in writers \ busy /\ Serves(w.bucket)
  /\ IsCurrentWriter(w) /\ Verified(w)
  /\ busy' = busy \cup {w}
  /\ UNCHANGED <<receipt, drawer, requests, writers, faults>>

\* The receipt may have changed since the last check.
CommitLayout(w) ==
  /\ w \in busy
  /\ drawer' = WithTab(w.bucket, w.token, w.makes)
  /\ busy' = busy \ {w} /\ writers' = writers \ {w}
  /\ UNCHANGED <<receipt, requests, faults>>

\* discard_owned_pending_tabs: of the tab the writer's request created.
Discarded(w) ==
  IF w.kind = "new" /\ drawer[w.bucket].tab[w.token] = "pending"
  THEN WithTab(w.bucket, w.token, "none") ELSE drawer

\* Plugin or Pty does not activate what it made: the layout is rolled back.
ActivationFails(w) ==
  /\ w \in busy /\ Bounded
  /\ faults' = faults + 1
  /\ busy' = busy \ {w} /\ writers' = writers \ {w}
  /\ drawer' = Discarded(w)
  /\ UNCHANGED <<receipt, requests>>

\* A layout that comes back too late is rolled back.  What becomes of the tab
\* depends on why: a newer generation in this server discards it when it is
\* pending still, a lost fence closes it, a newer request for it keeps it.
RejectLayout(w) ==
  /\ w \in writers \ busy /\ Serves(w.bucket)
  /\ ~(IsCurrentWriter(w) /\ Verified(w))
  /\ writers' = writers \ {w}
  /\ drawer' = IF ~IsCurrentWriter(w) THEN Discarded(w)
               ELSE IF OwnershipLost(w) THEN WithTab(w.bucket, w.token, "none")
               ELSE drawer
  /\ UNCHANGED <<receipt, requests, busy, faults>>

\* LayoutPreparationFailed: the tab is kept for another writer that owns it.
PreparationFails(w) ==
  /\ w \in writers \ busy /\ Serves(w.bucket) /\ Bounded
  /\ faults' = faults + 1 /\ writers' = writers \ {w}
  /\ LET superseded == \/ ~IsCurrentWriter(w)
                       \/ \E v \in writers \ {w} :
                            v.bucket = w.bucket /\ v.token = w.token
     IN drawer' = IF superseded THEN drawer ELSE Discarded(w)
  /\ UNCHANGED <<receipt, requests, busy>>

-----------------------------------------------------------------------------
(* Restarts and saved layouts.                                             *)

\* The tabs of the saved layout come back, pending, each with its writer.
Restored(d) ==
  IF d.saved = {} THEN NoTabs ELSE CHOOSE f \in d.saved : TRUE

Start(b) ==
  /\ ~drawer[b].up
  /\ LET f == Restored(drawer[b])
         back == {t \in Tokens : f[t] # "none"}
     IN /\ drawer' = [drawer EXCEPT ![b] =
              [up |-> TRUE, life |-> drawer[b].life + 1,
               tab |-> [t \in Tokens |-> IF t \in back THEN "pending"
                                         ELSE "none"],
               local |-> [t \in Tokens |-> IF t \in back THEN 1 ELSE 0],
               saved |-> drawer[b].saved, saving |-> {}]]
        /\ writers' = writers \cup
              {[bucket |-> b, token |-> t, local |-> 1, gen |-> 0,
                kind |-> "new", makes |-> f[t]] : t \in back}
  /\ UNCHANGED <<requests, busy>>

\* Somebody else, e.g. the transfer of another run, brings the drawer up.
OthersStart(b) == Start(b) /\ UNCHANGED <<receipt, faults>>

\* Mutant: what the Screen thread was committing outlives it.
MutServerCrash(b) ==
  /\ drawer[b].up /\ Bounded
  /\ faults' = faults + 1
  /\ drawer' = [drawer EXCEPT ![b].up = FALSE, ![b].tab = NoTabs]
  /\ requests' = {f \in requests : f.bucket # b}
  /\ writers' = {w \in writers : w.bucket # b}
  /\ UNCHANGED <<receipt, busy>>

ServerCrash(b) ==
  /\ drawer[b].up /\ Bounded
  /\ faults' = faults + 1
  /\ drawer' = [drawer EXCEPT ![b].up = FALSE, ![b].tab = NoTabs,
                              ![b].local = [t \in Tokens |-> 0],
                              ![b].saving = {}]
  /\ requests' = {f \in requests : f.bucket # b}
  /\ writers' = {w \in writers : w.bucket # b}
  /\ busy' = {w \in busy : w.bucket # b}
  /\ UNCHANGED receipt

\* A pending tab has no pane: it is saved as a tab with one empty pane.
Snapshot(d) ==
  [t \in Tokens |-> IF d.tab[t] = "pending" THEN "blank" ELSE d.tab[t]]

\* A capture replaces the one under way: see commit_if_current.
Capture(b) == [drawer EXCEPT ![b].saving = {Snapshot(drawer[b])}]

\* What the file holds, or is about to hold.
NewestSave(d) == IF d.saving = {} THEN d.saved ELSE d.saving

\* A save of what was saved last, which changes nothing, is left out.
TimerSave(b) ==
  /\ Serves(b) /\ NewestSave(drawer[b]) # {Snapshot(drawer[b])}
  /\ drawer' = Capture(b)
  /\ UNCHANGED <<receipt, requests, writers, busy, faults>>

SaveLands(b) ==
  /\ drawer[b].up /\ drawer[b].saving # {}
  /\ drawer' = [drawer EXCEPT ![b].saved = drawer[b].saving, ![b].saving = {}]
  /\ UNCHANGED <<receipt, requests, writers, busy, faults>>

UserClosesViewer(b, t) ==
  /\ Serves(b) /\ Bounded /\ drawer[b].tab[t] # "none"
  /\ faults' = faults + 1
  /\ drawer' = WithTab(b, t, "none")
  /\ UNCHANGED <<receipt, requests, writers, busy>>

-----------------------------------------------------------------------------
WriterStep ==
  \E w \in writers : ApplyLayout(w) \/ CommitLayout(w) \/ RejectLayout(w)

DrawerStep ==
  \/ \E f \in requests : NewTab(f)
  \/ WriterStep
  \/ \E w \in writers : PreparationFails(w) \/ ActivationFails(w)
  \/ \E b \in Buckets : \/ OthersStart(b) \/ ServerCrash(b)
                        \/ TimerSave(b) \/ SaveLands(b)
  \/ \E b \in Buckets, t \in Tokens : UserClosesViewer(b, t)

=============================================================================
