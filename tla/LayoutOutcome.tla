---------------------------- MODULE LayoutOutcome ----------------------------
(***************************************************************************)
(* What a layout transaction promises, whatever is lost or repeated on the *)
(* way: Screen commits a layout only when its plugins have been activated  *)
(* and its terminals run, gives it up only when neither is held any more,  *)
(* and a part that was set free does not come to life again.  A plugin     *)
(* that fails after its activation was acknowledged does not undo the      *)
(* commitment: it is shown as failed in the committed layout.              *)
(***************************************************************************)
VARIABLES plugins, terminals, outcome

vars == <<plugins, terminals, outcome>>

Init == plugins = "none" /\ terminals = "none" /\ outcome = "open"

PluginsHold ==
  /\ plugins = "none" /\ plugins' = "held"
  /\ UNCHANGED <<terminals, outcome>>

PluginsGoLive ==
  /\ plugins = "held" /\ terminals = "held" /\ plugins' = "live"
  /\ UNCHANGED <<terminals, outcome>>

PluginsFail ==
  /\ plugins = "live" /\ plugins' = "failed"
  /\ UNCHANGED <<terminals, outcome>>

\* Plugins that have not gone live may go at any time, others only with the
\* terminals.
PluginsGo ==
  /\ outcome = "open"
  /\ \/ plugins = "held" /\ terminals # "live"
     \/ plugins \in {"live", "failed"} /\ terminals = "freed"
  /\ plugins' = "freed"
  /\ UNCHANGED <<terminals, outcome>>

TerminalsHold ==
  /\ plugins = "held" /\ terminals = "none" /\ terminals' = "held"
  /\ UNCHANGED <<plugins, outcome>>

TerminalsGoLive ==
  /\ plugins \in {"live", "failed"} /\ terminals = "held" /\ terminals' = "live"
  /\ UNCHANGED <<plugins, outcome>>

\* A preparation that failed leaves no trace, a resolution does.
TerminalsGo ==
  /\ outcome = "open" /\ terminals = "held"
  /\ terminals' \in {"none", "freed"}
  /\ UNCHANGED <<plugins, outcome>>

Commit ==
  /\ outcome = "open"
  /\ plugins \in {"live", "failed"} /\ terminals = "live"
  /\ outcome' = "commit"
  /\ UNCHANGED <<plugins, terminals>>

GiveUp ==
  /\ outcome = "open"
  /\ plugins \in {"none", "freed", "failed"} /\ terminals \in {"none", "freed"}
  /\ outcome' = "abort"
  /\ UNCHANGED <<plugins, terminals>>

Next ==
  \/ PluginsHold \/ PluginsGoLive \/ PluginsFail \/ PluginsGo
  \/ TerminalsHold \/ TerminalsGoLive \/ TerminalsGo
  \/ Commit \/ GiveUp

Spec == Init /\ [][Next]_vars

\* A decision and what the two threads hold agree.
Agreement ==
  /\ outcome = "commit" => plugins \in {"live", "failed"} /\ terminals = "live"
  /\ outcome = "abort" => plugins \in {"none", "freed", "failed"} /\ terminals \in {"none", "freed"}
=============================================================================
