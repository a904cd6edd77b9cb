---------------------------- MODULE LayoutPlugins ----------------------------
(***************************************************************************)
(* The Plugin thread's part of one layout transaction: the reservation of  *)
(* plugin ids that a new layout needs, and its resolution by Activate,     *)
(* Release or Compensate (zellij-server/src/plugins/wasm_bridge.rs).  The  *)
(* thread handles one instruction at a time, so each handler is one step.  *)
(*                                                                         *)
(* What may go wrong inside a handler is its parameter fails, a set of     *)
(* "schedule" (a loader cannot be enqueued), "quiesce" (running loaders do *)
(* not stop in time) and "cleanup" (an unload leaves debt).  Its answer on *)
(* the ack channel is its parameter ack.                                   *)
(***************************************************************************)
EXTENDS Naturals

\* Which panes a layout may ask for: sets of "runtimes" (plugins this
\* transaction starts) and "projectors" (chrome panes that project a plugin
\* started by an earlier transaction).
CONSTANT Shapes

ASSUME ShapesAssumption == Shapes \subseteq SUBSET {"runtimes", "projectors"}

VARIABLES
  shape,         \* the panes that were reserved
  reservation,   \* layout_plugin_reservations[transaction].state
  receipts,      \* layout_plugin_receipts, by kind of resolution
  runtimes,      \* the plugin runtimes this transaction owns
  projectors     \* session_chrome_projectors of this transaction's panes

pluginVars == <<shape, reservation, receipts, runtimes, projectors>>

Kinds == {"Activate", "Release", "Compensate"}

PluginErrors ==
  {"ReplayConflict", "UnknownPlugins", "ResolutionConflict", "WrongState", "Unclean"}

PluginAcks ==
  {"Activated", "ActivationRolledBack", "Released", "Compensated"} \cup PluginErrors

PluginFaults == {"schedule", "quiesce", "cleanup"}

\* A receipt names the ids it was recorded for: those of all panes, or (after
\* an asynchronous failure) only those of the runtimes.
NoReceipt == [as |-> "none", ids |-> "panes"]

PluginInit ==
  /\ shape \in Shapes
  /\ reservation = "absent"
  /\ receipts = [k \in Kinds |-> NoReceipt]
  /\ runtimes = "none"
  /\ projectors = "unbound"

PluginTypeOK ==
  /\ shape \in SUBSET {"runtimes", "projectors"}
  /\ reservation \in {"absent", "Reserved", "Activated", "ActivationFailed"}
  /\ receipts \in [Kinds -> [as : {"none"} \cup (PluginAcks \ PluginErrors),
                            ids : {"panes", "runtimes"}]]
  /\ runtimes \in {"none", "loaded"}
  /\ projectors \in {"unbound", "bound"}

-----------------------------------------------------------------------------
Record(kind, as, ids) ==
  receipts' = [receipts EXCEPT ![kind] = [as |-> as, ids |-> ids]]

\* The ids Screen expects are those of every pane; they are the runtimes'
\* ids when the transaction has no projector.
ExpectedIds(ids) == ids = "panes" \/ "projectors" \notin shape

Received == {k \in Kinds : receipts[k] # NoReceipt}

\* Loaders and runtimes exist only for the panes this transaction starts.
CleansUp(fails) == "runtimes" \notin shape \/ fails \cap {"quiesce", "cleanup"} = {}

\* ids are handed out; nothing runs yet
Reserve ==
  /\ reservation' = "Reserved"
  /\ UNCHANGED <<shape, receipts, runtimes, projectors>>

-----------------------------------------------------------------------------
(* resolve_layout_plugins: a receipt of the same kind is replayed, an      *)
(* absent reservation refused, anything else goes by the state.            *)

Replay(kind, ack) ==
  /\ kind \in Received
  /\ ack = IF ExpectedIds(receipts[kind].ids) THEN receipts[kind].as
                                              ELSE "ReplayConflict"
  /\ UNCHANGED pluginVars

\* compensates_retired_empty_activation: an activation without panes has
\* already dropped its reservation.
CompensateEmpty(kind, ack) ==
  /\ kind = "Compensate" /\ kind \notin Received
  /\ reservation = "absent" /\ shape = {} /\ "Activate" \in Received
  /\ Record(kind, "Compensated", "panes")
  /\ ack = "Compensated"
  /\ UNCHANGED <<shape, reservation, runtimes, projectors>>

RefuseUnreserved(kind, ack) ==
  /\ kind \notin Received /\ reservation = "absent"
  /\ ~(kind = "Compensate" /\ shape = {} /\ "Activate" \in Received)
  /\ ack = IF Received = {} THEN "UnknownPlugins" ELSE "ResolutionConflict"
  /\ UNCHANGED pluginVars

ResolvableFrom(kind) ==
  CASE kind = "Activate" -> {"Reserved"}
    [] kind = "Release" -> {"Reserved", "ActivationFailed"}
    [] kind = "Compensate" -> {"Activated", "ActivationFailed"}

RefuseState(kind, ack) ==
  /\ kind \notin Received
  /\ reservation \notin ResolvableFrom(kind) \cup {"absent"}
  /\ ack = "WrongState"
  /\ UNCHANGED pluginVars

Activate(fails, ack) ==
  /\ "runtimes" \notin shape \/ "schedule" \notin fails
  /\ reservation' = IF shape = {} THEN "absent" ELSE "Activated"
  /\ runtimes' = IF "runtimes" \in shape THEN "loaded" ELSE "none"
  /\ projectors' = IF "projectors" \in shape THEN "bound" ELSE "unbound"
  /\ Record("Activate", "Activated", "panes")
  /\ ack = "Activated"
  /\ UNCHANGED shape

\* A loader cannot be scheduled: what was started is cancelled and unloaded.
ActivateRollsBack(fails, ack) ==
  /\ "runtimes" \in shape /\ "schedule" \in fails
  /\ IF CleansUp(fails)
       THEN /\ reservation' = "absent"
            /\ Record("Activate", "ActivationRolledBack", "panes")
            /\ ack = "ActivationRolledBack"
            /\ UNCHANGED <<shape, runtimes, projectors>>
       ELSE /\ reservation' = "ActivationFailed"
            /\ runtimes' = "loaded"
            /\ ack = "Unclean"
            /\ UNCHANGED <<shape, receipts, projectors>>

Release(fails, ack) ==
  IF CleansUp(fails)
    THEN /\ reservation' = "absent"
         /\ runtimes' = "none"
         /\ Record("Release", "Released", "panes")
         /\ ack = "Released"
         /\ UNCHANGED <<shape, projectors>>
    ELSE ack = "Unclean" /\ UNCHANGED pluginVars

\* Projectors are unbound once the loaders are quiet, before the unloads that
\* may still fail.
Compensate(fails, ack) ==
  /\ projectors' = IF "runtimes" \in shape /\ "quiesce" \in fails
                     THEN projectors ELSE "unbound"
  /\ IF CleansUp(fails)
       THEN /\ reservation' = "absent"
            /\ runtimes' = "none"
            /\ Record("Compensate", "Compensated", "panes")
            /\ ack = "Compensated"
            /\ UNCHANGED shape
       ELSE ack = "Unclean" /\ UNCHANGED <<shape, reservation, receipts, runtimes>>

ResolvePlugins(kind, fails, ack) ==
  \/ Replay(kind, ack)
  \/ CompensateEmpty(kind, ack)
  \/ RefuseUnreserved(kind, ack)
  \/ RefuseState(kind, ack)
  \/ /\ kind \notin Received
     /\ reservation \in ResolvableFrom(kind)
     /\ \/ kind = "Activate" /\ Activate(fails, ack)
        \/ kind = "Activate" /\ ActivateRollsBack(fails, ack)
        \/ kind = "Release" /\ Release(fails, ack)
        \/ kind = "Compensate" /\ Compensate(fails, ack)

-----------------------------------------------------------------------------
\* handle_layout_plugin_activation_failure: a loader reports, after Activate
\* was acknowledged, that its plugin did not load, or another loader of the
\* group reports after that.  The compensation receipt names the runtimes' ids,
\* and projectors stay bound.
LoaderFails(fails) ==
  /\ receipts["Activate"].as = "Activated"
  /\ reservation # "absent" /\ "runtimes" \in shape
  /\ IF CleansUp(fails)
       THEN /\ reservation' = "absent"
            /\ runtimes' = "none"
            /\ Record("Compensate", "Compensated", "runtimes")
       ELSE reservation' = "ActivationFailed" /\ UNCHANGED <<receipts, runtimes>>
  /\ UNCHANGED <<shape, projectors>>
=============================================================================
