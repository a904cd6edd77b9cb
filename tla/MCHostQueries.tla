---------------------------- MODULE MCHostQueries ----------------------------
(* HostQueries for TLC: what the programs print. *)
EXTENDS HostQueries

CONSTANTS p1, p2

\* a query for the terminal, or for Screen, with one behind it that the pane
\* answers itself, in a later chunk or in the same one; a competitor
MCScripts ==
  p1 :> {<<<<"host">>, <<"sync">>>>, <<<<"mode", "sync">>>>} @@
  p2 :> {<<<<"host">>>>}

\* two queries in one sequence
MCSeveral == p1 :> {<<<<"pair", "sync">>>>} @@ p2 :> {<<<<"host">>>>}
=============================================================================
