------------------------------ MODULE PtyWriter ------------------------------
(***************************************************************************)
(* The thread that writes to the terminals (pty_writer.rs).  Writes reach  *)
(* it through one channel; every terminal has a queue of what the kernel   *)
(* has not accepted yet.  A queue that would outgrow its cap is dropped    *)
(* together with the write that did it, and a terminal that reports an     *)
(* error loses its queue.                                                  *)
(*                                                                         *)
(* The unit is one answer to one query of a program, not one byte: a write *)
(* carries a sequence of them, the kernel accepts any prefix of a queue,   *)
(* so a write may be split.  Resizes are left out: they go to the terminal *)
(* at once and share nothing with the queues.                              *)
(***************************************************************************)
EXTENDS Naturals, SequencesExt

CONSTANTS
  Panes,       \* terminal panes, named by their terminal ids
  MaxPending   \* MAX_PENDING_BYTES, in units

ASSUME PendingAssumption == MaxPending \in Nat

VARIABLES
  open,     \* the panes that are in some tab; the terminals of the others go
  writer,   \* the channel of the writer thread
  pending,  \* the queue of every terminal
  received  \* what every program has found on its standard input

queueVars == <<pending, received>>

Units == [pane : Panes, at : Nat, part : Nat]

WriterTypeOK ==
  /\ open \subseteq Panes
  /\ writer \in Seq([to : Panes, units : Seq(Units)])
  /\ pending \in [Panes -> Seq(Units)] /\ received \in [Panes -> Seq(Units)]
  /\ \A t \in Panes : Len(pending[t]) <= MaxPending

WriterInit ==
  /\ open = Panes
  /\ writer = <<>>
  /\ pending = [t \in Panes |-> <<>>] /\ received = [t \in Panes |-> <<>>]

\* an empty write adds nothing to what a terminal reads
WriteTo(t, units) ==
  IF units = <<>> THEN <<>> ELSE <<[to |-> t, units |-> units]>>

\* one pass over all terminals: of every queue the kernel accepts a prefix; the
\* terminal of a closed pane reports an error, which clears its queue, or
\* accepts what nobody reads
Drain(queue) ==
  \E n \in [open -> 0 .. MaxPending] :
    /\ \A t \in open : n[t] <= Len(queue[t])
    /\ received' = [t \in Panes |->
         IF t \in open THEN received[t] \o SubSeq(queue[t], 1, n[t])
         ELSE received[t]]
    /\ pending' = [t \in Panes |->
         IF t \in open THEN SubSeq(queue[t], n[t] + 1, Len(queue[t]))
         ELSE <<>>]

\* Mutant: the queue has no cap.
MutEnqueue(queue, units) == queue \o units

Enqueue(queue, units) ==
  IF Len(queue) + Len(units) > MaxPending THEN <<>> ELSE queue \o units

HandleWrite ==
  /\ writer # <<>>
  /\ LET w == Head(writer)
     IN Drain([pending EXCEPT ![w.to] = Enqueue(@, w.units)])
  /\ writer' = Tail(writer)
  /\ UNCHANGED open

\* PENDING_DRAIN_TIMEOUT: nothing new arrived while something is queued
Retry ==
  /\ \E t \in Panes : pending[t] # <<>>
  /\ Drain(pending)
  /\ UNCHANGED <<writer, open>>

\* what the channel still holds for a terminal
Sent(t, writes) ==
  FlattenSeq([i \in 1 .. Len(writes) |->
                IF writes[i].to = t THEN writes[i].units ELSE <<>>])

\* everything that was or will be written to a terminal, in order
Stream(t) == received[t] \o pending[t] \o Sent(t, writer)
=============================================================================
