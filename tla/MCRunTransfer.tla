---------------------------- MODULE MCRunTransfer ----------------------------
(* Instances of RunTransfer for TLC. *)
EXTENDS RunTransfer

\* A run that ends with 0 and that its caller does not trust: one revision drops
\* the verdict, another one revises the code.
Outcome(code, verdict) == [code |-> code, verdict |-> verdict]
Distrusted == Outcome(0, "Needs attention")
Revised == {Distrusted, Outcome(0, "none"), Outcome(1, "none")}
=============================================================================
