----------------------------- MODULE MCLabelSet -----------------------------
(***************************************************************************)
(* Model checking of LabelSet: every name up to MaxLen runes, an agent     *)
(* whose labels have keys a request can bring as well, and one that puts   *)
(* a label of its own into the value of another.                           *)
(***************************************************************************)
EXTENDS LabelSet

Plainly == [key \in {<<"x">>, <<"p">>} |-> <<"p">>]
Broken == [key \in {<<"x">>} |-> <<"p", ",", "x", "=", "x">>]

MCPeers == {Plainly, Broken}
=============================================================================
