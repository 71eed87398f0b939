---------------------------- MODULE MCConnections ----------------------------
(* An instance of Connections for TLC. *)
EXTENDS Connections, TLC

CONSTANTS kickoff, review

\* Two calls, one of which has no recorded consent once its transcript is edited.
AllCalls == [f \in Files |-> "call"]
Unconsented == {<<kickoff, 1>>}
OneOrBoth == {{kickoff}, {kickoff, review}}

Symmetry == Permutations(Requests)
=============================================================================
