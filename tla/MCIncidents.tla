----------------------------- MODULE MCIncidents -----------------------------
(* Instances of Incidents for TLC. *)
EXTENDS Incidents, TLC

CONSTANTS acme, globex, unknown, inc1, inc2

Stmt(e, c, t, tag) == [entity |-> e, capability |-> c, ts |-> t, tag |-> tag]

\* A statement that carries an id on a subject of its own, a bare one, and one that
\* names no customer, out of the window of a declaration but not of the first's.
AllStatements ==
    { Stmt(acme, "other", 2, inc1),
      Stmt(acme, "incident", 1, None),
      Stmt(unknown, "incident", 3, None) }

OneCustomer == [i \in Ids |-> IF i = inc1 THEN {{acme}} ELSE {{globex}}]

Symmetry == Permutations(Objects) \cup Permutations(Requests)
=============================================================================
