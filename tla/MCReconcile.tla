---------------------------- MODULE MCReconcile ----------------------------
(* An instance of Reconcile for TLC: lines missing, repeated, and of other amounts. *)
EXTENDS Reconcile, TLC

CONSTANTS a, b

Line(ref, amount) == [ref |-> ref, amount |-> amount]

MCStatements ==
    {<<>>, <<Line(a, 1)>>, <<Line(a, 2), Line(b, 1)>>, <<Line(a, 1), Line(b, 1), Line(a, 1)>>}

\* Calls and scopes are used alike.
MCSymmetry == Permutations(Attempts) \cup Permutations(Scopes)
=============================================================================
